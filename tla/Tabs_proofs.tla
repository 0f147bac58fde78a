---------------------------- MODULE Tabs_proofs ----------------------------
(***************************************************************************)
(* Proofs about Tabs: the shell knows its contents, nothing is lost        *)
(* unasked, what was dispatched for a tab does not go on without it, and   *)
(* a reply answers what its tab asked for last.                            *)
(***************************************************************************)
EXTENDS Tabs, SequenceTheorems, TLAPS

(***************************************************************************)
(* The invariant.                                                          *)
(***************************************************************************)
TabRecords ==
  [id : TabIDs, relation : Relations \cup {SQL}, dirty : BOOLEAN,
   running : BOOLEAN, request : Metas \cup {NoMeta}]
Contents ==
  [dirty : BOOLEAN, active : Metas \cup {NoMeta},
   nextRequest : 1..(MaxOps + 1), job : 0..MaxOps]
Ops == [meta : Metas \cup {NoMeta}, stage : Stages, loose : BOOLEAN]
Live(o) == op[o].stage \in {"intent", "running", "reply"}

\* tabs, a sequence of tabs with numbers of their own, and the tab that is shown.
TabsTyped ==
  /\ tabs \in Seq(TabRecords)
  /\ \A i, j \in 1..Len(tabs) : tabs[i].id = tabs[j].id => i = j
  /\ IF tabs = <<>> THEN activeTab = NoTab ELSE activeTab \in IdsOf(tabs)
ModalTyped ==
  /\ modal.kind \in {"none", "close", "disconnect"}
  /\ modal.kind = "close" => modal.tab \in IdsOf(tabs)
ContentTyped ==
  /\ DOMAIN content \subseteq TabIDs
  /\ \A id \in DOMAIN content : content[id] \in Contents
OpsTyped ==
  /\ op \in [OpIds -> Ops]
  /\ nextOp \in 1..(MaxOps + 1)
  /\ registry \subseteq {o \in OpIds : op[o].stage = "running"}
  /\ cancels \subseteq Names
RootTyped ==
  /\ shown \in {"launcher", "workspace"}
  /\ ws \in 0..MaxWorkspaces
  /\ nextTab \in 1..(MaxTabs + 1)
  /\ opens \subseteq Workspaces \X TabIDs
  /\ leaving \in BOOLEAN
  /\ closing \in BOOLEAN
Typed == TabsTyped /\ ModalTyped /\ ContentTyped /\ OpsTyped /\ RootTyped

\* There are tabs and contents in a workspace only; those numbered from nextTab
\* on have not been opened, and one that is about to be has no content yet.
TabsNumbered ==
  /\ ~Shell => tabs = <<>> /\ DOMAIN content = {}
  /\ Shell => ws \in Workspaces
  /\ \A i \in 1..Len(tabs) : tabs[i].id[2] < nextTab
  /\ \A id \in DOMAIN content : id[2] < nextTab
  /\ \A open \in opens :
       /\ open[1] <= ws
       /\ Shell /\ open[1] = ws => open[2][2] < nextTab /\ open[2] \notin DOMAIN content

\* An operation that may come back belongs to a tab that has been opened, in this
\* workspace or in one before.
OpsNumbered ==
  /\ \A id \in DOMAIN content : content[id].nextRequest <= nextOp
  /\ \A o \in OpIds :
       /\ o >= nextOp => op[o].stage = "unused"
       /\ Live(o) =>
            /\ op[o].meta \in Metas /\ op[o].meta.ws <= ws
            /\ Shell /\ op[o].meta.ws = ws =>
                 op[o].meta.tab[2] < nextTab /\ <<ws, op[o].meta.tab>> \notin opens

\* What a content awaits, and the operations of its tab that may come back.
OwnOps(id) ==
  {o \in OpIds : Live(o) /\ op[o].meta.ws = ws /\ op[o].meta.tab = id}
Remembered ==
  \A id \in DOMAIN content :
    /\ content[id].active # NoMeta =>
         /\ content[id].active.ws = ws /\ content[id].active.tab = id
         /\ content[id].active.req < content[id].nextRequest
    /\ \A o \in OwnOps(id) :
         /\ op[o].meta.req < content[id].nextRequest
         /\ op[o].meta = content[id].active => o = content[id].job
         /\ ~op[o].loose => op[o].meta = content[id].active

Inv ==
  Typed /\ TabsNumbered /\ OpsNumbered /\ Remembered /\ EnvelopesAgree
    /\ NoDetachedWork

(***************************************************************************)
(* Numbers and sequences.                                                  *)
(***************************************************************************)
LEMMA Numbers ==
  /\ MaxOps \in Nat /\ MaxTabs \in Nat /\ MaxWorkspaces \in Nat
  /\ \A n \in OpIds : n \in 1..(MaxOps + 1) /\ n + 1 \in 1..(MaxOps + 1)
                      /\ n \in 0..MaxOps
  /\ 1 \in 1..(MaxOps + 1) /\ 0 \in 0..MaxOps /\ 1 \in 1..(MaxTabs + 1)
  BY ConstantsAssumption DEF OpIds

LEMMA Nothing ==
  /\ NoMeta \notin Metas /\ NoTab \notin TabIDs
  /\ NoOp \in Ops /\ NoOp.stage = "unused"
  /\ [NoOp EXCEPT !.stage = "done"] \in Ops
  /\ [NoOp EXCEPT !.stage = "done"].stage = "done"
  <1>1. NoMeta \notin Metas
    BY DEF NoMeta, Metas, Workspaces
  <1>2. NoTab \notin TabIDs
    BY DEF NoTab, TabIDs
  <1>3. NoOp \in Ops /\ NoOp.stage = "unused"
    BY DEF NoOp, Ops, Stages
  <1>4. QED
    BY <1>1, <1>2, <1>3 DEF Ops, Stages

LEMMA IsSeq ==
  ASSUME NEW S, NEW n \in Nat, NEW s \in [1..n -> S]
  PROVE  s \in Seq(S) /\ Len(s) = n /\ DOMAIN s = 1..n
  OBVIOUS

LEMMA TabsDomain ==
  ASSUME NEW s \in Seq(TabRecords)
  PROVE  /\ Len(s) \in Nat /\ DOMAIN s = 1..Len(s)
         /\ \A i \in 1..Len(s) : s[i] \in TabRecords
         /\ (s = <<>> <=> Len(s) = 0)
         /\ IdsOf(s) = {s[i].id : i \in 1..Len(s)}
  BY LenProperties, EmptySeq, ElementOfSeq DEF IdsOf

\* A tab that is removed takes nothing else with it.
LEMMA Removed ==
  ASSUME NEW s \in Seq(TabRecords), NEW i \in 1..Len(s)
  PROVE  /\ RemoveAt(s, i) \in Seq(TabRecords)
         /\ Len(RemoveAt(s, i)) = Len(s) - 1
         /\ \A k \in 1..(Len(s) - 1) :
              RemoveAt(s, i)[k] = IF k < i THEN s[k] ELSE s[k + 1]
  <1>1. Len(s) \in Nat /\ \A k \in 1..Len(s) : s[k] \in TabRecords
    BY TabsDomain
  <1> DEFINE a == SubSeq(s, 1, i - 1)
             b == SubSeq(s, i + 1, Len(s))
  <1>2. /\ a \in Seq(TabRecords) /\ Len(a) = i - 1
        /\ \A k \in 1..(i - 1) : a[k] = s[k]
    <2>1. \A k \in 1..(i - 1) : s[k] \in TabRecords
      BY <1>1
    <2>2. /\ a \in Seq(TabRecords) /\ Len(a) = IF 1 <= i - 1 THEN i - 1 - 1 + 1 ELSE 0
          /\ \A k \in 1..(i - 1 - 1 + 1) : a[k] = s[1 + k - 1]
      BY <2>1, SubSeqProperties
    <2>3. QED
      BY <1>1, <2>2
  <1>3. /\ b \in Seq(TabRecords) /\ Len(b) = Len(s) - i
        /\ \A k \in 1..(Len(s) - i) : b[k] = s[i + k]
    <2>1. \A k \in (i + 1)..Len(s) : s[k] \in TabRecords
      BY <1>1
    <2>2. /\ b \in Seq(TabRecords)
          /\ Len(b) = IF i + 1 <= Len(s) THEN Len(s) - (i + 1) + 1 ELSE 0
          /\ \A k \in 1..(Len(s) - (i + 1) + 1) : b[k] = s[i + 1 + k - 1]
      BY <1>1, <2>1, SubSeqProperties
    <2>3. Len(b) = Len(s) - i
      BY <1>1, <2>2
    <2>4. ASSUME NEW k \in 1..(Len(s) - i) PROVE b[k] = s[i + k]
      BY <1>1, <2>2
    <2>5. QED
      BY <2>2, <2>3, <2>4
  <1> HIDE DEF a, b
  <1>4. /\ a \o b \in Seq(TabRecords) /\ Len(a \o b) = Len(a) + Len(b)
        /\ \A k \in 1..(Len(a) + Len(b)) :
             (a \o b)[k] = IF k <= Len(a) THEN a[k] ELSE b[k - Len(a)]
    BY <1>2, <1>3, ConcatProperties
  <1>5. RemoveAt(s, i) = a \o b
    BY DEF RemoveAt, a, b
  <1>6. Len(a \o b) = Len(s) - 1
    BY <1>1, <1>2, <1>3, <1>4
  <1>7. ASSUME NEW k \in 1..(Len(s) - 1)
        PROVE  (a \o b)[k] = IF k < i THEN s[k] ELSE s[k + 1]
    <2>1. (a \o b)[k] = IF k <= i - 1 THEN a[k] ELSE b[k - (i - 1)]
      BY <1>1, <1>2, <1>3, <1>4
    <2>2. CASE k < i
      BY <1>1, <1>2, <2>1, <2>2
    <2>3. CASE ~(k < i)
      <3>1. PICK m \in 1..(Len(s) - i) : m = k - (i - 1)
        BY <1>1, <2>3
      <3>2. b[m] = s[i + m] /\ i + m = k + 1 /\ ~(k <= i - 1)
        BY <1>1, <1>3, <2>3, <3>1
      <3>3. (a \o b)[k] = b[m]
        BY <2>1, <3>1, <3>2
      <3>4. QED
        BY <2>3, <3>2, <3>3
    <2>4. QED
      BY <2>2, <2>3
  <1>8. QED
    BY <1>4, <1>5, <1>6, <1>7

\* The tabs that are left are the others, each under its own number.
LEMMA RemovedTabs ==
  ASSUME TabsTyped, NEW i \in DOMAIN tabs
  PROVE  /\ RemoveAt(tabs, i) \in Seq(TabRecords) /\ i \in 1..Len(tabs)
         /\ \A k \in 1..Len(RemoveAt(tabs, i)) :
              \E j \in 1..Len(tabs) : j # i /\ RemoveAt(tabs, i)[k] = tabs[j]
         /\ \A k, l \in 1..Len(RemoveAt(tabs, i)) :
              RemoveAt(tabs, i)[k].id = RemoveAt(tabs, i)[l].id => k = l
         /\ IdsOf(RemoveAt(tabs, i)) = IdsOf(tabs) \ {tabs[i].id}
  <1> DEFINE rest == RemoveAt(tabs, i)
  <1>1. /\ tabs \in Seq(TabRecords) /\ i \in 1..Len(tabs) /\ Len(tabs) \in Nat
        /\ \A k, l \in 1..Len(tabs) : tabs[k].id = tabs[l].id => k = l
    BY TabsDomain DEF TabsTyped
  <1>2. /\ rest \in Seq(TabRecords) /\ Len(rest) = Len(tabs) - 1
        /\ \A k \in 1..(Len(tabs) - 1) : rest[k] = IF k < i THEN tabs[k] ELSE tabs[k + 1]
    BY <1>1, Removed
  <1> HIDE DEF rest
  <1>3. \A k \in 1..Len(rest) :
          /\ (IF k < i THEN k ELSE k + 1) \in 1..Len(tabs)
          /\ (IF k < i THEN k ELSE k + 1) # i
          /\ rest[k] = tabs[IF k < i THEN k ELSE k + 1]
    BY <1>1, <1>2
  <1>4. ASSUME NEW k \in 1..Len(rest), NEW l \in 1..Len(rest), rest[k].id = rest[l].id
        PROVE  k = l
    <2>1. (IF k < i THEN k ELSE k + 1) = (IF l < i THEN l ELSE l + 1)
      BY <1>1, <1>3, <1>4
    <2>2. QED
      BY <1>1, <1>2, <2>1
  <1>5. \A j \in 1..Len(tabs) : j # i => \E k \in 1..Len(rest) : rest[k] = tabs[j]
    <2>1. ASSUME NEW j \in 1..Len(tabs), j # i
          PROVE  \E k \in 1..Len(rest) : rest[k] = tabs[j]
      <3>1. CASE j < i
        <4>1. j \in 1..Len(rest) /\ rest[j] = tabs[j]
          BY <1>1, <1>2, <2>1, <3>1
        <4>2. QED
          BY <4>1
      <3>2. CASE ~(j < i)
        <4>1. j - 1 \in 1..Len(rest) /\ rest[j - 1] = tabs[j]
          BY <1>1, <1>2, <2>1, <3>2
        <4>2. QED
          BY <4>1
      <3>3. QED
        BY <3>1, <3>2
    <2>2. QED
      BY <2>1
  <1>6. IdsOf(rest) = IdsOf(tabs) \ {tabs[i].id}
    <2>1. IdsOf(rest) = {rest[k].id : k \in 1..Len(rest)}
      BY <1>2, TabsDomain
    <2>2. IdsOf(tabs) = {tabs[k].id : k \in 1..Len(tabs)}
      BY <1>1, TabsDomain
    <2>3. ASSUME NEW x \in IdsOf(rest) PROVE x \in IdsOf(tabs) \ {tabs[i].id}
      <3>1. PICK k \in 1..Len(rest) : x = rest[k].id
        BY <2>1
      <3>2. PICK j \in 1..Len(tabs) : j # i /\ rest[k] = tabs[j]
        BY <1>3
      <3>3. QED
        BY <1>1, <2>2, <3>1, <3>2
    <2>4. ASSUME NEW x \in IdsOf(tabs) \ {tabs[i].id} PROVE x \in IdsOf(rest)
      <3>1. PICK j \in 1..Len(tabs) : x = tabs[j].id /\ j # i
        BY <2>2
      <3>2. PICK k \in 1..Len(rest) : rest[k] = tabs[j]
        BY <1>5, <3>1
      <3>3. QED
        BY <2>1, <3>1, <3>2
    <2>5. QED
      BY <2>3, <2>4
  <1>7. QED
    BY <1>1, <1>2, <1>3, <1>4, <1>6 DEF rest

\* The tabs after the shell has been told of a content.
LEMMA SyncedTabs ==
  ASSUME TabsTyped, NEW id, NEW c \in Contents
  PROVE  /\ Synced(tabs, id, c) \in Seq(TabRecords)
         /\ Len(Synced(tabs, id, c)) = Len(tabs)
         /\ DOMAIN Synced(tabs, id, c) = DOMAIN tabs /\ DOMAIN tabs = 1..Len(tabs)
         /\ IdsOf(Synced(tabs, id, c)) = IdsOf(tabs)
         /\ \A i \in 1..Len(tabs) :
              /\ Synced(tabs, id, c)[i].id = tabs[i].id
              /\ tabs[i].id # id => Synced(tabs, id, c)[i] = tabs[i]
              /\ tabs[i].id = id =>
                   /\ Synced(tabs, id, c)[i].dirty = c.dirty
                   /\ Synced(tabs, id, c)[i].request = c.active
                   /\ Synced(tabs, id, c)[i].running = (c.active # NoMeta)
  <1> DEFINE new == Synced(tabs, id, c)
  <1>1. /\ tabs \in Seq(TabRecords) /\ Len(tabs) \in Nat /\ DOMAIN tabs = 1..Len(tabs)
        /\ \A i \in 1..Len(tabs) : tabs[i] \in TabRecords
    BY TabsDomain DEF TabsTyped
  <1>2. DOMAIN new = 1..Len(tabs)
    BY <1>1 DEF Synced
  <1>3. ASSUME NEW i \in 1..Len(tabs)
        PROVE  /\ new[i] \in TabRecords /\ new[i].id = tabs[i].id
               /\ tabs[i].id # id => new[i] = tabs[i]
               /\ tabs[i].id = id =>
                    /\ new[i].dirty = c.dirty /\ new[i].request = c.active
                    /\ new[i].running = (c.active # NoMeta)
    <2>1. CASE tabs[i].id # id
      BY <1>1, <2>1 DEF Synced
    <2>2. CASE tabs[i].id = id
      <3>1. new[i] = [tabs[i] EXCEPT !.dirty = c.dirty, !.running = c.active # NoMeta,
                                     !.request = c.active]
        BY <1>1, <2>2 DEF Synced
      <3>2. QED
        BY <1>1, <2>2, <3>1 DEF TabRecords, Contents
    <2>3. QED
      BY <2>1, <2>2
  <1>4. new \in [1..Len(tabs) -> TabRecords]
    <2>1. new = [i \in 1..Len(tabs) |-> new[i]]
      BY <1>1 DEF Synced
    <2> HIDE DEF new
    <2>2. QED
      BY <1>3, <2>1
  <1> HIDE DEF new
  <1>5. new \in Seq(TabRecords) /\ Len(new) = Len(tabs)
    BY <1>1, <1>4, IsSeq
  <1>6. IdsOf(new) = IdsOf(tabs)
    BY <1>1, <1>2, <1>3 DEF IdsOf
  <1>7. QED
    BY <1>1, <1>2, <1>3, <1>5, <1>6 DEF new

(***************************************************************************)
(* Tabs are opened, selected and closed.                                   *)
(***************************************************************************)

\* What concerns operations, when no operation changes and no content but some go.
LEMMA OpsKept ==
  ASSUME Inv, UNCHANGED <<ws, shown, op, nextOp, registry>>, cancels' \subseteq Names,
         DOMAIN content' \subseteq DOMAIN content,
         \A id \in DOMAIN content' : content'[id] = content[id],
         nextTab' \in Nat, nextTab \in Nat, nextTab' >= nextTab,
         \A id \in TabIDs : <<ws, id>> \in opens' => <<ws, id>> \in opens \/ id[2] >= nextTab
  PROVE  ContentTyped' /\ OpsTyped' /\ OpsNumbered' /\ Remembered'
  <1>1. ContentTyped'
    BY DEF Inv, Typed, ContentTyped
  <1>2. OpsTyped'
    BY DEF Inv, Typed, OpsTyped
  <1>3. OpsNumbered'
    <2>1. \A id \in DOMAIN content' : content'[id].nextRequest <= nextOp
      BY DEF Inv, OpsNumbered
    <2>2. ASSUME NEW o \in OpIds
          PROVE  /\ o >= nextOp => op[o].stage = "unused"
                 /\ Live(o) =>
                      /\ op[o].meta \in Metas /\ op[o].meta.ws <= ws
                      /\ Shell /\ op[o].meta.ws = ws =>
                           /\ op[o].meta.tab[2] < nextTab'
                           /\ <<ws, op[o].meta.tab>> \notin opens'
      <3>1. ASSUME Live(o)
            PROVE  /\ op[o].meta \in Metas /\ op[o].meta.tab \in TabIDs
                   /\ op[o].meta.tab[2] \in Nat
        <4>1. op[o].meta \in Metas
          BY <3>1 DEF Inv, OpsNumbered
        <4>2. op[o].meta.tab \in TabIDs
          BY <4>1 DEF Metas
        <4>3. QED
          BY <4>1, <4>2, Numbers DEF TabIDs
      <3>2. QED
        BY <3>1 DEF Inv, OpsNumbered
    <2>3. QED
      BY <2>1, <2>2 DEF OpsNumbered, Live, Shell
  <1>4. Remembered'
    <2>1. \A id : OwnOps(id)' = OwnOps(id)
      BY DEF OwnOps, Live
    <2>2. QED
      BY <2>1 DEF Inv, Remembered
  <1>5. QED
    BY <1>1, <1>2, <1>3, <1>4

\* reconcileContentModels keeps the contents of open tabs.
LEMMA ReconciledKeeps ==
  ASSUME NEW tabsNow
  PROVE  /\ DOMAIN Reconciled(tabsNow) = DOMAIN content \cap IdsOf(tabsNow)
         /\ \A id \in DOMAIN content \cap IdsOf(tabsNow) :
              Reconciled(tabsNow)[id] = content[id]
  BY DEF Reconciled

\* The fields of a tab and the tab itself.
LEMMA OpenTabs ==
  ASSUME Inv
  PROVE  /\ tabs \in Seq(TabRecords) /\ DOMAIN tabs = 1..Len(tabs) /\ Len(tabs) \in Nat
         /\ \A i \in 1..Len(tabs) : tabs[i] \in TabRecords /\ tabs[i].id \in TabIDs
                                   /\ tabs[i].id \in IdsOf(tabs)
         /\ IdsOf(tabs) = {tabs[i].id : i \in 1..Len(tabs)}
         /\ nextTab \in Nat /\ nextTab \in 1..(MaxTabs + 1)
  <1>1. /\ tabs \in Seq(TabRecords) /\ DOMAIN tabs = 1..Len(tabs) /\ Len(tabs) \in Nat
        /\ \A i \in 1..Len(tabs) : tabs[i] \in TabRecords
        /\ IdsOf(tabs) = {tabs[i].id : i \in 1..Len(tabs)}
    BY TabsDomain DEF Inv, Typed, TabsTyped
  <1>2. \A i \in 1..Len(tabs) : tabs[i].id \in TabIDs /\ tabs[i].id \in IdsOf(tabs)
    BY <1>1 DEF TabRecords
  <1>3. nextTab \in Nat /\ nextTab \in 1..(MaxTabs + 1)
    BY Numbers DEF Inv, Typed, RootTyped
  <1>4. QED
    BY <1>1, <1>2, <1>3

\* The envelope of a tab (EnvelopesAgree, one tab at a time).
Agrees(tab) ==
  \/ /\ tab.id \in DOMAIN content
     /\ tab.dirty = content[tab.id].dirty
     /\ tab.request = content[tab.id].active
     /\ tab.running = (content[tab.id].active # NoMeta)
  \/ /\ tab.id \notin DOMAIN content
     /\ <<ws, tab.id>> \in opens

LEMMA AllAgree == EnvelopesAgree <=> (Shell => \A i \in DOMAIN tabs : Agrees(tabs[i]))
  BY DEF EnvelopesAgree, Agrees

\* The tabs stay, another may be shown, a question may be asked or answered.
LEMMA SameTabsInv ==
  ASSUME Inv, Shell, content' = Reconciled(tabs),
         UNCHANGED <<ws, tabs, nextTab, opens, shown, closing, op, nextOp, registry,
                     cancels>>,
         activeTab' = activeTab \/ activeTab' \in IdsOf(tabs),
         modal'.kind \in {"none", "close", "disconnect"},
         modal'.kind = "close" => modal'.tab \in IdsOf(tabs),
         leaving' \in BOOLEAN
  PROVE  Inv'
  <1>1. /\ DOMAIN content' = DOMAIN content \cap IdsOf(tabs)
        /\ \A id \in DOMAIN content' : content'[id] = content[id]
    BY ReconciledKeeps
  <1>2. ContentTyped' /\ OpsTyped' /\ OpsNumbered' /\ Remembered'
    <2>1. nextTab' \in Nat /\ nextTab' >= nextTab /\ cancels' \subseteq Names
      BY OpenTabs DEF Inv, Typed, OpsTyped
    <2>2. QED
      BY <1>1, <2>1, OpenTabs, OpsKept
  <1>3. TabsTyped' /\ ModalTyped' /\ RootTyped'
    <2>1. TabsTyped'
      <3>1. activeTab' \in IdsOf(tabs) => tabs # <<>>
        BY OpenTabs, TabsDomain
      <3>2. QED
        BY <3>1 DEF Inv, Typed, TabsTyped
    <2>2. QED
      BY <2>1 DEF Inv, Typed, ModalTyped, RootTyped
  <1>4. TabsNumbered'
    BY <1>1 DEF Inv, TabsNumbered, Shell
  <1>5. EnvelopesAgree'
    <2>1. \A i \in DOMAIN tabs : Agrees(tabs[i])
      BY AllAgree DEF Inv
    <2>2. \A i \in DOMAIN tabs : Agrees(tabs[i])'
      BY <1>1, <2>1, OpenTabs DEF Agrees
    <2>3. QED
      BY <2>2 DEF EnvelopesAgree, Agrees, Shell
  <1>6. NoDetachedWork'
    BY DEF Inv, NoDetachedWork, TabIsOpen, Shell
  <1>7. QED
    BY <1>2, <1>3, <1>4, <1>5, <1>6 DEF Inv, Typed

LEMMA ShellInv ==
  ASSUME Inv
  PROVE  /\ \A i \in DOMAIN tabs : (SelectTab(i) \/ AskClose(i)) => Inv'
         /\ (RequestLeave \/ KeepOpen \/ ConfirmLeave) => Inv'
         /\ \A i \in DOMAIN tabs : Ready /\ ShowTab(i) => Inv'
  <1>1. \A i \in DOMAIN tabs : tabs[i].id \in IdsOf(tabs)
    BY OpenTabs
  <1>2. leaving \in BOOLEAN /\ modal.kind \in {"none", "close", "disconnect"}
        /\ (modal.kind = "close" => modal.tab \in IdsOf(tabs))
    BY DEF Inv, Typed, RootTyped, ModalTyped
  <1> USE DEF Ready, leaveVars, opVars
  <1>3. ASSUME NEW i \in DOMAIN tabs, Ready, ShowTab(i) PROVE Inv'
    BY <1>1, <1>2, <1>3, SameTabsInv DEF ShowTab
  <1>4. ASSUME NEW i \in DOMAIN tabs, AskClose(i) PROVE Inv'
    BY <1>1, <1>2, <1>4, SameTabsInv DEF AskClose
  <1>5. ASSUME RequestLeave PROVE Inv'
    <2>1. /\ leaving' \in BOOLEAN /\ modal'.kind \in {"none", "close", "disconnect"}
          /\ (modal'.kind = "close" => modal'.tab \in IdsOf(tabs))
      <3>1. CASE leaving' = TRUE /\ UNCHANGED modal
        BY <1>2, <3>1
      <3>2. CASE modal' = [kind |-> "disconnect", tab |-> NoTab] /\ UNCHANGED leaving
        BY <1>2, <3>2
      <3>3. QED
        BY <1>5, <3>1, <3>2 DEF RequestLeave
    <2>2. QED
      BY <1>5, <2>1, SameTabsInv DEF RequestLeave
  <1>6. ASSUME KeepOpen PROVE Inv'
    BY <1>2, <1>6, SameTabsInv DEF KeepOpen, NoModal
  <1>7. ASSUME ConfirmLeave PROVE Inv'
    BY <1>2, <1>7, SameTabsInv DEF ConfirmLeave, NoModal
  <1>8. QED
    BY <1>3, <1>4, <1>5, <1>6, <1>7 DEF SelectTab

\* A new tab has a number that no other has had, and is about to get a content.
LEMMA OpenTabInv ==
  ASSUME Inv, Ready, NEW id \in TabIDs, id[2] = nextTab,
         NEW relation \in Relations \cup {SQL}, OpenTab(id, relation)
  PROVE  Inv'
  <1>1. /\ UNCHANGED <<ws, modal, shown, leaving, closing, op, nextOp, registry, cancels>>
        /\ nextTab' = nextTab + 1 /\ nextTab <= MaxTabs
        /\ tabs' = Append(tabs, TabOf(id, relation)) /\ activeTab' = id
        /\ opens' = opens \cup {<<ws, id>>} /\ content' = Reconciled(tabs)
    BY DEF OpenTab, leaveVars, opVars
  <1>2. /\ DOMAIN content' = DOMAIN content \cap IdsOf(tabs)
        /\ \A k \in DOMAIN content' : content'[k] = content[k]
    BY <1>1, ReconciledKeeps
  <1>3. Shell /\ Shell' /\ ws \in Workspaces
    BY <1>1 DEF Ready, Shell, Inv, TabsNumbered
  <1>4. /\ nextTab' \in 1..(MaxTabs + 1) /\ nextTab' \in Nat /\ nextTab' > nextTab
    BY <1>1, OpenTabs, Numbers
  <1>5. /\ \A k \in DOMAIN content : k # id
        /\ \A i \in 1..Len(tabs) : tabs[i].id # id
    BY OpenTabs DEF Inv, TabsNumbered, Typed, ContentTyped, TabIDs
  <1>6. TabOf(id, relation) \in TabRecords /\ TabOf(id, relation).id = id
    BY DEF TabOf, TabRecords
  <1>7. /\ tabs' \in Seq(TabRecords) /\ Len(tabs') = Len(tabs) + 1
        /\ \A i \in 1..Len(tabs) : tabs'[i] = tabs[i]
        /\ tabs'[Len(tabs) + 1] = TabOf(id, relation)
        /\ DOMAIN tabs' = 1..(Len(tabs) + 1) /\ tabs' # <<>>
    BY <1>1, <1>6, OpenTabs, AppendProperties, TabsDomain
  <1>8. \A i \in 1..(Len(tabs) + 1) : i \in 1..Len(tabs) \/ i = Len(tabs) + 1
    BY OpenTabs
  <1>9. IdsOf(tabs') = IdsOf(tabs) \cup {id}
    <2>1. IdsOf(tabs') = {tabs'[i].id : i \in 1..(Len(tabs) + 1)}
      BY <1>7 DEF IdsOf
    <2>2. ASSUME NEW x \in IdsOf(tabs) \cup {id} PROVE x \in IdsOf(tabs')
      <3>1. CASE x = id
        <4>1. Len(tabs) + 1 \in 1..(Len(tabs) + 1)
          BY OpenTabs
        <4>2. QED
          BY <1>6, <1>7, <2>1, <3>1, <4>1
      <3>2. CASE x # id
        <4>1. PICK i \in 1..Len(tabs) : x = tabs[i].id
          BY <2>2, <3>2, OpenTabs
        <4>2. i \in 1..(Len(tabs) + 1)
          BY OpenTabs
        <4>3. QED
          BY <1>7, <2>1, <4>1, <4>2
      <3>3. QED
        BY <3>1, <3>2
    <2>3. QED
      BY <1>6, <1>7, <1>8, <2>1, <2>2, OpenTabs
  <1>10. ContentTyped' /\ OpsTyped' /\ OpsNumbered' /\ Remembered'
    <2>1. \A k \in TabIDs : <<ws, k>> \in opens' => <<ws, k>> \in opens \/ k[2] >= nextTab
      BY <1>1, OpenTabs
    <2>2. cancels' \subseteq Names
      BY <1>1 DEF Inv, Typed, OpsTyped
    <2>3. QED
      BY <1>1, <1>2, <1>4, <2>1, <2>2, OpenTabs, OpsKept
  <1>11. TabsTyped'
    <2>1. \A i, j \in 1..(Len(tabs) + 1) : tabs'[i].id = tabs'[j].id => i = j
      BY <1>5, <1>6, <1>7, <1>8 DEF Inv, Typed, TabsTyped
    <2>2. QED
      BY <1>1, <1>7, <1>9, <2>1 DEF TabsTyped
  <1>12. ModalTyped' /\ RootTyped'
    BY <1>1, <1>3, <1>4, <1>9 DEF Inv, Typed, ModalTyped, RootTyped
  <1>13. TabsNumbered'
    <2>1. \A i \in 1..(Len(tabs) + 1) : tabs'[i].id[2] < nextTab'
      <3>1. \A i \in 1..Len(tabs) : tabs[i].id[2] < nextTab /\ tabs[i].id[2] \in Nat
        BY OpenTabs DEF Inv, TabsNumbered, TabIDs
      <3>2. QED
        BY <1>4, <1>6, <1>7, <1>8, <3>1, OpenTabs
    <2>2. \A k \in DOMAIN content' : k[2] < nextTab'
      BY <1>2, <1>4, OpenTabs DEF Inv, TabsNumbered, Typed, ContentTyped, TabIDs
    <2>3. ASSUME NEW open \in opens'
          PROVE  /\ open[1] <= ws
                 /\ open[1] = ws => open[2][2] < nextTab' /\ open[2] \notin DOMAIN content'
      <3>1. CASE open \in opens
        <4>1. open[1] <= ws /\ open[2][2] \in Nat
              /\ (open[1] = ws => open[2][2] < nextTab /\ open[2] \notin DOMAIN content)
          BY <1>3, <3>1 DEF Inv, TabsNumbered, Typed, RootTyped, TabIDs
        <4>2. QED
          BY <1>2, <1>4, <4>1, OpenTabs
      <3>2. CASE open = <<ws, id>>
        BY <1>2, <1>3, <1>4, <1>5, <3>2 DEF Workspaces
      <3>3. QED
        BY <1>1, <2>3, <3>1, <3>2
    <2>4. QED
      BY <1>1, <1>3, <1>7, <2>1, <2>2, <2>3 DEF TabsNumbered
  <1>14. EnvelopesAgree'
    <2>1. \A i \in 1..Len(tabs) : Agrees(tabs[i])
      BY <1>3, AllAgree, OpenTabs DEF Inv
    <2>2. \A i \in 1..Len(tabs) : Agrees(tabs[i])'
      BY <1>1, <1>2, <2>1, OpenTabs DEF Agrees
    <2>3. Agrees(TabOf(id, relation))'
      BY <1>1, <1>2, <1>5, <1>6 DEF Agrees
    <2>4. \A i \in DOMAIN tabs' : LET tab == tabs'[i] IN
            \/ /\ tab.id \in DOMAIN content'
               /\ tab.dirty = content'[tab.id].dirty
               /\ tab.request = content'[tab.id].active
               /\ tab.running = (content'[tab.id].active # NoMeta)
            \/ /\ tab.id \notin DOMAIN content'
               /\ <<ws', tab.id>> \in opens'
      BY <1>7, <1>8, <2>2, <2>3 DEF Agrees
    <2>5. QED
      BY <2>4 DEF EnvelopesAgree
  <1>15. NoDetachedWork'
    BY <1>1, <1>3, <1>9 DEF Inv, NoDetachedWork, TabIsOpen
  <1>16. QED
    BY <1>10, <1>11, <1>12, <1>13, <1>14, <1>15 DEF Inv, Typed

\* A tab is closed, and a cancellation is on its way to what it awaits.
LEMMA ClosedInv ==
  ASSUME Inv, Shell, NEW i \in DOMAIN tabs, CloseTabAt(i),
         UNCHANGED <<ws, nextTab, opens, shown, leaving, closing, op, nextOp, registry>>,
         modal'.kind = "none", cancels' \subseteq Names, cancels \subseteq cancels',
         \A o \in registry : op[o].meta.ws = ws /\ op[o].meta.tab = tabs[i].id
                             /\ ~op[o].loose => Name(op[o].meta) \in cancels'
  PROVE  Inv'
  <1> DEFINE rest == RemoveAt(tabs, i)
  <1>1. /\ rest \in Seq(TabRecords)
        /\ \A k \in 1..Len(rest) : \E j \in 1..Len(tabs) : rest[k] = tabs[j]
        /\ \A k, l \in 1..Len(rest) : rest[k].id = rest[l].id => k = l
        /\ IdsOf(rest) = IdsOf(tabs) \ {tabs[i].id}
    BY RemovedTabs DEF Inv, Typed
  <1>2. /\ tabs' = rest /\ content' = Reconciled(rest) /\ activeTab' = NextActive(i)
    BY DEF CloseTabAt
  <1>3. activeTab' = IF rest = <<>> THEN NoTab
                     ELSE rest[IF i > Len(rest) THEN Len(rest) ELSE i].id
    BY <1>2 DEF NextActive
  <1> HIDE DEF rest
  <1>4. /\ Len(rest) \in Nat /\ DOMAIN rest = 1..Len(rest)
        /\ (rest = <<>> <=> Len(rest) = 0)
        /\ IdsOf(rest) = {rest[k].id : k \in 1..Len(rest)}
    BY <1>1, TabsDomain
  <1>5. /\ DOMAIN content' = DOMAIN content \cap IdsOf(rest)
        /\ \A id \in DOMAIN content' : content'[id] = content[id]
    BY <1>2, ReconciledKeeps
  <1>6. i \in 1..Len(tabs)
    BY OpenTabs
  <1>7. TabsTyped'
    <2>1. rest # <<>> => activeTab' \in IdsOf(rest)
      <3>1. rest # <<>> => (IF i > Len(rest) THEN Len(rest) ELSE i) \in 1..Len(rest)
        BY <1>4, <1>6, OpenTabs
      <3>2. QED
        BY <1>3, <1>4, <3>1
    <2>2. QED
      BY <1>1, <1>2, <1>3, <2>1 DEF TabsTyped
  <1>8. ContentTyped' /\ OpsTyped' /\ OpsNumbered' /\ Remembered'
    <2>1. nextTab' \in Nat /\ nextTab' >= nextTab
      BY OpenTabs
    <2>2. QED
      BY <1>5, <2>1, OpenTabs, OpsKept
  <1>9. ModalTyped' /\ RootTyped'
    BY DEF Inv, Typed, ModalTyped, RootTyped
  <1>10. TabsNumbered'
    <2>1. \A k \in 1..Len(rest) : rest[k].id[2] < nextTab
      BY <1>1 DEF Inv, TabsNumbered
    <2>2. QED
      BY <1>2, <1>5, <2>1 DEF Inv, TabsNumbered, Shell
  <1>11. EnvelopesAgree'
    <2>1. ASSUME NEW k \in 1..Len(rest)
          PROVE  \/ /\ rest[k].id \in DOMAIN content'
                    /\ rest[k].dirty = content'[rest[k].id].dirty
                    /\ rest[k].request = content'[rest[k].id].active
                    /\ rest[k].running = (content'[rest[k].id].active # NoMeta)
                 \/ /\ rest[k].id \notin DOMAIN content'
                    /\ <<ws, rest[k].id>> \in opens
      <3>1. PICK j \in 1..Len(tabs) : rest[k] = tabs[j]
        BY <1>1
      <3>2. Agrees(tabs[j])
        BY AllAgree, OpenTabs DEF Inv
      <3>3. rest[k].id \in IdsOf(rest)
        BY <1>4
      <3>4. QED
        BY <1>5, <3>1, <3>2, <3>3 DEF Agrees
    <2>2. QED
      BY <1>2, <1>4, <2>1 DEF EnvelopesAgree
  <1>12. NoDetachedWork'
    <2>1. ASSUME NEW o \in registry
          PROVE  \/ op[o].loose
                 \/ Shell /\ op[o].meta.ws = ws /\ op[o].meta.tab \in IdsOf(rest)
                 \/ Name(op[o].meta) \in cancels' \/ closing
      BY <1>1 DEF Inv, NoDetachedWork, TabIsOpen
    <2>2. QED
      BY <1>2, <2>1 DEF NoDetachedWork, TabIsOpen, Shell, Name
  <1>13. QED
    BY <1>7, <1>8, <1>9, <1>10, <1>11, <1>12 DEF Inv, Typed

\* Work that its tab knows of is what the envelope of the tab says.
LEMMA OwnWork ==
  ASSUME Inv, Shell, NEW i \in DOMAIN tabs, NEW o \in registry,
         op[o].meta.ws = ws, op[o].meta.tab = tabs[i].id, ~op[o].loose
  PROVE  /\ tabs[i].running /\ op[o].meta = tabs[i].request
         /\ op[o].meta \in Metas
  <1>1. o \in OpIds /\ Live(o)
    BY DEF Inv, Typed, OpsTyped, Live
  <1>2. op[o].meta \in Metas /\ <<ws, op[o].meta.tab>> \notin opens
    BY <1>1 DEF Inv, OpsNumbered
  <1>3. Agrees(tabs[i])
    BY AllAgree DEF Inv
  <1>4. /\ tabs[i].id \in DOMAIN content
        /\ tabs[i].request = content[tabs[i].id].active
        /\ tabs[i].running = (content[tabs[i].id].active # NoMeta)
    BY <1>2, <1>3 DEF Agrees
  <1>5. op[o].meta = content[tabs[i].id].active
    BY <1>1, <1>4 DEF Inv, Remembered, OwnOps
  <1>6. QED
    BY <1>2, <1>4, <1>5, Nothing

LEMMA CloseTabInv ==
  ASSUME Inv, NEW i \in DOMAIN tabs, CloseTab(i)
  PROVE  Inv'
  <1>1. /\ Shell /\ ~Hazardous(tabs[i]) /\ CloseTabAt(i) /\ modal'.kind = "none"
        /\ UNCHANGED <<ws, nextTab, opens, shown, leaving, closing, op, nextOp, registry,
                       cancels>>
    BY DEF CloseTab, Ready, leaveVars, opVars
  <1>2. cancels' \subseteq Names /\ cancels \subseteq cancels'
    BY <1>1 DEF Inv, Typed, OpsTyped
  <1>3. \A o \in registry : op[o].meta.ws = ws /\ op[o].meta.tab = tabs[i].id => op[o].loose
    BY <1>1, OwnWork, OpenTabs DEF Hazardous, TabRecords, Inv, Typed, OpsTyped, Ops
  <1>4. QED
    BY <1>1, <1>2, <1>3, ClosedInv

LEMMA DiscardTabInv ==
  ASSUME Inv, NEW i \in DOMAIN tabs, DiscardTab(i)
  PROVE  Inv'
  <1>1. /\ Shell /\ CloseTabAt(i) /\ modal'.kind = "none" /\ cancels = {}
        /\ cancels' = {Name(tabs[i].request)} \ {Name(NoMeta)}
        /\ UNCHANGED <<ws, nextTab, opens, shown, leaving, closing, op, nextOp, registry>>
    BY DEF DiscardTab, leaveVars, NoModal, RequestOf
  <1>2. cancels \subseteq cancels' /\ \A meta \in Metas : Name(meta) \in Names
    BY <1>1 DEF Name, Names, Metas
  <1>3. cancels' \subseteq Names
    BY <1>1, <1>2, OpenTabs DEF TabRecords
  <1>4. \A meta \in Metas : Name(meta) # Name(NoMeta)
    BY Nothing DEF Name, Metas, NoMeta
  <1>5. ASSUME NEW o \in registry, op[o].meta.ws = ws, op[o].meta.tab = tabs[i].id,
               ~op[o].loose
        PROVE  Name(op[o].meta) \in cancels'
    <2>1. op[o].meta = tabs[i].request /\ op[o].meta \in Metas
      BY <1>1, <1>5, OwnWork
    <2>2. QED
      BY <1>1, <1>4, <2>1
  <1>6. QED
    BY <1>1, <1>2, <1>3, <1>5, ClosedInv

(***************************************************************************)
(* A content changes, and the shell is told.                               *)
(***************************************************************************)
\* The contents when the one of tab id is c.
With(id, c) == [k \in DOMAIN content \cup {id} |-> IF k = id THEN c ELSE content[k]]

LEMMA WithExcept ==
  ASSUME NEW id \in DOMAIN content, NEW c, content = [k \in DOMAIN content |-> content[k]]
  PROVE  [content EXCEPT ![id] = c] = With(id, c)
  BY DEF With

LEMMA ContentChanged ==
  ASSUME Inv, Shell, NEW id \in TabIDs, NEW c \in Contents, content' = With(id, c),
         tabs' = Synced(tabs, id, c), id[2] < nextTab, opens' = opens \ {<<ws, id>>},
         UNCHANGED <<ws, activeTab, modal, nextTab, shown, leaving, closing>>
  PROVE  /\ TabsTyped' /\ ModalTyped' /\ ContentTyped' /\ RootTyped'
         /\ TabsNumbered' /\ EnvelopesAgree'
         /\ IdsOf(tabs') = IdsOf(tabs)
  <1>1. /\ tabs' \in Seq(TabRecords) /\ Len(tabs') = Len(tabs)
        /\ DOMAIN tabs' = 1..Len(tabs) /\ DOMAIN tabs = 1..Len(tabs)
        /\ IdsOf(tabs') = IdsOf(tabs)
        /\ \A i \in 1..Len(tabs) :
              /\ tabs'[i].id = tabs[i].id
              /\ tabs[i].id # id => tabs'[i] = tabs[i]
              /\ tabs[i].id = id =>
                   /\ tabs'[i].dirty = c.dirty
                   /\ tabs'[i].request = c.active
                   /\ tabs'[i].running = (c.active # NoMeta)
    BY SyncedTabs DEF Inv, Typed
  <1>2. /\ DOMAIN content' = DOMAIN content \cup {id} /\ content'[id] = c
        /\ \A k \in DOMAIN content : k # id => content'[k] = content[k]
    BY DEF With
  <1>3. TabsTyped'
    <2>1. tabs = <<>> <=> tabs' = <<>>
      BY <1>1, TabsDomain, OpenTabs
    <2>2. QED
      BY <1>1, <2>1 DEF Inv, Typed, TabsTyped
  <1>4. ModalTyped' /\ RootTyped' /\ ContentTyped'
    BY <1>1, <1>2 DEF Inv, Typed, ModalTyped, RootTyped, ContentTyped
  <1>5. TabsNumbered'
    <2>1. \A open \in opens' : open[1] = ws => open[2] # id
      BY DEF Inv, Typed, RootTyped
    <2>2. QED
      BY <1>1, <1>2, <2>1 DEF Inv, TabsNumbered, Shell
  <1>6. EnvelopesAgree'
    <2>1. ASSUME NEW i \in 1..Len(tabs)
          PROVE  \/ /\ tabs'[i].id \in DOMAIN content'
                    /\ tabs'[i].dirty = content'[tabs'[i].id].dirty
                    /\ tabs'[i].request = content'[tabs'[i].id].active
                    /\ tabs'[i].running = (content'[tabs'[i].id].active # NoMeta)
                 \/ /\ tabs'[i].id \notin DOMAIN content'
                    /\ <<ws, tabs'[i].id>> \in opens'
      <3>1. CASE tabs[i].id = id
        BY <1>1, <1>2, <3>1
      <3>2. CASE tabs[i].id # id
        <4>1. Agrees(tabs[i])
          BY <1>1, AllAgree DEF Inv
        <4>2. QED
          BY <1>1, <1>2, <3>2, <4>1 DEF Agrees
      <3>3. QED
        BY <3>1, <3>2
    <2>2. QED
      BY <1>1, <2>1 DEF EnvelopesAgree
  <1>7. QED
    BY <1>1, <1>3, <1>4, <1>5, <1>6

\* What has been left of an operation by a reply: the operation, or its end.
LeftBy(old, new) == new = old \/ (old.stage = "reply" /\ new.stage = "done")

\* A content asks for an operation of its own: it gets a number it did not have,
\* and what is under way of the same tab is not remembered any more.
LEMMA StartedInv ==
  ASSUME Inv, Shell, NEW id \in TabIDs, NEW c \in Contents, NEW ops \in [OpIds -> Ops],
         content' = With(id, Started(id, c)), tabs' = Synced(tabs, id, Started(id, c)),
         Begin(Started(id, c).active, ops),
         \A o \in OpIds : LeftBy(op[o], ops[o]),
         id[2] < nextTab, opens' = opens \ {<<ws, id>>},
         IF id \in DOMAIN content THEN c.nextRequest = content[id].nextRequest
         ELSE c.nextRequest = 1 /\ OwnOps(id) = {},
         UNCHANGED <<ws, activeTab, modal, nextTab, shown, leaving, closing, registry,
                     cancels>>
  PROVE  Inv'
  <1> DEFINE meta == [ws |-> ws, tab |-> id, req |-> c.nextRequest]
             new == Started(id, c)
  <1>1. /\ nextOp \in OpIds /\ nextOp' = nextOp + 1
        /\ op' = [o \in OpIds |->
                    IF o = nextOp
                    THEN [NoOp EXCEPT !.meta = meta, !.stage = "intent"]
                    ELSE [ops[o] EXCEPT !.loose = @ \/ Overtaken(ops[o], meta)]]
    BY DEF Begin, Started, Contents
  <1>2. nextOp \in Nat /\ nextOp + 1 \in 1..(MaxOps + 1) /\ nextOp \in 0..MaxOps
    BY <1>1, Numbers DEF OpIds
  <1>3. c.nextRequest \in Nat /\ 1 <= c.nextRequest /\ c.nextRequest <= nextOp
    <2>1. CASE id \in DOMAIN content
      BY <1>2, <2>1, Numbers DEF Inv, OpsNumbered, Contents
    <2>2. CASE id \notin DOMAIN content
      BY <1>1, <2>2 DEF OpIds
    <2>3. QED
      BY <2>1, <2>2
  <1>4. ws \in Workspaces /\ meta \in Metas
    BY <1>1, <1>2, <1>3, Numbers DEF Inv, TabsNumbered, Metas, OpIds
  <1>5. /\ new \in Contents /\ new.active = meta
        /\ new.nextRequest = c.nextRequest + 1 /\ new.job = nextOp
    <2>1. c.nextRequest + 1 \in 1..(MaxOps + 1)
      BY <1>1, <1>2, <1>3, Numbers DEF OpIds
    <2>2. new = [c EXCEPT !.active = meta, !.nextRequest = c.nextRequest + 1, !.job = nextOp]
      BY DEF Started
    <2> HIDE DEF meta, new
    <2>3. QED
      BY <1>2, <1>4, <2>1, <2>2 DEF Contents
  <1>6. /\ DOMAIN content' = DOMAIN content \cup {id} /\ content'[id] = new
        /\ \A k \in DOMAIN content : k # id => content'[k] = content[k]
    BY DEF With
  <1> HIDE DEF new
  <1>7. /\ TabsTyped' /\ ModalTyped' /\ ContentTyped' /\ RootTyped'
        /\ TabsNumbered' /\ EnvelopesAgree' /\ IdsOf(tabs') = IdsOf(tabs)
    BY <1>5, ContentChanged DEF new
  <1>8. /\ op'[nextOp] \in Ops /\ op'[nextOp].meta = meta
        /\ op'[nextOp].stage = "intent" /\ ~op'[nextOp].loose
    BY <1>1, <1>4 DEF NoOp, Ops, Stages
  <1>9. ASSUME NEW o \in OpIds, o # nextOp
        PROVE  /\ op'[o] \in Ops /\ op'[o].stage = ops[o].stage
               /\ op'[o].meta = ops[o].meta
               /\ op'[o].loose = (ops[o].loose \/ Overtaken(ops[o], meta))
    BY <1>1, <1>9 DEF Ops
  <1>10. \A o \in OpIds : op[o].stage # "reply" => ops[o] = op[o]
    BY DEF LeftBy
  <1>11. op[nextOp].stage = "unused"
    <2>1. nextOp >= nextOp
      BY <1>2
    <2>2. QED
      BY <1>1, <2>1 DEF Inv, OpsNumbered
  <1>12. \A o \in registry : o \in OpIds /\ o # nextOp /\ ops[o] = op[o]
                             /\ op[o].stage = "running"
    BY <1>10, <1>11 DEF Inv, Typed, OpsTyped
  <1>13. ASSUME NEW o \in OpIds, op'[o].stage \in {"intent", "running", "reply"},
                o # nextOp
         PROVE  Live(o) /\ ops[o] = op[o]
    BY <1>9, <1>13 DEF LeftBy, Live
  <1>14. OpsTyped'
    <2>1. op' \in [OpIds -> Ops]
      BY <1>1, <1>8, <1>9
    <2>2. registry \subseteq {o \in OpIds : op'[o].stage = "running"}
      BY <1>9, <1>12
    <2>3. QED
      BY <1>1, <1>2, <2>1, <2>2 DEF Inv, Typed, OpsTyped
  <1>15. OpsNumbered'
    <2>1. ASSUME NEW k \in DOMAIN content' PROVE content'[k].nextRequest <= nextOp'
      <3>1. CASE k = id
        BY <1>1, <1>2, <1>3, <1>5, <1>6, <3>1
      <3>2. CASE k # id
        <4>1. content'[k] = content[k] /\ content[k].nextRequest \in Nat
              /\ content[k].nextRequest <= nextOp
          BY <1>6, <3>2, Numbers DEF Inv, OpsNumbered, Typed, ContentTyped, Contents
        <4>2. QED
          BY <1>1, <1>2, <4>1
      <3>3. QED
        BY <3>1, <3>2
    <2>2. ASSUME NEW o \in OpIds, o >= nextOp' PROVE op'[o].stage = "unused"
      <3>1. o >= nextOp /\ o # nextOp
        BY <1>1, <1>2, <2>2 DEF OpIds
      <3>2. op[o].stage = "unused"
        BY <3>1 DEF Inv, OpsNumbered
      <3>3. QED
        BY <1>9, <1>10, <3>1, <3>2
    <2>3. ASSUME NEW o \in OpIds, op'[o].stage \in {"intent", "running", "reply"}
          PROVE  /\ op'[o].meta \in Metas /\ op'[o].meta.ws <= ws
                 /\ op'[o].meta.ws = ws =>
                      op'[o].meta.tab[2] < nextTab /\ <<ws, op'[o].meta.tab>> \notin opens'
      <3>1. CASE o = nextOp
        BY <1>4, <1>8, <3>1 DEF Workspaces
      <3>2. CASE o # nextOp
        BY <1>9, <1>13, <2>3, <3>2 DEF Inv, OpsNumbered
      <3>3. QED
        BY <3>1, <3>2
    <2>4. QED
      BY <2>1, <2>2, <2>3 DEF OpsNumbered, Live, Shell
  <1>16. Remembered'
    <2>1. ASSUME NEW k \in DOMAIN content', content'[k].active # NoMeta
          PROVE  /\ content'[k].active.ws = ws /\ content'[k].active.tab = k
                 /\ content'[k].active.req < content'[k].nextRequest
      <3>1. CASE k = id
        BY <1>3, <1>5, <1>6, <3>1
      <3>2. CASE k # id
        BY <1>6, <2>1, <3>2 DEF Inv, Remembered
      <3>3. QED
        BY <3>1, <3>2
    <2>2. ASSUME NEW k \in DOMAIN content', NEW o \in OpIds,
                 op'[o].stage \in {"intent", "running", "reply"},
                 op'[o].meta.ws = ws, op'[o].meta.tab = k
          PROVE  /\ op'[o].meta.req < content'[k].nextRequest
                 /\ op'[o].meta = content'[k].active => o = content'[k].job
                 /\ ~op'[o].loose => op'[o].meta = content'[k].active
      <3>1. CASE o = nextOp
        BY <1>3, <1>5, <1>6, <1>8, <2>2, <3>1
      <3>2. CASE o # nextOp
        <4>1. /\ Live(o) /\ ops[o] = op[o] /\ op'[o].meta = op[o].meta
              /\ op'[o].loose = (op[o].loose \/ Overtaken(op[o], meta))
          BY <1>9, <1>13, <2>2, <3>2
        <4>2. o \in OwnOps(k)
          BY <2>2, <4>1 DEF OwnOps
        <4>3. CASE k # id
          <5>1. k \in DOMAIN content /\ content'[k] = content[k]
            BY <1>6, <4>3
          <5>2. /\ op[o].meta.req < content[k].nextRequest
                /\ op[o].meta = content[k].active => o = content[k].job
                /\ ~op[o].loose => op[o].meta = content[k].active
            BY <4>2, <5>1 DEF Inv, Remembered
          <5>3. ~op'[o].loose => ~op[o].loose
            BY <4>1
          <5>4. QED
            BY <4>1, <5>1, <5>2, <5>3
        <4>4. CASE k = id
          <5>1. id \in DOMAIN content /\ c.nextRequest = content[id].nextRequest
            BY <4>2, <4>4
          <5>2. op[o].meta.req < c.nextRequest
            BY <4>2, <4>4, <5>1 DEF Inv, Remembered
          <5>3. op[o].meta \in Metas /\ op[o].meta.req \in Nat
            <6>1. op[o].meta \in Metas
              BY <4>1 DEF Inv, OpsNumbered
            <6>2. QED
              BY <6>1, Numbers DEF Metas, OpIds
          <5>4. op'[o].meta # meta /\ op[o].meta.req < c.nextRequest + 1
            BY <1>3, <4>1, <5>2, <5>3
          <5>5. op'[o].loose
            BY <2>2, <4>1, <4>4 DEF Overtaken, Live
          <5>6. QED
            BY <1>5, <1>6, <4>1, <4>4, <5>4, <5>5
        <4>5. QED
          BY <4>3, <4>4
      <3>3. QED
        BY <3>1, <3>2
    <2>3. QED
      BY <2>1, <2>2 DEF Remembered, OwnOps, Live
  <1>17. NoDetachedWork'
    <2>1. ASSUME NEW o \in registry
          PROVE  \/ op'[o].loose
                 \/ Shell /\ op'[o].meta.ws = ws /\ op'[o].meta.tab \in IdsOf(tabs)
                 \/ Name(op'[o].meta) \in cancels \/ closing
      <3>1. op'[o].meta = op[o].meta /\ (op[o].loose => op'[o].loose)
        BY <1>9, <1>12
      <3>2. QED
        BY <3>1 DEF Inv, NoDetachedWork, TabIsOpen
    <2>2. QED
      BY <1>7, <2>1 DEF NoDetachedWork, TabIsOpen, Shell, Name
  <1>18. QED
    BY <1>7, <1>14, <1>15, <1>16, <1>17 DEF Inv, Typed

\* A content changes without asking for anything: what it awaits stays, or has
\* come back and is awaited no longer.
LEMMA SettledInv ==
  ASSUME Inv, Shell, NEW id \in TabIDs, NEW c \in Contents,
         content' = With(id, c), tabs' = Synced(tabs, id, c), op' \in [OpIds -> Ops],
         \A o \in OpIds : LeftBy(op[o], op'[o]),
         id[2] < nextTab, opens' = opens \ {<<ws, id>>},
         IF id \in DOMAIN content THEN c.nextRequest = content[id].nextRequest
         ELSE c.nextRequest = 1 /\ OwnOps(id) = {},
         c.active # NoMeta => id \in DOMAIN content /\ c.active = content[id].active
                              /\ c.job = content[id].job,
         \A o \in OwnOps(id) : ~op[o].loose /\ c.active = NoMeta => op'[o].stage = "done",
         UNCHANGED <<ws, activeTab, modal, nextTab, shown, leaving, closing, nextOp,
                     registry, cancels>>
  PROVE  Inv'
  <1>1. /\ DOMAIN content' = DOMAIN content \cup {id} /\ content'[id] = c
        /\ \A k \in DOMAIN content : k # id => content'[k] = content[k]
    BY DEF With
  <1>2. /\ TabsTyped' /\ ModalTyped' /\ ContentTyped' /\ RootTyped'
        /\ TabsNumbered' /\ EnvelopesAgree' /\ IdsOf(tabs') = IdsOf(tabs)
    BY ContentChanged
  <1>3. \A o \in OpIds : op[o].stage # "reply" => op'[o] = op[o]
    BY DEF LeftBy
  <1>4. \A o \in OpIds : op'[o].stage # "done" => op'[o] = op[o]
    BY DEF LeftBy
  <1>5. ASSUME NEW o \in OpIds, op'[o].stage \in {"intent", "running", "reply"}
        PROVE  Live(o) /\ op'[o] = op[o]
    BY <1>4, <1>5 DEF Live
  <1>6. \A o \in registry : o \in OpIds /\ op'[o] = op[o] /\ op[o].stage = "running"
    BY <1>3 DEF Inv, Typed, OpsTyped
  <1>7. OpsTyped'
    BY <1>6 DEF Inv, Typed, OpsTyped
  <1>8. OpsNumbered'
    <2>1. ASSUME NEW k \in DOMAIN content' PROVE content'[k].nextRequest <= nextOp
      <3>1. CASE k \in DOMAIN content
        BY <1>1, <3>1 DEF Inv, OpsNumbered
      <3>2. CASE k \notin DOMAIN content
        BY <1>1, <3>2, Numbers DEF Inv, Typed, OpsTyped
      <3>3. QED
        BY <3>1, <3>2
    <2>2. ASSUME NEW o \in OpIds
          PROVE  /\ o >= nextOp => op'[o].stage = "unused"
                 /\ op'[o].stage \in {"intent", "running", "reply"} =>
                      /\ op'[o].meta \in Metas /\ op'[o].meta.ws <= ws
                      /\ op'[o].meta.ws = ws =>
                           /\ op'[o].meta.tab[2] < nextTab
                           /\ <<ws, op'[o].meta.tab>> \notin opens'
      <3>1. o >= nextOp => op'[o].stage = "unused"
        BY <1>3 DEF Inv, OpsNumbered
      <3>2. QED
        BY <1>5, <3>1 DEF Inv, OpsNumbered
    <2>3. QED
      BY <2>1, <2>2 DEF OpsNumbered, Live, Shell
  <1>9. Remembered'
    <2>1. ASSUME NEW k \in DOMAIN content', content'[k].active # NoMeta
          PROVE  /\ content'[k].active.ws = ws /\ content'[k].active.tab = k
                 /\ content'[k].active.req < content'[k].nextRequest
      BY <1>1, <2>1 DEF Inv, Remembered
    <2>2. ASSUME NEW k \in DOMAIN content', NEW o \in OpIds,
                 op'[o].stage \in {"intent", "running", "reply"},
                 op'[o].meta.ws = ws, op'[o].meta.tab = k
          PROVE  /\ op'[o].meta.req < content'[k].nextRequest
                 /\ op'[o].meta = content'[k].active => o = content'[k].job
                 /\ ~op'[o].loose => op'[o].meta = content'[k].active
      <3>1. Live(o) /\ op'[o] = op[o]
        BY <1>5, <2>2
      <3>2. o \in OwnOps(k)
        BY <2>2, <3>1 DEF OwnOps
      <3>3. k \in DOMAIN content /\ op[o].meta # NoMeta
        BY <1>1, <3>1, <3>2, Nothing DEF Inv, OpsNumbered
      <3>4. /\ op[o].meta.req < content[k].nextRequest
            /\ op[o].meta = content[k].active => o = content[k].job
            /\ ~op[o].loose => op[o].meta = content[k].active
        BY <3>2, <3>3 DEF Inv, Remembered
      <3>5. CASE k # id
        BY <1>1, <3>1, <3>3, <3>4, <3>5
      <3>6. CASE k = id
        <4>1. ~op[o].loose => c.active # NoMeta
          BY <2>2, <3>1, <3>2, <3>6
        <4>2. QED
          BY <1>1, <3>1, <3>3, <3>4, <3>6, <4>1
      <3>7. QED
        BY <3>5, <3>6
    <2>3. QED
      BY <2>1, <2>2 DEF Remembered, OwnOps, Live
  <1>10. NoDetachedWork'
    <2>1. ASSUME NEW o \in registry
          PROVE  \/ op'[o].loose
                 \/ Shell /\ op'[o].meta.ws = ws /\ op'[o].meta.tab \in IdsOf(tabs)
                 \/ Name(op'[o].meta) \in cancels \/ closing
      BY <1>6 DEF Inv, NoDetachedWork, TabIsOpen
    <2>2. QED
      BY <1>2, <2>1 DEF NoDetachedWork, TabIsOpen, Shell, Name
  <1>11. QED
    BY <1>2, <1>7, <1>8, <1>9, <1>10 DEF Inv, Typed

\* The content of an open tab, and what is known of it.
LEMMA OpenContent ==
  ASSUME Inv, NEW id \in DOMAIN content
  PROVE  /\ Shell /\ id \in TabIDs /\ id[2] < nextTab /\ content[id] \in Contents
         /\ opens = opens \ {<<ws, id>>}
         /\ \A c : [content EXCEPT ![id] = c] = With(id, c)
  <1>1. Shell /\ id \in TabIDs /\ id[2] < nextTab /\ content[id] \in Contents
    BY DEF Inv, TabsNumbered, Typed, ContentTyped
  <1>2. <<ws, id>> \notin opens
    BY <1>1 DEF Inv, TabsNumbered
  <1>3. \A c : [content EXCEPT ![id] = c] = With(id, c)
    BY DEF With
  <1>4. QED
    BY <1>1, <1>2, <1>3

LEMMA EditInv ==
  ASSUME Inv, NEW id \in DOMAIN content, Edit(id)
  PROVE  Inv'
  <1> DEFINE c == [content[id] EXCEPT !.dirty = ~@]
  <1>1. /\ content' = [content EXCEPT ![id] = c] /\ tabs' = Synced(tabs, id, c)
        /\ UNCHANGED <<ws, activeTab, modal, nextTab, opens, shown, leaving, closing, op,
                       nextOp, registry, cancels>>
    BY DEF Edit, Changed, leaveVars, opVars
  <1>2. /\ c \in Contents /\ c.active = content[id].active /\ c.job = content[id].job
        /\ c.nextRequest = content[id].nextRequest
    BY OpenContent DEF Contents
  <1> HIDE DEF c
  <1>3. content' = With(id, c) /\ op' \in [OpIds -> Ops]
        /\ \A o \in OpIds : LeftBy(op[o], op'[o])
    BY <1>1, OpenContent DEF Inv, Typed, OpsTyped, LeftBy
  <1>4. ASSUME NEW o \in OwnOps(id), ~op[o].loose, c.active = NoMeta
        PROVE  op'[o].stage = "done"
    <2>1. op[o].meta = content[id].active /\ o \in OpIds /\ Live(o)
      BY <1>4 DEF Inv, Remembered, OwnOps
    <2>2. QED
      BY <1>2, <1>4, <2>1, Nothing DEF Inv, OpsNumbered
  <1>5. QED
    BY <1>1, <1>2, <1>3, <1>4, OpenContent, SettledInv

LEMMA StartInv ==
  ASSUME Inv, NEW id \in DOMAIN content, Start(id)
  PROVE  Inv'
  <1>1. /\ content' = [content EXCEPT ![id] = Started(id, content[id])]
        /\ tabs' = Synced(tabs, id, Started(id, content[id]))
        /\ Begin(Started(id, content[id]).active, op)
        /\ UNCHANGED <<ws, activeTab, modal, nextTab, opens, shown, leaving, closing,
                       registry, cancels>>
    BY DEF Start, Changed, leaveVars
  <1>2. /\ content' = With(id, Started(id, content[id])) /\ op \in [OpIds -> Ops]
        /\ \A o \in OpIds : LeftBy(op[o], op[o])
    BY <1>1, OpenContent DEF Inv, Typed, OpsTyped, LeftBy
  <1>3. QED
    BY <1>1, <1>2, OpenContent, StartedInv

LEMMA DeliverReplyInv ==
  ASSUME Inv, NEW o \in OpIds, NEW id \in DOMAIN content, DeliverReply(o, id)
  PROVE  Inv'
  <1>1. /\ op[o].stage = "reply" /\ op[o].meta = content[id].active
        /\ UNCHANGED <<ws, activeTab, modal, nextTab, opens, shown, leaving, closing,
                       registry, cancels>>
    BY DEF DeliverReply, Matches, leaveVars
  <1>2. PICK dirty \in {content[id].dirty, FALSE} :
          LET c == [content[id] EXCEPT !.dirty = dirty, !.active = NoMeta, !.job = 0] IN
          \/ Changed(id, c) /\ op' = Handled(o) /\ UNCHANGED nextOp
          \/ Changed(id, Started(id, c)) /\ Begin(Started(id, c).active, Handled(o))
    BY DEF DeliverReply
  <1> DEFINE c == [content[id] EXCEPT !.dirty = dirty, !.active = NoMeta, !.job = 0]
  <1>3. /\ c \in Contents /\ c.active = NoMeta
        /\ c.nextRequest = content[id].nextRequest
    BY OpenContent, Numbers DEF Contents
  <1>4. /\ Handled(o) \in [OpIds -> Ops] /\ Handled(o)[o].stage = "done"
        /\ \A p \in OpIds : LeftBy(op[p], Handled(o)[p])
    BY <1>1, Nothing DEF Inv, Typed, OpsTyped, Handled, LeftBy
  <1>5. \A d : Changed(id, d) => content' = With(id, d) /\ tabs' = Synced(tabs, id, d)
    BY OpenContent DEF Changed
  <1> HIDE DEF c
  <1>6. CASE Changed(id, c) /\ op' = Handled(o) /\ UNCHANGED nextOp
    <2>1. ASSUME NEW p \in OwnOps(id), ~op[p].loose PROVE op'[p].stage = "done"
      <3>1. op[p].meta = content[id].active /\ p = content[id].job
        BY <2>1 DEF Inv, Remembered
      <3>2. op[o].meta \in Metas /\ Live(o)
        BY <1>1 DEF Inv, OpsNumbered, Live
      <3>3. o \in OwnOps(id)
        BY <1>1, <3>2, Nothing DEF Inv, Remembered, OwnOps
      <3>4. o = p
        BY <1>1, <3>1, <3>3 DEF Inv, Remembered
      <3>5. QED
        BY <1>4, <1>6, <3>4
    <2>2. QED
      BY <1>1, <1>3, <1>4, <1>5, <1>6, <2>1, OpenContent, SettledInv
  <1>7. CASE Changed(id, Started(id, c)) /\ Begin(Started(id, c).active, Handled(o))
    BY <1>1, <1>3, <1>4, <1>5, <1>7, OpenContent, StartedInv
  <1>8. QED
    BY <1>2, <1>6, <1>7 DEF c

LEMMA DeliverOpenInv ==
  ASSUME Inv, NEW open \in opens, DeliverOpen(open[1], open[2])
  PROVE  Inv'
  <1> DEFINE w == open[1]
             id == open[2]
             new == [dirty |-> FALSE, active |-> NoMeta, nextRequest |-> 1, job |-> 0]
  <1>1. open = <<w, id>> /\ w \in Workspaces /\ id \in TabIDs
    BY DEF Inv, Typed, RootTyped
  <1>2. new \in Contents
    BY Numbers DEF Contents
  <1>3. /\ UNCHANGED <<ws, activeTab, modal, nextTab, shown, leaving, closing, registry,
                       cancels>>
        /\ opens' = opens \ {<<w, id>>}
    BY DEF DeliverOpen, leaveVars
  <1>4. CASE Shell /\ w = ws
    <2>1. id \notin DOMAIN content /\ id[2] < nextTab
      BY <1>4 DEF Inv, TabsNumbered
    <2>2. OwnOps(id) = {}
      BY <1>1, <1>4 DEF Inv, OpsNumbered, OwnOps
    <2>3. op \in [OpIds -> Ops] /\ \A o \in OpIds : LeftBy(op[o], op[o])
      BY DEF Inv, Typed, OpsTyped, LeftBy
    <2>4. CASE id[1] = "table"
      <3>1. /\ content' = With(id, Started(id, new))
            /\ tabs' = Synced(tabs, id, Started(id, new))
        BY <1>4, <2>4 DEF DeliverOpen, With
      <3>2. Started(id, new).active # NoMeta
        BY <1>4 DEF Started, NoMeta, Inv, TabsNumbered, Workspaces
      <3>3. Begin(Started(id, new).active, op)
        BY <1>4, <2>4, <3>2 DEF DeliverOpen
      <3> HIDE DEF new, id, w
      <3>4. new.nextRequest = 1
        BY DEF new
      <3>5. QED
        BY <1>1, <1>2, <1>3, <1>4, <2>1, <2>2, <2>3, <3>1, <3>3, <3>4, StartedInv
    <2>5. CASE id[1] # "table"
      <3>1. /\ content' = With(id, new) /\ tabs' = Synced(tabs, id, new)
            /\ UNCHANGED <<op, nextOp>>
        BY <1>4, <2>5 DEF DeliverOpen, With
      <3> HIDE DEF new, id, w
      <3>2. new.nextRequest = 1 /\ new.active = NoMeta
        BY DEF new
      <3>3. QED
        BY <1>1, <1>2, <1>3, <1>4, <2>1, <2>2, <2>3, <3>1, <3>2, SettledInv
    <2>6. QED
      BY <2>4, <2>5
  <1>5. CASE ~(Shell /\ w = ws)
    <2>1. UNCHANGED <<tabs, content, op, nextOp>>
      BY <1>5 DEF DeliverOpen
    <2>2. Typed' /\ TabsNumbered' /\ NoDetachedWork'
      BY <1>3, <2>1 DEF Inv, Typed, TabsTyped, ModalTyped, ContentTyped, OpsTyped,
         RootTyped, TabsNumbered, NoDetachedWork, TabIsOpen, Shell
    <2>3. OpsNumbered' /\ Remembered'
      BY <1>3, <2>1 DEF Inv, OpsNumbered, Remembered, OwnOps, Live, Shell
    <2>4. EnvelopesAgree'
      BY <1>1, <1>3, <1>5, <2>1 DEF Inv, EnvelopesAgree, Shell
    <2>5. QED
      BY <2>2, <2>3, <2>4 DEF Inv
  <1>6. QED
    BY <1>4, <1>5

(***************************************************************************)
(* Operations run, are cancelled and come back.                            *)
(***************************************************************************)
\* Operations go on, without any content being told.
LEMMA OpsMovedInv ==
  ASSUME Inv, UNCHANGED <<shellVars, content, opens, leaveVars, nextOp>>,
         op' \in [OpIds -> Ops],
         \A o \in OpIds :
           \/ op'[o].stage = "done" /\ Live(o)
           \/ op'[o] = op[o]
           \/ /\ Live(o) /\ op'[o].stage \in {"intent", "running", "reply"}
              /\ op'[o].meta = op[o].meta /\ (op[o].loose => op'[o].loose),
         registry' \subseteq {o \in OpIds : op'[o].stage = "running"},
         cancels' \subseteq Names, NoDetachedWork'
  PROVE  Inv'
  <1> USE DEF shellVars, leaveVars
  <1>1. OpsTyped'
    BY DEF Inv, Typed, OpsTyped
  <1>2. TabsTyped' /\ ModalTyped' /\ ContentTyped' /\ RootTyped' /\ TabsNumbered'
    BY DEF Inv, Typed, TabsTyped, ModalTyped, ContentTyped, RootTyped, TabsNumbered, Shell
  <1>3. EnvelopesAgree'
    BY DEF Inv, EnvelopesAgree, Shell
  <1>4. ASSUME NEW o \in OpIds, op'[o].stage \in {"intent", "running", "reply"}
        PROVE  Live(o) /\ op'[o].meta = op[o].meta /\ (op[o].loose => op'[o].loose)
    BY <1>4 DEF Live
  <1>5. OpsNumbered'
    <2>1. \A o \in OpIds : o >= nextOp => op[o].stage = "unused" /\ ~Live(o)
      BY DEF Inv, OpsNumbered, Live
    <2>2. \A o \in OpIds : o >= nextOp => op'[o].stage = "unused"
      BY <2>1
    <2>3. ASSUME NEW o \in OpIds, op'[o].stage \in {"intent", "running", "reply"}
          PROVE  /\ op'[o].meta \in Metas /\ op'[o].meta.ws <= ws
                 /\ Shell /\ op'[o].meta.ws = ws =>
                      op'[o].meta.tab[2] < nextTab /\ <<ws, op'[o].meta.tab>> \notin opens
      BY <1>4, <2>3 DEF Inv, OpsNumbered
    <2>4. QED
      BY <2>2, <2>3 DEF Inv, OpsNumbered, Live, Shell
  <1>6. Remembered'
    <2>1. ASSUME NEW k \in DOMAIN content, NEW o \in OpIds,
                 op'[o].stage \in {"intent", "running", "reply"},
                 op'[o].meta.ws = ws, op'[o].meta.tab = k
          PROVE  /\ op'[o].meta.req < content[k].nextRequest
                 /\ op'[o].meta = content[k].active => o = content[k].job
                 /\ ~op'[o].loose => op'[o].meta = content[k].active
      <3>1. o \in OwnOps(k) /\ op'[o].meta = op[o].meta /\ (op[o].loose => op'[o].loose)
        BY <1>4, <2>1 DEF OwnOps
      <3>2. QED
        BY <3>1 DEF Inv, Remembered
    <2>2. QED
      BY <2>1 DEF Inv, Remembered, OwnOps, Live
  <1>7. QED
    BY <1>1, <1>2, <1>3, <1>5, <1>6 DEF Inv, Typed

LEMMA DispatchInv ==
  ASSUME Inv, NEW o \in OpIds, Dispatch(o)
  PROVE  Inv'
  <1>1. /\ op[o].stage = "intent"
        /\ op' = [op EXCEPT ![o].stage = "running",
                            ![o].loose = @ \/ ~TabIsOpen(op[o].meta)]
        /\ registry' = (registry \ Registered(Name(op[o].meta))) \cup {o}
        /\ UNCHANGED <<shellVars, content, opens, leaveVars, nextOp, cancels>>
    BY DEF Dispatch
  <1>2. op \in [OpIds -> Ops] /\ registry \subseteq {p \in OpIds : op[p].stage = "running"}
        /\ cancels \subseteq Names
    BY DEF Inv, Typed, OpsTyped
  <1>3. /\ op' \in [OpIds -> Ops] /\ op'[o].stage = "running"
        /\ op'[o].meta = op[o].meta
        /\ op'[o].loose = (op[o].loose \/ ~TabIsOpen(op[o].meta))
        /\ \A p \in OpIds : p # o => op'[p] = op[p]
    BY <1>1, <1>2 DEF Ops, Stages
  <1>4. registry' \subseteq {p \in OpIds : op'[p].stage = "running"}
    BY <1>1, <1>2, <1>3
  <1>5. NoDetachedWork'
    <2>1. ASSUME NEW p \in registry'
          PROVE  \/ op'[p].loose \/ TabIsOpen(op'[p].meta)
                 \/ Name(op'[p].meta) \in cancels \/ closing
      <3>1. CASE p = o
        BY <1>3, <3>1
      <3>2. CASE p # o
        BY <1>1, <1>2, <1>3, <3>2 DEF Inv, NoDetachedWork
      <3>3. QED
        BY <3>1, <3>2
    <2>2. QED
      BY <1>1, <2>1 DEF NoDetachedWork, TabIsOpen, Shell, Name, IdsOf, shellVars, leaveVars
  <1>6. QED
    BY <1>1, <1>2, <1>3, <1>4, <1>5, OpsMovedInv DEF Live

LEMMA ReturnInv ==
  ASSUME Inv, NEW o \in OpIds, Return(o)
  PROVE  Inv'
  <1>1. /\ op[o].stage = "running" /\ op' = [op EXCEPT ![o].stage = "reply"]
        /\ registry' = registry \ Registered(Name(op[o].meta))
        /\ UNCHANGED <<shellVars, content, opens, leaveVars, nextOp, cancels>>
    BY DEF Return
  <1>2. op \in [OpIds -> Ops] /\ registry \subseteq {p \in OpIds : op[p].stage = "running"}
        /\ cancels \subseteq Names
    BY DEF Inv, Typed, OpsTyped
  <1>3. /\ op' \in [OpIds -> Ops] /\ op'[o].stage = "reply"
        /\ op'[o].meta = op[o].meta /\ op'[o].loose = op[o].loose
        /\ \A p \in OpIds : p # o => op'[p] = op[p]
    BY <1>1, <1>2 DEF Ops, Stages
  <1>4. o \notin registry' /\ registry' \subseteq registry
    BY <1>1 DEF Registered
  <1>5. registry' \subseteq {p \in OpIds : op'[p].stage = "running"}
    BY <1>2, <1>3, <1>4
  <1>6. NoDetachedWork'
    <2>1. \A p \in registry' : \/ op'[p].loose \/ TabIsOpen(op'[p].meta)
                               \/ Name(op'[p].meta) \in cancels \/ closing
      BY <1>2, <1>3, <1>4 DEF Inv, NoDetachedWork
    <2>2. QED
      BY <1>1, <2>1 DEF NoDetachedWork, TabIsOpen, Shell, Name, IdsOf, shellVars, leaveVars
  <1>7. QED
    BY <1>1, <1>2, <1>3, <1>5, <1>6, OpsMovedInv DEF Live

LEMMA DeliverStaleInv ==
  ASSUME Inv, NEW o \in OpIds, DeliverStale(o)
  PROVE  Inv'
  <1>1. /\ op[o].stage = "reply" /\ op' = Handled(o)
        /\ UNCHANGED <<shellVars, content, opens, leaveVars, nextOp, registry, cancels>>
    BY DEF DeliverStale
  <1>2. op \in [OpIds -> Ops] /\ registry \subseteq {p \in OpIds : op[p].stage = "running"}
        /\ cancels \subseteq Names
    BY DEF Inv, Typed, OpsTyped
  <1>3. /\ op' \in [OpIds -> Ops] /\ op'[o].stage = "done"
        /\ \A p \in OpIds : p # o => op'[p] = op[p]
    BY <1>1, <1>2, Nothing DEF Handled
  <1>4. registry' \subseteq {p \in OpIds : op'[p].stage = "running"} /\ o \notin registry
    BY <1>1, <1>2, <1>3
  <1>5. NoDetachedWork'
    <2>1. \A p \in registry' : \/ op'[p].loose \/ TabIsOpen(op'[p].meta)
                               \/ Name(op'[p].meta) \in cancels \/ closing
      BY <1>1, <1>2, <1>3, <1>4 DEF Inv, NoDetachedWork
    <2>2. QED
      BY <1>1, <2>1 DEF NoDetachedWork, TabIsOpen, Shell, Name, IdsOf, shellVars, leaveVars
  <1>6. QED
    BY <1>1, <1>2, <1>3, <1>4, <1>5, OpsMovedInv DEF Live

\* A cancellation is asked for, takes effect, or is asked of everything.
LEMMA CancelsInv ==
  ASSUME Inv
  PROVE  /\ \A id \in DOMAIN content : CtrlC(id) => Inv'
         /\ \A name \in cancels : DeliverCancel(name) => Inv'
  <1>1. op \in [OpIds -> Ops] /\ registry \subseteq {p \in OpIds : op[p].stage = "running"}
        /\ cancels \subseteq Names
    BY DEF Inv, Typed, OpsTyped
  <1>2. ASSUME NEW id \in DOMAIN content, CtrlC(id) PROVE Inv'
    <2>1. /\ cancels = {} /\ cancels' = {Name(content[id].active)}
          /\ content[id].active # NoMeta
          /\ UNCHANGED <<shellVars, content, opens, leaveVars, op, nextOp, registry>>
      BY <1>2 DEF CtrlC
    <2>2. content[id].active \in Metas
      BY <2>1, OpenContent DEF Contents
    <2>3. cancels' \subseteq Names
      BY <2>1, <2>2 DEF Name, Names, Metas
    <2>4. NoDetachedWork'
      BY <2>1 DEF Inv, NoDetachedWork, TabIsOpen, Shell, Name, IdsOf, shellVars, leaveVars
    <2>5. QED
      BY <1>1, <2>1, <2>3, <2>4, OpsMovedInv
  <1>3. ASSUME NEW name \in cancels, DeliverCancel(name) PROVE Inv'
    <2>1. /\ cancels' = cancels \ {name} /\ registry' = registry \ Registered(name)
          /\ UNCHANGED <<shellVars, content, opens, leaveVars, op, nextOp>>
      BY <1>3 DEF DeliverCancel
    <2>2. \A o \in registry' : o \in registry /\ Name(op[o].meta) # name
      BY <2>1 DEF Registered
    <2>3. NoDetachedWork'
      <3>1. \A o \in registry' : \/ op[o].loose \/ TabIsOpen(op[o].meta)
                                 \/ Name(op[o].meta) \in cancels' \/ closing
        BY <2>1, <2>2 DEF Inv, NoDetachedWork
      <3>2. QED
        BY <2>1, <3>1 DEF NoDetachedWork, TabIsOpen, Shell, Name, IdsOf, shellVars, leaveVars
    <2>4. QED
      BY <1>1, <2>1, <2>3, OpsMovedInv
  <1>4. QED
    BY <1>2, <1>3

(***************************************************************************)
(* A workspace is entered and left.                                        *)
(***************************************************************************)
LEMMA ConnectedInv ==
  ASSUME Inv, Connected
  PROVE  Inv'
  <1>1. /\ ~Shell /\ Shell' /\ ws < MaxWorkspaces /\ ws' = ws + 1
        /\ shown' = "workspace"
        /\ UNCHANGED <<tabs, activeTab, modal, nextTab, content, opens, leaving,
                       closing, op, nextOp, registry, cancels>>
    BY DEF Connected, Shell, opVars
  <1>2. tabs = <<>> /\ DOMAIN content = {} /\ DOMAIN tabs = {}
    BY <1>1, OpenTabs, TabsDomain DEF Inv, TabsNumbered
  <1>3. ws \in Nat /\ ws' \in Workspaces /\ ws' \in 0..MaxWorkspaces /\ ws' > ws
    BY <1>1, Numbers DEF Inv, Typed, RootTyped, Workspaces
  <1>4. Typed'
    BY <1>1, <1>3 DEF Inv, Typed, TabsTyped, ModalTyped, ContentTyped, OpsTyped, RootTyped
  <1>5. TabsNumbered'
    <2>1. \A open \in opens : open[1] <= ws /\ open[1] \in Nat
      BY DEF Inv, TabsNumbered, Typed, RootTyped, Workspaces
    <2>2. \A open \in opens' : open[1] <= ws' /\ open[1] # ws'
      BY <1>1, <1>3, <2>1
    <2>3. \A i \in 1..Len(tabs') : FALSE
      BY <1>1, <1>2
    <2>4. QED
      BY <1>1, <1>2, <1>3, <2>2, <2>3 DEF TabsNumbered
  <1>6. ASSUME NEW o \in OpIds, Live(o)
        PROVE  /\ op[o].meta \in Metas /\ op[o].meta.ws <= ws' /\ op[o].meta.ws # ws'
    <2>1. op[o].meta \in Metas /\ op[o].meta.ws <= ws
      BY <1>6 DEF Inv, OpsNumbered
    <2>2. op[o].meta.ws \in Nat
      BY <2>1 DEF Metas, Workspaces
    <2>3. QED
      BY <1>3, <2>1, <2>2
  <1>7. OpsNumbered'
    BY <1>1, <1>2, <1>6 DEF Inv, OpsNumbered, Live
  <1>8. Remembered' /\ EnvelopesAgree'
    BY <1>1, <1>2 DEF Remembered, EnvelopesAgree
  <1>9. NoDetachedWork'
    BY <1>1, <1>2 DEF Inv, NoDetachedWork, TabIsOpen, Name
  <1>10. QED
    BY <1>4, <1>5, <1>7, <1>8, <1>9 DEF Inv

LEMMA DisconnectInv ==
  ASSUME Inv, Disconnect
  PROVE  Inv'
  <1>1. /\ leaving' = FALSE /\ shown' = "launcher" /\ closing' = TRUE /\ tabs' = <<>>
        /\ activeTab' = NoTab /\ modal' = NoModal /\ nextTab' = 1 /\ content' = <<>>
        /\ UNCHANGED <<ws, opens, op, nextOp, registry, cancels>>
    BY DEF Disconnect, opVars
  <1>2. /\ tabs' \in Seq(TabRecords) /\ Len(tabs') = 0 /\ DOMAIN content' = {}
        /\ \A i \in 1..Len(tabs') : FALSE
    BY <1>1
  <1>3. ~Shell'
    BY <1>1 DEF Shell
  <1>4. TabsTyped' /\ ModalTyped' /\ ContentTyped'
    BY <1>1, <1>2 DEF TabsTyped, ModalTyped, ContentTyped, NoModal
  <1>5. OpsTyped' /\ RootTyped'
    BY <1>1, Numbers DEF Inv, Typed, OpsTyped, RootTyped
  <1>6. TabsNumbered'
    BY <1>1, <1>2, <1>3 DEF Inv, TabsNumbered
  <1>7. OpsNumbered'
    BY <1>1, <1>2, <1>3 DEF Inv, OpsNumbered, Live
  <1>8. Remembered' /\ EnvelopesAgree' /\ NoDetachedWork'
    BY <1>1, <1>2, <1>3 DEF Remembered, EnvelopesAgree, NoDetachedWork
  <1>9. QED
    BY <1>4, <1>5, <1>6, <1>7, <1>8 DEF Inv, Typed

LEMMA CancelAllInv ==
  ASSUME Inv, CancelAll
  PROVE  Inv'
  <1>1. /\ closing' = FALSE /\ registry' = {}
        /\ UNCHANGED <<shellVars, content, opens, shown, leaving, op, nextOp, cancels>>
    BY DEF CancelAll
  <1>2. Typed' /\ TabsNumbered'
    BY <1>1 DEF Inv, Typed, TabsTyped, ModalTyped, ContentTyped, OpsTyped, RootTyped,
       TabsNumbered, Shell, shellVars
  <1>3. OpsNumbered' /\ Remembered'
    BY <1>1 DEF Inv, OpsNumbered, Remembered, OwnOps, Live, Shell, shellVars
  <1>4. EnvelopesAgree' /\ NoDetachedWork'
    BY <1>1 DEF Inv, EnvelopesAgree, NoDetachedWork, Shell, shellVars
  <1>5. QED
    BY <1>2, <1>3, <1>4 DEF Inv

(***************************************************************************)
(* The invariant holds.                                                    *)
(***************************************************************************)
LEMMA InitInv ==
  ASSUME Init
  PROVE  Inv
  <1>1. /\ tabs = <<>> /\ Len(tabs) = 0 /\ DOMAIN content = {} /\ ~Shell
        /\ \A i \in 1..Len(tabs) : FALSE
        /\ \A o \in OpIds : op[o] = NoOp
    BY DEF Init, Shell
  <1>2. TabsTyped /\ ModalTyped /\ ContentTyped
    BY <1>1 DEF Init, TabsTyped, ModalTyped, ContentTyped, NoModal
  <1>3. OpsTyped
    BY Numbers, Nothing DEF Init, OpsTyped
  <1>4. RootTyped
    <2>1. 0 \in 0..MaxWorkspaces /\ 1 \in 1..(MaxTabs + 1)
      BY Numbers
    <2>2. QED
      BY <2>1 DEF Init, RootTyped
  <1>5. OpsNumbered
    BY <1>1, Nothing DEF Init, OpsNumbered, Live
  <1>6. TabsNumbered /\ Remembered /\ EnvelopesAgree /\ NoDetachedWork
    BY <1>1 DEF Init, TabsNumbered, Remembered, EnvelopesAgree, NoDetachedWork
  <1>7. QED
    BY <1>2, <1>3, <1>4, <1>5, <1>6 DEF Inv, Typed

LEMMA OpeningInv ==
  ASSUME Inv
  PROVE  /\ \A relation \in Relations : OpenTableTab(relation) => Inv'
         /\ OpenSQLTab => Inv'
  <1>1. ASSUME Ready, NEW kind \in {"table", "sql"}, NEW relation \in Relations \cup {SQL},
               OpenTab(<<kind, nextTab>>, relation)
        PROVE  Inv'
    <2>1. nextTab \in 1..MaxTabs
      BY <1>1, OpenTabs, Numbers DEF OpenTab
    <2>2. <<kind, nextTab>> \in TabIDs /\ <<kind, nextTab>>[2] = nextTab
      BY <2>1 DEF TabIDs
    <2>3. QED
      BY <1>1, <2>2, OpenTabInv
  <1>2. ASSUME NEW relation \in Relations, OpenTableTab(relation) PROVE Inv'
    BY <1>1, <1>2, ShellInv DEF OpenTableTab
  <1>3. ASSUME OpenSQLTab PROVE Inv'
    BY <1>1, <1>3 DEF OpenSQLTab
  <1>4. QED
    BY <1>2, <1>3

LEMMA StepInv ==
  ASSUME Inv, [Next]_vars
  PROVE  Inv'
  <1>1. ASSUME NEW relation \in Relations, OpenTableTab(relation) PROVE Inv'
    BY <1>1, OpeningInv
  <1>2. ASSUME OpenSQLTab PROVE Inv'
    BY <1>2, OpeningInv
  <1>3. ASSUME NEW i \in DOMAIN tabs,
               SelectTab(i) \/ CloseTab(i) \/ AskClose(i) \/ DiscardTab(i)
        PROVE  Inv'
    BY <1>3, ShellInv, CloseTabInv, DiscardTabInv
  <1>4. ASSUME RequestLeave \/ KeepOpen \/ ConfirmLeave \/ Disconnect PROVE Inv'
    BY <1>4, ShellInv, DisconnectInv
  <1>5. ASSUME NEW id \in DOMAIN content, Edit(id) \/ Start(id) \/ CtrlC(id) PROVE Inv'
    BY <1>5, EditInv, StartInv, CancelsInv
  <1>6. ASSUME NEW open \in opens, DeliverOpen(open[1], open[2]) PROVE Inv'
    BY <1>6, DeliverOpenInv
  <1>7. ASSUME NEW o \in OpIds, Dispatch(o) \/ Return(o) \/ DeliverStale(o) PROVE Inv'
    BY <1>7, DispatchInv, ReturnInv, DeliverStaleInv
  <1>8. ASSUME NEW o \in OpIds, NEW id \in DOMAIN content, DeliverReply(o, id) PROVE Inv'
    BY <1>8, DeliverReplyInv
  <1>9. ASSUME NEW name \in cancels, DeliverCancel(name) PROVE Inv'
    BY <1>9, CancelsInv
  <1>10. ASSUME Connected \/ CancelAll PROVE Inv'
    BY <1>10, ConnectedInv, CancelAllInv
  <1>11. ASSUME UNCHANGED vars PROVE Inv'
    <2> USE <1>11 DEF vars, shellVars, leaveVars, opVars
    <2>1. Typed' /\ TabsNumbered'
      BY DEF Inv, Typed, TabsTyped, ModalTyped, ContentTyped, OpsTyped, RootTyped,
         TabsNumbered, Shell
    <2>2. OpsNumbered' /\ Remembered'
      BY DEF Inv, OpsNumbered, Remembered, OwnOps, Live, Shell
    <2>3. EnvelopesAgree' /\ NoDetachedWork'
      BY DEF Inv, EnvelopesAgree, NoDetachedWork, Shell, TabIsOpen, Name
    <2>4. QED
      BY <2>1, <2>2, <2>3 DEF Inv
  <1>12. QED
    BY <1>1, <1>2, <1>3, <1>4, <1>5, <1>6, <1>7, <1>8, <1>9, <1>10, <1>11 DEF Next

\* The invariant of the shell, its contents and their operations.
THEOREM TabsInvariant == Spec => []Inv
  <1>1. Init => Inv
    BY InitInv
  <1>2. Inv /\ [Next]_vars => Inv'
    BY StepInv
  <1>3. QED
    BY <1>1, <1>2, PTL DEF Spec

\* What the run checks of every state follows from it.
LEMMA InvIsTyped ==
  ASSUME Inv
  PROVE  TypeOK
  <1>1. \A i \in DOMAIN tabs :
          tabs[i] \in [id : TabIDs, relation : Relations \cup {SQL}, dirty : BOOLEAN,
                       running : BOOLEAN, request : Metas \cup {NoMeta}]
    BY OpenTabs DEF TabRecords
  <1>2. IsInjective([i \in DOMAIN tabs |-> tabs[i].id])
    BY OpenTabs DEF IsInjective, Inv, Typed, TabsTyped
  <1>3. \A id \in DOMAIN content :
          content[id] \in [dirty : BOOLEAN, active : Metas \cup {NoMeta},
                           nextRequest : 1..(MaxOps + 1), job : 0..MaxOps]
    BY DEF Inv, Typed, ContentTyped, Contents
  <1>4. op \in [OpIds -> [meta : Metas \cup {NoMeta}, stage : Stages, loose : BOOLEAN]]
    BY DEF Inv, Typed, OpsTyped, Ops
  <1>5. QED
    BY <1>1, <1>2, <1>3, <1>4
    DEF TypeOK, Inv, Typed, TabsTyped, ModalTyped, ContentTyped, OpsTyped, RootTyped

\* Every variable keeps its type, for any number of tabs, operations and workspaces.
THEOREM TypeCorrect == Spec => []TypeOK
  BY TabsInvariant, InvIsTyped, PTL

\* What the shell knows of a tab is what its content is, and a tab that has none is
\* about to get one (TabStateChangedMsg, OpenTableIntent and OpenSQLIntent).
THEOREM EnvelopesKept == Spec => []EnvelopesAgree
  <1>1. Inv => EnvelopesAgree
    BY DEF Inv
  <1>2. QED
    BY <1>1, TabsInvariant, PTL

\* Work that was dispatched for a tab is cancelled, or about to be, once the tab is
\* closed or its workspace left.
THEOREM WorkIsAttached == Spec => []NoDetachedWork
  <1>1. Inv => NoDetachedWork
    BY DEF Inv
  <1>2. QED
    BY <1>1, TabsInvariant, PTL

(***************************************************************************)
(* What no step does.                                                      *)
(***************************************************************************)
\* The shell asks about what is at risk, because it is told of it.
LEMMA HazardsKnown ==
  ASSUME Inv, Shell
  PROVE  \A i \in DOMAIN tabs : ~Hazardous(tabs[i]) => ~AtRisk(tabs[i].id)
  <1>1. \A i \in DOMAIN tabs : Agrees(tabs[i])
    BY AllAgree DEF Inv
  <1>2. QED
    BY <1>1 DEF Agrees, Hazardous, AtRisk

\* Tabs go by the key that closes them, by the answer to a question about them, and
\* with their workspace.
LEMMA TabsGone ==
  ASSUME Inv, [Next]_vars
  PROVE  \/ IdsOf(tabs) \subseteq IdsOf(tabs')
         \/ \E i \in DOMAIN tabs :
              /\ IdsOf(tabs') = IdsOf(tabs) \ {tabs[i].id}
              /\ \/ Shell /\ ~Hazardous(tabs[i])
                 \/ modal.kind = "close" /\ modal.tab = tabs[i].id
         \/ leaving
  <1>1. ASSUME tabs' = tabs PROVE IdsOf(tabs) \subseteq IdsOf(tabs')
    BY <1>1
  <1>2. ASSUME NEW id, NEW c \in Contents, tabs' = Synced(tabs, id, c)
        PROVE  IdsOf(tabs) \subseteq IdsOf(tabs')
    BY <1>2, SyncedTabs DEF Inv, Typed
  <1>3. ASSUME NEW id \in TabIDs, NEW relation \in Relations \cup {SQL}, OpenTab(id, relation)
        PROVE  IdsOf(tabs) \subseteq IdsOf(tabs')
    <2>1. tabs' = Append(tabs, TabOf(id, relation)) /\ TabOf(id, relation) \in TabRecords
      BY <1>3 DEF OpenTab, TabOf, TabRecords
    <2>2. /\ DOMAIN tabs \subseteq DOMAIN tabs'
          /\ \A i \in DOMAIN tabs : tabs'[i] = tabs[i]
      BY <2>1, OpenTabs, AppendProperties
    <2>3. QED
      BY <2>2 DEF IdsOf
  <1>4. \A i \in DOMAIN tabs : CloseTabAt(i) => IdsOf(tabs') = IdsOf(tabs) \ {tabs[i].id}
    BY RemovedTabs DEF CloseTabAt, Inv, Typed
  <1>5. CASE \E relation \in Relations : OpenTableTab(relation)
    <2>1. ASSUME NEW relation \in Relations, OpenTab(<<"table", nextTab>>, relation)
          PROVE  IdsOf(tabs) \subseteq IdsOf(tabs')
      <3>1. <<"table", nextTab>> \in TabIDs
        BY <2>1, OpenTabs DEF OpenTab, TabIDs
      <3>2. QED
        BY <1>3, <2>1, <3>1
    <2>2. QED
      BY <1>1, <1>5, <2>1 DEF OpenTableTab, ShowTab
  <1>6. CASE OpenSQLTab
    <2>1. <<"sql", nextTab>> \in TabIDs
      BY <1>6, OpenTabs DEF OpenSQLTab, OpenTab, TabIDs
    <2>2. QED
      BY <1>3, <1>6, <2>1 DEF OpenSQLTab
  <1>7. CASE \E i \in DOMAIN tabs : SelectTab(i) \/ CloseTab(i) \/ AskClose(i) \/ DiscardTab(i)
    <2>1. PICK i \in DOMAIN tabs : SelectTab(i) \/ CloseTab(i) \/ AskClose(i) \/ DiscardTab(i)
      BY <1>7
    <2>2. CASE SelectTab(i) \/ AskClose(i)
      BY <1>1, <2>2 DEF SelectTab, ShowTab, AskClose
    <2>3. CASE CloseTab(i)
      BY <1>4, <2>3 DEF CloseTab, Ready
    <2>4. CASE DiscardTab(i)
      BY <1>4, <2>4 DEF DiscardTab
    <2>5. QED
      BY <2>1, <2>2, <2>3, <2>4
  <1>8. CASE RequestLeave \/ KeepOpen \/ ConfirmLeave \/ Disconnect
    <2>1. CASE Disconnect
      BY <2>1 DEF Disconnect
    <2>2. CASE ~Disconnect
      BY <1>1, <1>8, <2>2 DEF RequestLeave, KeepOpen, ConfirmLeave
    <2>3. QED
      BY <2>1, <2>2
  <1>9. CASE \E id \in DOMAIN content : Edit(id) \/ Start(id) \/ CtrlC(id)
    <2>1. PICK id \in DOMAIN content : Edit(id) \/ Start(id) \/ CtrlC(id)
      BY <1>9
    <2>2. CASE Edit(id)
      <3>1. [content[id] EXCEPT !.dirty = ~@] \in Contents
        BY OpenContent DEF Contents
      <3>2. QED
        BY <1>2, <2>2, <3>1 DEF Edit, Changed
    <2>3. CASE Start(id)
      <3>1. IdsOf(Synced(tabs, id, Started(id, content[id]))) = IdsOf(tabs)
        BY OpenTabs DEF Synced, IdsOf
      <3>2. QED
        BY <2>3, <3>1 DEF Start, Changed
    <2>4. CASE CtrlC(id)
      BY <1>1, <2>4 DEF CtrlC, shellVars
    <2>5. QED
      BY <2>1, <2>2, <2>3, <2>4
  <1>10. CASE \E open \in opens : DeliverOpen(open[1], open[2])
    <2>1. \A id, c : IdsOf(Synced(tabs, id, c)) = IdsOf(tabs)
      BY OpenTabs DEF Synced, IdsOf
    <2>2. QED
      BY <1>1, <1>10, <2>1 DEF DeliverOpen
  <1>11. CASE \E o \in OpIds : \/ Dispatch(o) \/ Return(o) \/ DeliverStale(o)
                               \/ \E id \in DOMAIN content : DeliverReply(o, id)
    <2>1. \A id, c : IdsOf(Synced(tabs, id, c)) = IdsOf(tabs)
      BY OpenTabs DEF Synced, IdsOf
    <2>2. PICK o \in OpIds : \/ Dispatch(o) \/ Return(o) \/ DeliverStale(o)
                             \/ \E id \in DOMAIN content : DeliverReply(o, id)
      BY <1>11
    <2>3. CASE Dispatch(o) \/ Return(o) \/ DeliverStale(o)
      BY <1>1, <2>3 DEF Dispatch, Return, DeliverStale, shellVars
    <2>4. CASE \E id \in DOMAIN content : DeliverReply(o, id)
      <3>1. PICK id \in DOMAIN content : DeliverReply(o, id)
        BY <2>4
      <3>2. \E c : tabs' = Synced(tabs, id, c)
        BY <3>1 DEF DeliverReply, Changed
      <3>3. QED
        BY <2>1, <3>2
    <2>5. QED
      BY <2>2, <2>3, <2>4
  <1>12. CASE \/ \E name \in cancels : DeliverCancel(name)
              \/ Connected \/ CancelAll \/ UNCHANGED vars
    BY <1>1, <1>12 DEF DeliverCancel, Connected, CancelAll, vars, shellVars
  <1>13. QED
    BY <1>5, <1>6, <1>7, <1>8, <1>9, <1>10, <1>11, <1>12 DEF Next

\* A workspace is left without a question when no tab has anything to lose.
LEMMA LeavingAsked ==
  ASSUME Inv, [Next]_vars, leaving', ~leaving, modal.kind = "none"
  PROVE  Shell /\ \A i \in DOMAIN tabs : ~Hazardous(tabs[i])
  <1>1. RequestLeave \/ UNCHANGED leaving
    BY DEF Next, vars, leaveVars, OpenTableTab, OpenSQLTab, OpenTab, ShowTab, SelectTab,
       CloseTab, AskClose, DiscardTab, KeepOpen, ConfirmLeave, Disconnect, Edit, Start,
       CtrlC, DeliverOpen, Dispatch, Return, DeliverStale, DeliverReply, DeliverCancel,
       Connected, CancelAll
  <1>2. QED
    BY <1>1 DEF RequestLeave, Ready

\* No tab is closed with work that nobody asked about, and no workspace is left so.
THEOREM NothingLostUnasked == Spec => LosesNothingUnasked
  <1>1. ASSUME Inv, [Next]_vars
        PROVE  [/\ \A id \in IdsOf(tabs) \ IdsOf(tabs') :
                     AtRisk(id) => \/ modal.kind = "close" /\ modal.tab = id
                                   \/ leaving
                /\ leaving' /\ ~leaving /\ modal.kind = "none" =>
                     \A id \in IdsOf(tabs) : ~AtRisk(id)]_vars
    <2>1. ASSUME NEW id \in IdsOf(tabs) \ IdsOf(tabs'), AtRisk(id)
          PROVE  (modal.kind = "close" /\ modal.tab = id) \/ leaving
      BY <1>1, <2>1, TabsGone, HazardsKnown
    <2>2. ASSUME leaving', ~leaving, modal.kind = "none"
          PROVE  \A id \in IdsOf(tabs) : ~AtRisk(id)
      BY <1>1, <2>2, LeavingAsked, HazardsKnown, OpenTabs
    <2>3. QED
      BY <2>1, <2>2
  <1>2. QED
    BY <1>1, TabsInvariant, PTL DEF Spec, LosesNothingUnasked

\* Only a reply that is handled ends its operation, and it changes one content.
LEMMA RepliesEnd ==
  ASSUME Inv, [Next]_vars, NEW o \in OpIds, op[o].stage = "reply", op'[o].stage = "done",
         NEW id \in DOMAIN content, id \in DOMAIN content',
         content'[id].active # content[id].active
  PROVE  op[o].meta = content[id].active
  <1>1. op \in [OpIds -> Ops] /\ \A p \in OpIds : op[p] \in Ops
    BY DEF Inv, Typed, OpsTyped
  <1>2. ASSUME NEW p \in OpIds, o # p, op' = [op EXCEPT ![p] = op'[p]]
        PROVE  FALSE
    BY <1>1, <1>2
  <1>3. ASSUME NEW meta, Begin(meta, op) PROVE FALSE
    BY <1>1, <1>3 DEF Begin, NoOp, Ops
  <1>4. op' # op
    BY <1>1
  <1>5. PICK p \in OpIds : \/ Dispatch(p) \/ Return(p) \/ DeliverStale(p)
                           \/ \E k \in DOMAIN content : DeliverReply(p, k)
    BY <1>3, <1>4 DEF Next, vars, opVars, OpenTableTab, OpenSQLTab, OpenTab, ShowTab,
       SelectTab, CloseTab, AskClose, DiscardTab, RequestLeave, KeepOpen, ConfirmLeave,
       Disconnect, Edit, Start, CtrlC, DeliverOpen, DeliverCancel, Connected, CancelAll
  <1>6. CASE Dispatch(p) \/ Return(p) \/ DeliverStale(p)
    BY <1>6 DEF Dispatch, Return, DeliverStale
  <1>7. CASE \E k \in DOMAIN content : DeliverReply(p, k)
    <2>1. PICK k \in DOMAIN content : DeliverReply(p, k)
      BY <1>7
    <2>2. op[p].meta = content[k].active
      BY <2>1 DEF DeliverReply, Matches
    <2>3. \E c : content' = [content EXCEPT ![k] = c]
      BY <2>1 DEF DeliverReply, Changed
    <2>4. k = id
      BY <2>3
    <2>5. Handled(p)[o].stage = op'[o].stage
      <3>1. \A q \in OpIds : Handled(p)[q] \in Ops
        BY <1>1, Nothing DEF Handled
      <3>2. CASE op' = Handled(p)
        BY <3>2
      <3>3. CASE \E meta : Begin(meta, Handled(p))
        BY <3>1, <3>3 DEF Begin, NoOp, Ops
      <3>4. QED
        BY <2>1, <3>2, <3>3 DEF DeliverReply
    <2>6. o = p
      BY <1>1, <2>5 DEF Handled
    <2>7. QED
      BY <2>2, <2>4, <2>6
  <1>8. QED
    BY <1>5, <1>6, <1>7

\* A reply that a content takes answers the operation it asked for last.
THEOREM AnswersItsTab == Spec => AnswersOwnTab
  <1>1. ASSUME Inv, [Next]_vars
        PROVE  [\A o \in OpIds : \A id \in DOMAIN content \cap DOMAIN content' :
                  op[o].stage = "reply" /\ op'[o].stage = "done"
                    /\ content'[id].active # content[id].active
                  => o = content[id].job]_vars
    <2>1. ASSUME NEW o \in OpIds, NEW id \in DOMAIN content \cap DOMAIN content',
                 op[o].stage = "reply", op'[o].stage = "done",
                 content'[id].active # content[id].active
          PROVE  o = content[id].job
      <3>1. op[o].meta = content[id].active /\ Live(o)
        BY <1>1, <2>1, RepliesEnd DEF Live
      <3>2. op[o].meta # NoMeta
        BY <1>1, <3>1, Nothing DEF Inv, OpsNumbered
      <3>3. o \in OwnOps(id)
        BY <1>1, <3>1, <3>2 DEF Inv, Remembered, OwnOps
      <3>4. QED
        BY <1>1, <3>1, <3>3 DEF Inv, Remembered
    <2>2. QED
      BY <2>1
  <1>2. QED
    BY <1>1, TabsInvariant, PTL DEF Spec, AnswersOwnTab
=============================================================================
