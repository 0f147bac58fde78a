-------------------------------- MODULE Browser --------------------------------
(***************************************************************************)
(* What the PostgreSQL session tells the grid of a relation and of its     *)
(* rows (internal/postgres/browser.go): Describe finds the columns, the    *)
(* key that identifies rows and what the role may do; FetchPage reads      *)
(* pages after or before a cursor by the values of the key (keyset), or by *)
(* counting rows when there is no key (offset).  Other clients write rows  *)
(* between two pages.                                                      *)
(*                                                                         *)
(* Each query sees one state of the table, so a page is fetched in one     *)
(* step; TableTab models when pages are asked for and arrive, and how a    *)
(* cursor of another sort is refused.  The catalog does not change.  A     *)
(* column is its number.  The text of a value orders like the value.  A    *)
(* row of the server also has a number that nobody reads, for rows without *)
(* a key may be alike.  Left out: failing queries, inheritance, and the    *)
(* formats of cells and of encoded cursors.                                *)
(***************************************************************************)
EXTENDS Integers, Sequences, FiniteSets, SequencesExt

CONSTANTS
  Worlds,     \* the catalogs, each with tables, the rows that may be written
              \* and how many writes there may be
  RowIds,     \* what tells the rows of the server apart
  Null,
  Limit       \* DefaultPageSize

Columns ==
  [nullable : BOOLEAN, hasDefault : BOOLEAN, generated : BOOLEAN,
   identity : BOOLEAN, canSelect : BOOLEAN, canInsert : BOOLEAN,
   canUpdate : BOOLEAN, sortable : BOOLEAN]
Indexes == [primary : BOOLEAN, usable : BOOLEAN, columns : Seq(Nat)]
Kinds == {"table", "partitioned", "view", "materialized", "foreign"}
Values == Int \cup {Null}
Absent == <<>>

\* The indexes are the unique ones in the order of their names; one is usable
\* if it is valid, over all rows and over columns alone.  system: the role may
\* read the system columns, that is, it may read the whole table.
Catalogs ==
  {c \in [kind : Kinds, columns : Seq(Columns), indexes : Seq(Indexes),
          canDelete : BOOLEAN, system : BOOLEAN] :
     \A i \in DOMAIN c.indexes : Range(c.indexes[i].columns) \subseteq DOMAIN c.columns}

BrowserAssumption ==
  /\ Null \notin Int
  /\ Limit \in Nat \ {0} /\ IsFiniteSet(RowIds)
  /\ \A w \in Worlds :
       /\ w.catalog \in Catalogs
       /\ w.writes \in Nat
       /\ \A row \in w.rows : /\ DOMAIN row = DOMAIN w.catalog.columns
                               /\ \A c \in DOMAIN row : row[c] \in Values
       /\ \A t \in w.tables : DOMAIN t = RowIds /\ \A r \in RowIds : t[r] \in w.rows \cup {Absent}
ASSUME BrowserAssumption

VARIABLES
  world,      \* the catalog and what may be in the table; it never changes
  table,      \* the rows of the server
  writes,     \* how many writes there were
  relation,   \* what Describe returned
  page,       \* the page the grid shows
  request,    \* what was asked for to get it
  walk        \* history: the pages in one direction before this one, see Walk

vars == <<world, table, writes, relation, page, request, walk>>

catalog == world.catalog
-----------------------------------------------------------------------------
(* Describe.                                                               *)

Required(column) ==
  /\ ~column.nullable /\ ~column.hasDefault
  /\ ~column.generated /\ ~column.identity

\* The columns for a grid: what the server computes cannot be written.
Writable(column) == ~column.generated /\ ~column.identity
MutationColumns(cat) ==
  [c \in DOMAIN cat.columns |->
     [cat.columns[c] EXCEPT !.canInsert = @ /\ Writable(cat.columns[c]),
                            !.canUpdate = @ /\ Writable(cat.columns[c])]]
Readable(cat) == {c \in DOMAIN cat.columns : cat.columns[c].canSelect}

\* identityMetadataQuery: the primary key first, then the fewest columns, then
\* the name; none of the columns may be null.
Keys(cat) ==
  {i \in DOMAIN cat.indexes :
     /\ cat.indexes[i].usable
     /\ \A c \in Range(cat.indexes[i].columns) : ~cat.columns[c].nullable}
Preferred(cat, i, j) ==
  LET a == cat.indexes[i]
      b == cat.indexes[j]
  IN \/ a.primary /\ ~b.primary
     \/ /\ a.primary = b.primary
        /\ \/ Len(a.columns) < Len(b.columns)
           \/ Len(a.columns) = Len(b.columns) /\ i <= j
IdentityOf(cat) ==
  IF Keys(cat) = {} THEN <<>>
  ELSE cat.indexes[CHOOSE i \in Keys(cat) : \A j \in Keys(cat) : Preferred(cat, i, j)].columns

\* A key of which a part cannot be read is not replaced by another one.
ReadableIdentity(cat) ==
  IF Range(IdentityOf(cat)) \subseteq Readable(cat) THEN IdentityOf(cat) ELSE <<>>

IsTable(cat) == cat.kind \in {"table", "partitioned"}
RequiredMayBeHidden(columns) ==
  \A c \in DOMAIN columns : Required(columns[c]) => columns[c].canInsert
EveryRequiredEntered(columns) ==
  \A c \in DOMAIN columns :
    Required(columns[c]) => columns[c].canInsert /\ columns[c].canSelect

NoRelation == [described |-> FALSE]
Described(cat) ==
  LET columns  == MutationColumns(cat)
      identity == ReadableIdentity(cat)
      editable == identity # <<>> /\ IsTable(cat)
  IN [described |-> TRUE,
      columns |-> columns,
      readable |-> Readable(cat),
      hasXMin |-> IsTable(cat),
      identity |-> identity,
      bestEffort |-> identity = <<>>,
      canInsert |-> /\ editable
                    /\ \E c \in DOMAIN columns : cat.columns[c].canInsert
                    /\ EveryRequiredEntered(columns),
      canUpdate |-> editable /\ \E c \in Readable(cat) : columns[c].canUpdate,
      canDelete |-> editable /\ cat.canDelete]

\* A relation of which nothing can be read is an error.
Describe ==
  /\ relation' = IF Readable(catalog) = {} THEN NoRelation ELSE Described(catalog)
  /\ UNCHANGED <<world, table, writes, page, request, walk>>

\* columnWritable of the grid, for a row to insert and for a row of a page.
Enterable(rel) ==
  {c \in rel.readable : rel.canInsert /\ Writable(rel.columns[c]) /\ rel.columns[c].canInsert}
Updatable(rel) ==
  {c \in rel.readable : rel.canUpdate /\ Writable(rel.columns[c]) /\ rel.columns[c].canUpdate}
-----------------------------------------------------------------------------
(* The order of rows and cursors into it.                                  *)

NoSort == [column |-> 0, ascending |-> FALSE]
Sorts(rel) ==
  {NoSort} \cup {[column |-> c, ascending |-> up] :
                   c \in {d \in rel.readable : rel.columns[d].sortable}, up \in BOOLEAN}

SortTerm(sort) == IF sort = NoSort THEN <<>> ELSE <<sort>>
Ascending(columns) == [i \in DOMAIN columns |-> [column |-> columns[i], ascending |-> TRUE]]
\* Of some columns those in S, in their order.
Among(columns, S) ==
  LET among[i \in 0..Len(columns)] ==
        IF i = 0 THEN <<>>
        ELSE IF columns[i] \in S THEN Append(among[i - 1], columns[i]) ELSE among[i - 1]
  IN among[Len(columns)]
Other(columns, sort) == Among(columns, Range(columns) \ {sort.column})

EffectiveOrder(rel, sort) == SortTerm(sort) \o Ascending(Other(rel.identity, sort))

AllReadable(rel) == Among([c \in DOMAIN rel.columns |-> c], rel.readable)
BestEffortOrder(rel, sort) == SortTerm(sort) \o Ascending(Other(AllReadable(rel), sort))

OrderOf(rel, sort) ==
  IF rel.bestEffort THEN BestEffortOrder(rel, sort) ELSE EffectiveOrder(rel, sort)

\* orderSuffix: ascending with nulls last, or descending with nulls first.
ValuePrecedes(ascending, a, b) ==
  IF ascending THEN a # Null /\ (b = Null \/ a < b)
               ELSE b # Null /\ (a = Null \/ b < a)
Alike(terms, n, a, b) == \A i \in 1..n : a[terms[i].column] = b[terms[i].column]
Precedes(terms, a, b) ==
  \E i \in 1..Len(terms) :
    /\ Alike(terms, i - 1, a, b)
    /\ ValuePrecedes(terms[i].ascending, a[terms[i].column], b[terms[i].column])
Reversed(terms) ==
  [i \in DOMAIN terms |-> [terms[i] EXCEPT !.ascending = ~@]]

\* A comparison with a null is not true.
Below(a, b) == a # Null /\ b # Null /\ a < b

ComparisonWithoutNulls(ascending, at, value, before) ==
  IF ascending = before
    THEN IF at = Null THEN value # Null ELSE Below(value, at)
    ELSE Below(at, value)

\* cursorComparison: the value of a row against that of the cursor.
CursorComparison(ascending, at, value, before) ==
  IF ascending = before
    THEN IF at = Null THEN value # Null ELSE Below(value, at)
    ELSE at # Null /\ (Below(at, value) \/ value = Null)

SeekPredicate(terms, at, row, before) ==
  \E i \in 1..Len(terms) :
    /\ \A j \in 1..(i - 1) : row[terms[j].column] = at[j]
    /\ CursorComparison(terms[i].ascending, at[i], row[terms[i].column], before)

Shown(rel, row) == [c \in rel.readable |-> row[c]]
ValuesOf(terms, row) == [i \in 1..Len(terms) |-> row[terms[i].column]]
-----------------------------------------------------------------------------
(* Pages.                                                                  *)

Present == {r \in RowIds : table[r] # Absent}

NoCursor == [none |-> TRUE]
KeysetCursor(at) == [none |-> FALSE, values |-> at, offset |-> 0]
OffsetCursor(n) == [none |-> FALSE, values |-> <<>>, offset |-> n]

First(sort) == [direction |-> "first", sort |-> sort, cursor |-> NoCursor]
NoPage == [loaded |-> FALSE]
Page(rows, prev, next) == [loaded |-> TRUE, rows |-> rows, prev |-> prev, next |-> next]
When(condition, cursor) == IF condition THEN cursor ELSE NoCursor

\* What the server returns: the first n of some rows, in an order.  Rows that the
\* order leaves undecided look alike, so that it is the same which comes first.
Nth(rows, terms, n) ==
  CHOOSE r \in rows :
    /\ Cardinality({q \in rows : Precedes(terms, table[q], table[r])}) < n
    /\ n <= Cardinality({q \in rows : ~Precedes(terms, table[r], table[q])})
Select(rows, terms, n) ==
  LET found == Cardinality(rows)
  IN [i \in 1..(IF found < n THEN found ELSE n) |-> Shown(relation, table[Nth(rows, terms, i)])]
Cut(fetched) == IF Len(fetched) > Limit THEN SubSeq(fetched, 1, Limit) ELSE fetched

KeysetPage(req) ==
  LET terms    == EffectiveOrder(relation, req.sort)
      before   == req.direction = "previous"
      matching == IF req.direction = "first" THEN Present
                  ELSE {r \in Present : SeekPredicate(terms, req.cursor.values, table[r], before)}
      fetched  == Select(matching, IF before THEN Reversed(terms) ELSE terms, Limit + 1)
      extra    == Len(fetched) > Limit
      rows     == IF before THEN Reverse(Cut(fetched)) ELSE Cut(fetched)
      At(row)  == KeysetCursor(ValuesOf(terms, row))
      hasPrevious == req.direction = "next" \/ (before /\ extra)
      hasNext     == before \/ extra
  IN IF rows = <<>> THEN Page(rows, NoCursor, NoCursor)
     ELSE Page(rows, When(hasPrevious, At(rows[1])), When(hasNext, At(rows[Len(rows)])))

OffsetPage(req) ==
  LET offset  == IF req.direction = "first" THEN 0 ELSE req.cursor.offset
      fetched == Select(Present, BestEffortOrder(relation, req.sort), offset + Limit + 1)
      rest    == SubSeq(fetched, offset + 1, Len(fetched))
      back    == IF offset < Limit THEN 0 ELSE offset - Limit
  IN Page(Cut(rest), When(offset > 0, OffsetCursor(back)),
                     When(Len(rest) > Limit, OffsetCursor(offset + Limit)))

\* The projection of a table reads its system column xmin too.
Fetches(req) ==
  /\ relation.hasXMin => catalog.system
  /\ page' = IF relation.bestEffort THEN OffsetPage(req) ELSE KeysetPage(req)
  /\ request' = req
  /\ UNCHANGED <<world, table, writes, relation>>
-----------------------------------------------------------------------------
(* The user walks over the pages.  A walk is a run of pages in one         *)
(* direction, from the first one or from where the user turned round:      *)
(* from is the row at which that was, seen are the rows of its earlier     *)
(* pages, steady are the rows of the server that nobody has touched since  *)
(* it began, and began tells how many writes there had been for its first  *)
(* page, fetched for this page.                                            *)

NoRow == <<>>
FirstRow == IF page.rows = <<>> THEN NoRow ELSE page.rows[1]
LastRow == IF page.rows = <<>> THEN NoRow ELSE page.rows[Len(page.rows)]
NewWalk(direction, from, began) ==
  [direction |-> direction, from |-> from, seen |-> <<>>, steady |-> Present,
   began |-> began, fetched |-> writes]

FetchFirst ==
  /\ relation.described
  /\ \E sort \in Sorts(relation) :
       /\ Fetches(First(sort))
       /\ walk' = NewWalk("next", NoRow, writes)

Continue(direction, turn) ==
  walk' = IF walk.direction = direction
            THEN [walk EXCEPT !.seen = @ \o page.rows, !.fetched = writes]
            ELSE NewWalk(direction, turn, walk.fetched)

FetchNext ==
  /\ page.loaded
  /\ ~page.next.none
  /\ Fetches([direction |-> "next", sort |-> request.sort, cursor |-> page.next])
  /\ Continue("next", LastRow)

FetchPrevious ==
  /\ page.loaded
  /\ ~page.prev.none
  /\ Fetches([direction |-> "previous", sort |-> request.sort, cursor |-> page.prev])
  /\ Continue("previous", FirstRow)

\* After changes are applied, and to retry, the grid asks again for the page.
FetchAgain ==
  /\ page.loaded
  /\ Fetches(request)
  /\ walk' = [walk EXCEPT !.fetched = writes]

-----------------------------------------------------------------------------
(* Other clients insert, change and delete rows.                           *)

\* The unique indexes hold.
Legal(t) ==
  \A i \in Keys(catalog) : \A a, b \in {r \in RowIds : t[r] # Absent} :
    a # b => \E c \in Range(catalog.indexes[i].columns) : t[a][c] # t[b][c]

Write ==
  /\ writes < world.writes
  /\ \E r \in RowIds, row \in world.rows \cup {Absent} :
       /\ row # table[r]
       /\ table' = [table EXCEPT ![r] = row]
       /\ Legal(table')
       /\ walk' = [walk EXCEPT !.steady = @ \ {r}]
  /\ writes' = writes + 1
  /\ UNCHANGED <<world, relation, page, request>>
-----------------------------------------------------------------------------
Init ==
  /\ world \in Worlds
  /\ table \in world.tables
  /\ Legal(table)
  /\ writes = 0
  /\ relation = NoRelation
  /\ page = NoPage
  /\ request = First(NoSort)
  /\ walk = [direction |-> "next", from |-> NoRow, seen |-> <<>>, steady |-> {},
             began |-> 0, fetched |-> 0]

Next ==
  \/ Describe
  \/ FetchFirst \/ FetchNext \/ FetchPrevious \/ FetchAgain
  \/ Write

Spec == Init /\ [][Next]_vars
-----------------------------------------------------------------------------
\* What the server accepts: an insert with values for some columns.
ServerInserts(cat, entered) ==
  /\ \A c \in entered : cat.columns[c].canInsert /\ Writable(cat.columns[c])
  /\ \E c \in DOMAIN cat.columns : cat.columns[c].canInsert
  /\ \A c \in DOMAIN cat.columns \ entered : ~Required(cat.columns[c])

\* An update or a delete finds one row by its key and by xmin, and reads both.
ServerFinds(cat, key) ==
  /\ \E i \in DOMAIN cat.indexes : cat.indexes[i].usable /\ cat.indexes[i].columns = key
  /\ \A c \in Range(key) : ~cat.columns[c].nullable /\ cat.columns[c].canSelect
  /\ cat.system
ServerUpdates(cat, key, c) ==
  ServerFinds(cat, key) /\ cat.columns[c].canUpdate /\ Writable(cat.columns[c])

\* What Describe offers (browser.go, "CanInsert", "CanUpdate", "CanDelete") and
\* the grid then lets a user do is what the server accepts: a row with all
\* required columns entered can be inserted whatever else is entered, and they
\* can all be entered; on the rows of a page every cell that can be edited can be
\* updated, and there is one if updates are offered at all; rows can be deleted.
\* An insert that could be entered in the grid of a keyed table is offered.
OffersWhatWorks ==
  relation.described =>
    LET required == {c \in DOMAIN catalog.columns : Required(catalog.columns[c])}
    IN /\ relation.canInsert =>
            /\ required \subseteq Enterable(relation)
            /\ \A entered \in SUBSET Enterable(relation) :
                 required \subseteq entered => ServerInserts(catalog, entered)
       /\ relation.canUpdate => Updatable(relation) # {}
       /\ page.loaded =>
            /\ \A c \in Updatable(relation) : ServerUpdates(catalog, relation.identity, c)
            /\ relation.canDelete => catalog.canDelete /\ ServerFinds(catalog, relation.identity)
       /\ IsTable(catalog) /\ relation.identity # <<>> =>
            \A entered \in SUBSET relation.readable :
              ServerInserts(catalog, entered) => relation.canInsert

Count(rows, row) == Cardinality({i \in DOMAIN rows : rows[i] = row})

\* Whoever walks over the pages of a relation sees every row once: of the rows
\* that nobody touched since the walk began, those between its beginning and the
\* far end of the page have been shown exactly once, and those beyond the page
\* at most once and only if there is a cursor to go on with.  With a key this
\* holds whatever other clients write meanwhile, without one ("best-effort") only
\* while nobody writes; rows that look alike are then counted together.
WalkShowsAll ==
  page.loaded /\ (relation.bestEffort => walk.began = writes) =>
    LET terms   == OrderOf(relation, request.sort)
        forward == walk.direction = "next"
        shown   == walk.seen \o page.rows
        cursor  == IF forward THEN page.next ELSE page.prev
        end     == IF forward THEN LastRow ELSE FirstRow
        Beyond(a, b) == IF forward THEN Precedes(terms, b, a) ELSE Precedes(terms, a, b)
        InScope(row) == walk.from = NoRow \/ Beyond(row, walk.from)
        Passed(row) == cursor.none \/ (end # NoRow /\ Beyond(end, row))
    IN \A r \in walk.steady :
         LET row   == Shown(relation, table[r])
             times == Count(shown, row)
             alike == Cardinality({q \in walk.steady : Shown(relation, table[q]) = row})
         IN /\ InScope(row) => times <= alike
            /\ InScope(row) /\ Passed(row) => times = alike
            /\ ~InScope(row) /\ row # walk.from => times = 0
================================================================================
