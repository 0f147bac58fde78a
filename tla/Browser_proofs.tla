----------------------------- MODULE Browser_proofs -----------------------------
(***************************************************************************)
(* What holds of Browser for every catalog, key, sort and table: Describe  *)
(* offers what the server accepts, the seek predicate is the order of the  *)
(* page, and a walk over the pages shows every untouched row once.         *)
(***************************************************************************)
EXTENDS Browser, FiniteSetTheorems, SequenceTheorems, WellFoundedInduction, TLAPS

-----------------------------------------------------------------------------
(* The seek predicate selects exactly the rows that the order puts after,  *)
(* or before, the row whose values the cursor holds.                       *)

Terms == [column : Nat, ascending : BOOLEAN]

\* The comparison of one column, nulls included.
LEMMA ComparisonIsOrder ==
  ASSUME NEW up \in BOOLEAN, NEW at \in Values, NEW value \in Values
  PROVE  /\ CursorComparison(up, at, value, FALSE) <=> ValuePrecedes(up, at, value)
         /\ CursorComparison(up, at, value, TRUE) <=> ValuePrecedes(up, value, at)
<1>1. Null \notin Int
  BY BrowserAssumption DEF BrowserAssumption
<1>2. CASE up = TRUE
  BY <1>1, <1>2 DEF CursorComparison, ValuePrecedes, Below, Values
<1>3. CASE up = FALSE
  BY <1>1, <1>3 DEF CursorComparison, ValuePrecedes, Below, Values
<1>. QED
  BY <1>2, <1>3

LEMMA LeastNumber ==
  ASSUME NEW T, T \subseteq Nat, T # {}
  PROVE  \E x \in T : \A y \in T : x <= y
<1>. DEFINE R == OpToRel(<, Nat)
<1>1. IsWellFoundedOn(R, Nat)
  BY NatLessThanWellFounded
<1>2. \A x, y \in Nat : <<y, x>> \in R <=> y < x
  BY DEF OpToRel
<1>. HIDE DEF R
<1>3. PICK x \in T : \A y \in T : ~(<<y, x>> \in R)
  BY <1>1, WFMin
<1>4. ASSUME NEW y \in T PROVE x <= y
  <2>1. x \in Nat /\ y \in Nat
    OBVIOUS
  <2>2. ~(y < x)
    BY <1>2, <1>3, <2>1
  <2>. QED
    BY <2>1, <2>2
<1>. QED
  BY <1>4

\* The same for rows: whatever the terms, a cursor taken from row a selects b
\* when going on if a precedes b, and when going back if b precedes a.
THEOREM SeekIsOrder ==
  ASSUME NEW terms \in Seq(Terms), NEW a, NEW b,
         \A i \in 1..Len(terms) : a[terms[i].column] \in Values /\ b[terms[i].column] \in Values
  PROVE  /\ SeekPredicate(terms, ValuesOf(terms, a), b, FALSE) <=> Precedes(terms, a, b)
         /\ SeekPredicate(terms, ValuesOf(terms, a), b, TRUE) <=> Precedes(terms, b, a)
<1>. DEFINE at == ValuesOf(terms, a)
<1>1. \A i \in 1..Len(terms) : at[i] = a[terms[i].column]
  BY DEF ValuesOf
<1>. \A i \in 1..Len(terms) : terms[i] \in Terms
  OBVIOUS
<1>2. \A i \in 1..Len(terms) : terms[i].ascending \in BOOLEAN
  BY DEF Terms
<1>3. \A i \in 1..Len(terms) : \A j \in 1..(i - 1) : j \in 1..Len(terms)
  OBVIOUS
<1>4. \A i \in 1..Len(terms) :
        /\ (\A j \in 1..(i - 1) : b[terms[j].column] = at[j]) <=> Alike(terms, i - 1, a, b)
        /\ (\A j \in 1..(i - 1) : b[terms[j].column] = at[j]) <=> Alike(terms, i - 1, b, a)
  BY <1>1, <1>3 DEF Alike
<1>5. \A i \in 1..Len(terms) :
        LET c == terms[i].column
        IN /\ CursorComparison(terms[i].ascending, at[i], b[c], FALSE)
                <=> ValuePrecedes(terms[i].ascending, a[c], b[c])
           /\ CursorComparison(terms[i].ascending, at[i], b[c], TRUE)
                <=> ValuePrecedes(terms[i].ascending, b[c], a[c])
  BY <1>1, <1>2, ComparisonIsOrder
<1>. HIDE DEF at
<1>6. SeekPredicate(terms, at, b, FALSE) <=> Precedes(terms, a, b)
  BY <1>4, <1>5 DEF SeekPredicate, Precedes
<1>7. SeekPredicate(terms, at, b, TRUE) <=> Precedes(terms, b, a)
  BY <1>4, <1>5 DEF SeekPredicate, Precedes
<1>. QED
  BY <1>6, <1>7 DEF at

\* The order a previous page is fetched in is the order of pages, backwards.
LEMMA ReversedIsBackwards ==
  ASSUME NEW terms \in Seq(Terms), NEW a, NEW b,
         \A i \in 1..Len(terms) : a[terms[i].column] \in Values /\ b[terms[i].column] \in Values
  PROVE  Precedes(Reversed(terms), a, b) <=> Precedes(terms, b, a)
<1>. DEFINE back == Reversed(terms)
<1>1. DOMAIN terms = 1..Len(terms) /\ Len(terms) \in Nat
  OBVIOUS
<1>2. back = [i \in 1..Len(terms) |-> [terms[i] EXCEPT !.ascending = ~@]]
  BY <1>1 DEF Reversed
<1>3. Len(back) = Len(terms)
  BY <1>1, <1>2
<1>4. \A i \in 1..Len(terms) : terms[i] \in Terms
  OBVIOUS
<1>5. \A i \in 1..Len(terms) :
        back[i].column = terms[i].column /\ back[i].ascending = ~terms[i].ascending
  BY <1>2, <1>4 DEF Terms
<1>. HIDE DEF back
<1>6. \A i \in 1..Len(terms) : Alike(back, i - 1, a, b) <=> Alike(terms, i - 1, b, a)
  BY <1>5 DEF Alike
<1>7. \A up \in BOOLEAN, x, y \in Values : ValuePrecedes(~up, x, y) <=> ValuePrecedes(up, y, x)
  BY DEF ValuePrecedes
<1>8. \A i \in 1..Len(terms) : terms[i].ascending \in BOOLEAN
  BY <1>4 DEF Terms
<1>9. \A i \in 1..Len(terms) :
        ValuePrecedes(back[i].ascending, a[back[i].column], b[back[i].column])
          <=> ValuePrecedes(terms[i].ascending, b[terms[i].column], a[terms[i].column])
  BY <1>5, <1>7, <1>8
<1>10. Precedes(back, a, b) <=> Precedes(terms, b, a)
  BY <1>3, <1>6, <1>9 DEF Precedes
<1>. QED
  BY <1>10 DEF back

\* Rows that differ in a term are in one order or the other, never in both.
LEMMA OrderIsTotal ==
  ASSUME NEW terms \in Seq(Terms), NEW a, NEW b,
         \A i \in 1..Len(terms) : a[terms[i].column] \in Values /\ b[terms[i].column] \in Values,
         ~Alike(terms, Len(terms), a, b)
  PROVE  /\ Precedes(terms, a, b) \/ Precedes(terms, b, a)
         /\ ~(Precedes(terms, a, b) /\ Precedes(terms, b, a))
<1>. DEFINE Differs(i) == a[terms[i].column] # b[terms[i].column]
            Ds == {i \in 1..Len(terms) : Differs(i)}
<1>1. Len(terms) \in Nat /\ \A i \in 1..Len(terms) : terms[i] \in Terms
  OBVIOUS
<1>2. Ds \subseteq Nat /\ Ds # {}
  BY <1>1 DEF Alike
<1>3. PICK n \in Ds : \A i \in Ds : n <= i
  BY <1>2, LeastNumber
<1>4. \A up \in BOOLEAN, x, y \in Values :
        /\ x # y => ValuePrecedes(up, x, y) \/ ValuePrecedes(up, y, x)
        /\ ~(ValuePrecedes(up, x, y) /\ ValuePrecedes(up, y, x))
        /\ ~ValuePrecedes(up, x, x)
  <2>1. Null \notin Int
    BY BrowserAssumption DEF BrowserAssumption
  <2>. QED
    BY <2>1 DEF ValuePrecedes, Values
<1>5. n \in 1..Len(terms) /\ terms[n].ascending \in BOOLEAN
  BY <1>1 DEF Terms
<1>6. \A i \in 1..(n - 1) : a[terms[i].column] = b[terms[i].column]
  <2>. SUFFICES ASSUME NEW i \in 1..(n - 1), Differs(i) PROVE FALSE
    OBVIOUS
  <2>1. i \in Ds /\ ~(n <= i)
    BY <1>1, <1>5
  <2>. QED
    BY <2>1, <1>3
<1>7. Alike(terms, n - 1, a, b) /\ Alike(terms, n - 1, b, a)
  BY <1>6 DEF Alike
<1>8. Precedes(terms, a, b) \/ Precedes(terms, b, a)
  BY <1>4, <1>5, <1>7 DEF Precedes
<1>. DEFINE Decides(i, x, y) ==
              /\ Alike(terms, i - 1, x, y)
              /\ ValuePrecedes(terms[i].ascending, x[terms[i].column], y[terms[i].column])
<1>9. ASSUME NEW i \in 1..Len(terms), Decides(i, a, b) \/ Decides(i, b, a)
      PROVE  i = n
  <2>1. a[terms[i].column] \in Values /\ b[terms[i].column] \in Values
        /\ terms[i].ascending \in BOOLEAN
    BY <1>1 DEF Terms
  <2>2. i \in Ds
    BY <1>4, <1>9, <2>1
  <2>3. ~(n <= i - 1)
    BY <1>5, <1>9 DEF Alike
  <2>. QED
    BY <1>1, <1>3, <1>5, <2>2, <2>3
<1>10. ~(Precedes(terms, a, b) /\ Precedes(terms, b, a))
  <2>. SUFFICES ASSUME Precedes(terms, a, b), Precedes(terms, b, a) PROVE FALSE
    OBVIOUS
  <2>1. ValuePrecedes(terms[n].ascending, a[terms[n].column], b[terms[n].column])
    <3>1. PICK i \in 1..Len(terms) : Decides(i, a, b)
      BY DEF Precedes
    <3>2. i = n
      BY <1>9, <3>1
    <3>. QED
      BY <3>1, <3>2
  <2>2. ValuePrecedes(terms[n].ascending, b[terms[n].column], a[terms[n].column])
    <3>1. PICK i \in 1..Len(terms) : Decides(i, b, a)
      BY DEF Precedes
    <3>2. i = n
      BY <1>9, <3>1
    <3>. QED
      BY <3>1, <3>2
  <2>. QED
    BY <1>4, <1>5, <2>1, <2>2
<1>. QED
  BY <1>8, <1>10

-----------------------------------------------------------------------------
(* What Describe offers.                                                   *)

\* There is a preferred key if there is one at all.
LEMMA PreferredKey ==
  ASSUME NEW cat \in Catalogs, Keys(cat) # {}
  PROVE  \E i \in Keys(cat) : \A j \in Keys(cat) : Preferred(cat, i, j)
<1>. DEFINE P == {i \in Keys(cat) : cat.indexes[i].primary}
            K == IF P = {} THEN Keys(cat) ELSE P
            L == {Len(cat.indexes[i].columns) : i \in K}
<1>1. /\ Keys(cat) \subseteq Nat
      /\ \A i \in Keys(cat) : /\ cat.indexes[i].primary \in BOOLEAN
                             /\ Len(cat.indexes[i].columns) \in Nat
  <2>1. cat.indexes \in Seq(Indexes)
    BY DEF Catalogs
  <2>2. \A i \in Keys(cat) : i \in Nat /\ cat.indexes[i] \in Indexes
    BY <2>1 DEF Keys
  <2>. QED
    BY <2>2 DEF Indexes
<1>2. K \subseteq Keys(cat) /\ K # {}
  OBVIOUS
<1>3. L \subseteq Nat /\ L # {}
  BY <1>1, <1>2
<1>4. PICK l \in L : \A m \in L : l <= m
  BY <1>3, LeastNumber
<1>. DEFINE M == {i \in K : Len(cat.indexes[i].columns) = l}
<1>5. M \subseteq Nat /\ M # {}
  BY <1>1, <1>2
<1>6. PICK i \in M : \A j \in M : i <= j
  BY <1>5, LeastNumber
<1>7. ASSUME NEW j \in Keys(cat) PROVE Preferred(cat, i, j)
  <2>1. CASE j \notin K
    <3>1. cat.indexes[i].primary /\ ~cat.indexes[j].primary
      BY <2>1
    <3>. QED
      BY <3>1 DEF Preferred
  <2>2. CASE j \in K
    <3>1. cat.indexes[i].primary = cat.indexes[j].primary
      BY <1>1, <1>2, <2>2
    <3>2. /\ Len(cat.indexes[i].columns) = l
          /\ l <= Len(cat.indexes[j].columns)
          /\ Len(cat.indexes[j].columns) \in Nat /\ l \in Nat
      BY <1>1, <1>3, <1>4, <2>2
    <3>3. Len(cat.indexes[j].columns) = l => i <= j
      BY <1>6, <2>2
    <3>. QED
      BY <3>1, <3>2, <3>3 DEF Preferred
  <2>. QED
    BY <2>1, <2>2
<1>. QED
  BY <1>2, <1>7

LEMMA IdentityIsKey ==
  ASSUME NEW cat \in Catalogs, ReadableIdentity(cat) # <<>>
  PROVE  /\ \E i \in DOMAIN cat.indexes :
              cat.indexes[i].usable /\ cat.indexes[i].columns = ReadableIdentity(cat)
         /\ \A c \in Range(ReadableIdentity(cat)) :
              ~cat.columns[c].nullable /\ cat.columns[c].canSelect
<1>1. /\ ReadableIdentity(cat) = IdentityOf(cat)
      /\ Range(IdentityOf(cat)) \subseteq Readable(cat)
  BY DEF ReadableIdentity
<1>2. Keys(cat) # {}
  BY <1>1 DEF IdentityOf
<1>3. PICK i \in Keys(cat) : IdentityOf(cat) = cat.indexes[i].columns
  BY <1>2, PreferredKey DEF IdentityOf
<1>4. /\ i \in DOMAIN cat.indexes /\ cat.indexes[i].usable
      /\ \A c \in Range(cat.indexes[i].columns) : ~cat.columns[c].nullable
  BY DEF Keys
<1>. QED
  BY <1>1, <1>3, <1>4 DEF Readable

\* The parts of a description, and of its columns.
LEMMA DescribedParts ==
  ASSUME NEW cat \in Catalogs
  PROVE  LET rel == Described(cat)
         IN /\ rel.described
            /\ rel.columns = MutationColumns(cat)
            /\ rel.readable = Readable(cat)
            /\ rel.hasXMin = IsTable(cat)
            /\ rel.identity = ReadableIdentity(cat)
            /\ rel.canInsert <=> /\ ReadableIdentity(cat) # <<>> /\ IsTable(cat)
                                /\ \E c \in DOMAIN cat.columns : cat.columns[c].canInsert
                                /\ EveryRequiredEntered(MutationColumns(cat))
            /\ rel.canUpdate <=> /\ ReadableIdentity(cat) # <<>> /\ IsTable(cat)
                                /\ \E c \in Readable(cat) : MutationColumns(cat)[c].canUpdate
            /\ rel.canDelete <=> /\ ReadableIdentity(cat) # <<>> /\ IsTable(cat)
                                /\ cat.canDelete
<1>1. DOMAIN MutationColumns(cat) = DOMAIN cat.columns
  BY DEF MutationColumns
<1>2. cat.canDelete \in BOOLEAN
  BY DEF Catalogs
<1>. QED
  BY <1>1, <1>2 DEF Described

LEMMA MutationColumnParts ==
  ASSUME NEW cat \in Catalogs, NEW c \in DOMAIN cat.columns
  PROVE  LET column == MutationColumns(cat)[c]
             raw    == cat.columns[c]
         IN /\ column.canInsert <=> raw.canInsert /\ Writable(raw)
            /\ column.canUpdate <=> raw.canUpdate /\ Writable(raw)
            /\ column.canSelect <=> raw.canSelect
            /\ Writable(column) <=> Writable(raw)
            /\ Required(column) <=> Required(raw)
<1>1. cat.columns[c] \in Columns
  BY DEF Catalogs
<1>2. MutationColumns(cat)[c] =
        [cat.columns[c] EXCEPT !.canInsert = @ /\ Writable(cat.columns[c]),
                               !.canUpdate = @ /\ Writable(cat.columns[c])]
  BY DEF MutationColumns
<1>. QED
  BY <1>1, <1>2 DEF Columns, Writable, Required

RequiredOf(cat) == {c \in DOMAIN cat.columns : Required(cat.columns[c])}

\* What may be entered is what the role may insert and read.
LEMMA EnterableParts ==
  ASSUME NEW cat \in Catalogs, NEW c \in DOMAIN cat.columns
  PROVE  /\ c \in Enterable(Described(cat)) <=>
               /\ Described(cat).canInsert /\ cat.columns[c].canSelect
               /\ cat.columns[c].canInsert /\ Writable(cat.columns[c])
         /\ c \in Updatable(Described(cat)) <=>
               /\ Described(cat).canUpdate /\ cat.columns[c].canSelect
               /\ cat.columns[c].canUpdate /\ Writable(cat.columns[c])
<1>1. c \in Readable(cat) <=> cat.columns[c].canSelect
  BY DEF Readable
<1>. QED
  BY <1>1, DescribedParts, MutationColumnParts DEF Enterable, Updatable

LEMMA EveryRequiredParts ==
  ASSUME NEW cat \in Catalogs
  PROVE  EveryRequiredEntered(MutationColumns(cat)) <=>
           \A c \in RequiredOf(cat) : /\ cat.columns[c].canInsert /\ Writable(cat.columns[c])
                                     /\ cat.columns[c].canSelect
<1>1. DOMAIN MutationColumns(cat) = DOMAIN cat.columns
  BY DEF MutationColumns
<1>. QED
  BY <1>1, MutationColumnParts DEF EveryRequiredEntered, RequiredOf

LEMMA InsertsWork ==
  ASSUME NEW cat \in Catalogs
  PROVE  LET rel == Described(cat)
         IN /\ rel.canInsert =>
                 /\ RequiredOf(cat) \subseteq Enterable(rel)
                 /\ \A entered \in SUBSET Enterable(rel) :
                      RequiredOf(cat) \subseteq entered => ServerInserts(cat, entered)
            /\ IsTable(cat) /\ rel.identity # <<>> =>
                 \A entered \in SUBSET rel.readable :
                   ServerInserts(cat, entered) => rel.canInsert
<1>. DEFINE rel == Described(cat)
<1>1. ASSUME rel.canInsert
      PROVE  RequiredOf(cat) \subseteq Enterable(rel)
  <2>1. RequiredOf(cat) \subseteq DOMAIN cat.columns
    BY DEF RequiredOf
  <2>2. EveryRequiredEntered(MutationColumns(cat))
    BY <1>1, DescribedParts
  <2>. QED
    BY <1>1, <2>1, <2>2, EveryRequiredParts, EnterableParts
<1>2. ASSUME rel.canInsert, NEW entered \in SUBSET Enterable(rel), RequiredOf(cat) \subseteq entered
      PROVE  ServerInserts(cat, entered)
  <2>1. Enterable(rel) \subseteq DOMAIN cat.columns
    BY DescribedParts DEF Enterable, Readable
  <2>2. \A c \in entered : cat.columns[c].canInsert /\ Writable(cat.columns[c])
    BY <2>1, EnterableParts
  <2>3. \E c \in DOMAIN cat.columns : cat.columns[c].canInsert
    BY <1>2, DescribedParts
  <2>4. \A c \in DOMAIN cat.columns \ entered : ~Required(cat.columns[c])
    BY <1>2 DEF RequiredOf
  <2>. QED
    BY <2>2, <2>3, <2>4 DEF ServerInserts
<1>3. ASSUME IsTable(cat), rel.identity # <<>>,
             NEW entered \in SUBSET rel.readable, ServerInserts(cat, entered)
      PROVE  rel.canInsert
  <2>1. entered \subseteq Readable(cat) /\ ReadableIdentity(cat) # <<>>
    BY <1>3, DescribedParts
  <2>2. \A c \in RequiredOf(cat) : c \in entered
    BY <1>3 DEF ServerInserts, RequiredOf
  <2>3. \A c \in RequiredOf(cat) : /\ cat.columns[c].canInsert /\ Writable(cat.columns[c])
                                   /\ cat.columns[c].canSelect
    BY <1>3, <2>1, <2>2 DEF ServerInserts, Readable
  <2>4. EveryRequiredEntered(MutationColumns(cat))
    BY <2>3, EveryRequiredParts
  <2>5. \E c \in DOMAIN cat.columns : cat.columns[c].canInsert
    BY <1>3 DEF ServerInserts
  <2>. QED
    BY <1>3, <2>1, <2>4, <2>5, DescribedParts
<1>. QED
  BY <1>1, <1>2, <1>3

\* Updates and deletes find their row if the system columns can be read.
LEMMA UpdatesWork ==
  ASSUME NEW cat \in Catalogs, IsTable(cat) => cat.system
  PROVE  LET rel == Described(cat)
         IN /\ \A c \in Updatable(rel) : ServerUpdates(cat, rel.identity, c)
            /\ rel.canDelete => cat.canDelete /\ ServerFinds(cat, rel.identity)
<1>. DEFINE rel == Described(cat)
<1>1. ASSUME rel.canUpdate \/ rel.canDelete
      PROVE  ServerFinds(cat, rel.identity)
  <2>1. /\ IsTable(cat) /\ ReadableIdentity(cat) # <<>>
        /\ rel.identity = ReadableIdentity(cat)
    BY <1>1, DescribedParts
  <2>. QED
    BY <2>1, IdentityIsKey DEF ServerFinds
<1>2. ASSUME NEW c \in Updatable(rel)
      PROVE  ServerUpdates(cat, rel.identity, c)
  <2>1. c \in DOMAIN cat.columns
    BY DescribedParts DEF Updatable, Readable
  <2>2. rel.canUpdate /\ cat.columns[c].canUpdate /\ Writable(cat.columns[c])
    BY <2>1, EnterableParts
  <2>. QED
    BY <1>1, <2>2 DEF ServerUpdates
<1>3. rel.canDelete => cat.canDelete
  BY DescribedParts
<1>. QED
  BY <1>1, <1>2, <1>3

LEMMA UpdatesOffered ==
  ASSUME NEW cat \in Catalogs, Described(cat).canUpdate
  PROVE  Updatable(Described(cat)) # {}
<1>1. PICK c \in Readable(cat) : MutationColumns(cat)[c].canUpdate
  BY DescribedParts
<1>2. c \in DOMAIN cat.columns /\ cat.columns[c].canSelect
  BY DEF Readable
<1>3. c \in Updatable(Described(cat))
  BY <1>1, <1>2, MutationColumnParts, EnterableParts
<1>. QED
  BY <1>3
-----------------------------------------------------------------------------
\* The relation is as the catalog describes it, and a page of a table is only
\* fetched by who may read the system columns.
Inv ==
  /\ world \in Worlds
  /\ \/ relation = NoRelation
     \/ Readable(catalog) # {} /\ relation = Described(catalog)
  /\ page.loaded => /\ relation = Described(catalog)
                    /\ Readable(catalog) # {}
                    /\ IsTable(catalog) => catalog.system

LEMMA CatalogType == Inv => catalog \in Catalogs
BY BrowserAssumption DEF Inv, catalog, BrowserAssumption

\* A page is fetched of a described relation with something to read.
LEMMA NotDescribed == ~NoRelation.described
BY DEF NoRelation

LEMMA InvHolds == Spec => []Inv
<1>1. Init => Inv
  BY DEF Init, Inv, NoPage
<1>2. Inv /\ [Next]_vars => Inv'
  <2>. SUFFICES ASSUME Inv, [Next]_vars PROVE Inv'
    OBVIOUS
  <2>0. catalog \in Catalogs
    BY CatalogType
  <2>1. CASE Describe
    <3>1. /\ world' = world /\ page' = page
          /\ relation' = IF Readable(catalog) = {} THEN NoRelation ELSE Described(catalog)
      BY <2>1 DEF Describe
    <3>. QED
      BY <3>1 DEF Inv, catalog
  <2>2. ASSUME NEW req, Fetches(req), relation.described
        PROVE  Inv'
    <3>1. /\ world' = world /\ relation' = relation
          /\ relation.hasXMin => catalog.system
      BY <2>2 DEF Fetches
    <3>2. Readable(catalog) # {} /\ relation = Described(catalog)
      BY <2>2, NotDescribed DEF Inv
    <3>3. IsTable(catalog) => catalog.system
      BY <2>0, <3>1, <3>2, DescribedParts
    <3>. QED
      BY <3>1, <3>2, <3>3 DEF Inv, catalog
  <2>3. CASE Write
    BY <2>3 DEF Write, Inv, catalog
  <2>4. CASE UNCHANGED vars
    BY <2>4 DEF vars, Inv, catalog
  <2>5. page.loaded => relation.described
    BY <2>0, DescribedParts DEF Inv
  <2>6. CASE FetchFirst
    BY <2>2, <2>6 DEF FetchFirst
  <2>7. CASE FetchNext
    BY <2>2, <2>5, <2>7 DEF FetchNext
  <2>8. CASE FetchPrevious
    BY <2>2, <2>5, <2>8 DEF FetchPrevious
  <2>9. CASE FetchAgain
    BY <2>2, <2>5, <2>9 DEF FetchAgain
  <2>. QED
    BY <2>1, <2>3, <2>4, <2>6, <2>7, <2>8, <2>9 DEF Next
<1>. QED
  BY <1>1, <1>2, PTL DEF Spec

\* Describe offers what the server accepts, for every catalog.
THEOREM Offers == Spec => []OffersWhatWorks
<1>1. Inv => OffersWhatWorks
  <2>. SUFFICES ASSUME Inv, relation.described PROVE OffersWhatWorks
    BY DEF OffersWhatWorks
  <2>1. catalog \in Catalogs /\ relation = Described(catalog)
    BY CatalogType, NotDescribed DEF Inv
  <2>2. page.loaded => (IsTable(catalog) => catalog.system)
    BY DEF Inv
  <2>. QED
    BY <2>1, <2>2, InsertsWork, UpdatesWork, UpdatesOffered DEF OffersWhatWorks, RequiredOf
<1>. QED
  BY <1>1, InvHolds, PTL

-----------------------------------------------------------------------------
(* The order of rows is a strict weak order.                               *)

Typed(terms, a) == \A i \in 1..Len(terms) : a[terms[i].column] \in Values
Decides(terms, i, a, b) ==
  /\ Alike(terms, i - 1, a, b)
  /\ ValuePrecedes(terms[i].ascending, a[terms[i].column], b[terms[i].column])

LEMMA TermTypes ==
  ASSUME NEW terms \in Seq(Terms)
  PROVE  /\ Len(terms) \in Nat
         /\ \A i \in 1..Len(terms) : terms[i].ascending \in BOOLEAN /\ terms[i].column \in Nat
<1>1. \A i \in 1..Len(terms) : terms[i] \in Terms
  OBVIOUS
<1>. QED
  BY <1>1 DEF Terms

\* The order of values, nulls included.
LEMMA ValueOrder ==
  ASSUME NEW up \in BOOLEAN, NEW x \in Values, NEW y \in Values, NEW z \in Values
  PROVE  /\ x # y => ValuePrecedes(up, x, y) \/ ValuePrecedes(up, y, x)
         /\ ~(ValuePrecedes(up, x, y) /\ ValuePrecedes(up, y, x))
         /\ ~ValuePrecedes(up, x, x)
         /\ ValuePrecedes(up, x, z) => ValuePrecedes(up, x, y) \/ ValuePrecedes(up, y, z)
<1>1. Null \notin Int
  BY BrowserAssumption DEF BrowserAssumption
<1>2. CASE up = TRUE
  BY <1>1, <1>2 DEF ValuePrecedes, Values
<1>3. CASE up = FALSE
  BY <1>1, <1>3 DEF ValuePrecedes, Values
<1>. QED
  BY <1>2, <1>3

LEMMA Irreflexive ==
  ASSUME NEW terms \in Seq(Terms), NEW a, Typed(terms, a)
  PROVE  ~Precedes(terms, a, a)
<1>1. \A i \in 1..Len(terms) : terms[i].ascending \in BOOLEAN
  BY TermTypes
<1>. QED
  BY <1>1, ValueOrder DEF Precedes, Typed

LEMMA Asymmetric ==
  ASSUME NEW terms \in Seq(Terms), NEW a, NEW b, Typed(terms, a), Typed(terms, b),
         Precedes(terms, a, b)
  PROVE  ~Precedes(terms, b, a)
<1>1. \A i \in 1..Len(terms) : terms[i].ascending \in BOOLEAN
  BY TermTypes
<1>2. ~Alike(terms, Len(terms), a, b)
  BY <1>1, ValueOrder DEF Precedes, Typed, Alike
<1>. QED
  BY <1>2, OrderIsTotal DEF Typed

\* A row that is between neither is tied with one of two that are in order.
LEMMA Between ==
  ASSUME NEW terms \in Seq(Terms), NEW a, NEW b, NEW c,
         Typed(terms, a), Typed(terms, b), Typed(terms, c), Precedes(terms, a, c)
  PROVE  Precedes(terms, a, b) \/ Precedes(terms, b, c)
<1>0. Len(terms) \in Nat /\ \A i \in 1..Len(terms) : terms[i].ascending \in BOOLEAN
  BY TermTypes
<1>1. PICK i \in 1..Len(terms) : Decides(terms, i, a, c)
  BY DEF Precedes, Decides
<1>. DEFINE At(x, j) == x[terms[j].column]
            D == {j \in 1..Len(terms) : At(a, j) # At(b, j) \/ At(b, j) # At(c, j)}
<1>2. At(a, i) # At(c, i)
  BY <1>0, <1>1, ValueOrder DEF Decides, Typed
<1>3. D \subseteq Nat /\ i \in D
  BY <1>0, <1>2
<1>4. PICK m \in D : \A j \in D : m <= j
  BY <1>3, LeastNumber
<1>5. m \in 1..Len(terms) /\ m <= i
  BY <1>3, <1>4
<1>6. \A j \in 1..(m - 1) : At(a, j) = At(b, j) /\ At(b, j) = At(c, j)
  <2>. SUFFICES ASSUME NEW j \in 1..(m - 1), j \in D PROVE FALSE
    BY <1>0, <1>5
  <2>1. ~(m <= j)
    BY <1>0, <1>5
  <2>. QED
    BY <2>1, <1>4
<1>7. Alike(terms, m - 1, a, b) /\ Alike(terms, m - 1, b, c)
  BY <1>6 DEF Alike
<1>. DEFINE up == terms[m].ascending
<1>8. up \in BOOLEAN /\ At(a, m) \in Values /\ At(b, m) \in Values /\ At(c, m) \in Values
  BY <1>0, <1>5 DEF Typed
<1>9. ValuePrecedes(up, At(a, m), At(b, m)) \/ ValuePrecedes(up, At(b, m), At(c, m))
  <2>1. CASE m = i
    <3>1. ValuePrecedes(up, At(a, m), At(c, m))
      BY <1>1, <2>1 DEF Decides
    <3>. HIDE DEF At, up
    <3>. QED
      BY <3>1, <1>8, ValueOrder
  <2>2. CASE m # i
    <3>1. m \in 1..(i - 1)
      BY <1>0, <1>5, <2>2
    <3>2. At(a, m) = At(c, m)
      BY <1>1, <3>1 DEF Decides, Alike
    <3>3. At(a, m) # At(b, m)
      BY <1>4, <3>2
    <3>. HIDE DEF At, up
    <3>. QED
      BY <1>8, <3>2, <3>3, ValueOrder
  <2>. QED
    BY <2>1, <2>2
<1>. QED
  BY <1>5, <1>7, <1>9 DEF Precedes

LEMMA Transitive ==
  ASSUME NEW terms \in Seq(Terms), NEW a, NEW b, NEW c,
         Typed(terms, a), Typed(terms, b), Typed(terms, c),
         Precedes(terms, a, b), Precedes(terms, b, c)
  PROVE  Precedes(terms, a, c)
<1>1. ~Precedes(terms, c, b)
  BY Asymmetric
<1>. QED
  BY <1>1, Between

-----------------------------------------------------------------------------
(* The rows that the server returns: Nth stands for the rows in an order,  *)
(* whether it decides between all of them or not.                          *)

Sortable(S, terms) ==
  /\ IsFiniteSet(S) /\ terms \in Seq(Terms)
  /\ \A r \in S : Typed(terms, table[r])
Comes(terms, q, r) == Precedes(terms, table[q], table[r])
Ahead(S, terms, r) == {q \in S : Comes(terms, q, r)}
UpTo(S, terms, r) == {q \in S : ~Comes(terms, r, q)}

LEMMA ComesOrder ==
  ASSUME NEW S, NEW terms, Sortable(S, terms), NEW p \in S, NEW q \in S, NEW r \in S
  PROVE  /\ ~Comes(terms, r, r)
         /\ ~(Comes(terms, q, r) /\ Comes(terms, r, q))
         /\ Comes(terms, q, r) => Comes(terms, q, p) \/ Comes(terms, p, r)
         /\ Comes(terms, q, p) /\ Comes(terms, p, r) => Comes(terms, q, r)
<1>1. /\ terms \in Seq(Terms) /\ Typed(terms, table[p]) /\ Typed(terms, table[q])
      /\ Typed(terms, table[r])
  BY DEF Sortable
<1>2. ~Comes(terms, r, r)
  BY <1>1, Irreflexive DEF Comes
<1>3. ~(Comes(terms, q, r) /\ Comes(terms, r, q))
  BY <1>1, Asymmetric DEF Comes
<1>4. Comes(terms, q, r) => Comes(terms, q, p) \/ Comes(terms, p, r)
  BY <1>1, Between DEF Comes
<1>5. Comes(terms, q, p) /\ Comes(terms, p, r) => Comes(terms, q, r)
  BY <1>1, Transitive DEF Comes
<1>. QED
  BY <1>2, <1>3, <1>4, <1>5

LEMMA RankSizes ==
  ASSUME NEW S, NEW terms, Sortable(S, terms), NEW r \in S
  PROVE  /\ Cardinality(S) \in Nat /\ Cardinality(Ahead(S, terms, r)) \in Nat
         /\ Cardinality(UpTo(S, terms, r)) \in Nat
         /\ Cardinality(Ahead(S, terms, r)) < Cardinality(UpTo(S, terms, r))
         /\ Cardinality(UpTo(S, terms, r)) <= Cardinality(S)
         /\ IsFiniteSet(UpTo(S, terms, r))
<1>. DEFINE A == Ahead(S, terms, r)
            U == UpTo(S, terms, r)
<1>1. IsFiniteSet(S) /\ U \subseteq S /\ A \subseteq U /\ r \in U /\ r \notin A
  BY ComesOrder DEF Sortable, Ahead, UpTo
<1>. HIDE DEF A, U
<1>2. IsFiniteSet(U) /\ Cardinality(U) <= Cardinality(S) /\ Cardinality(S) \in Nat
  BY <1>1, FS_Subset, FS_CardinalityType
<1>3. Cardinality(A) <= Cardinality(U) /\ Cardinality(A) # Cardinality(U)
      /\ Cardinality(A) \in Nat /\ Cardinality(U) \in Nat
  BY <1>1, <1>2, FS_Subset, FS_CardinalityType
<1>. QED
  BY <1>2, <1>3 DEF A, U

\* All that is not after a row that comes before another one comes before that.
LEMMA RankSteps ==
  ASSUME NEW S, NEW terms, Sortable(S, terms), NEW q \in S, NEW r \in S, Comes(terms, q, r)
  PROVE  Cardinality(UpTo(S, terms, q)) <= Cardinality(Ahead(S, terms, r))
<1>1. UpTo(S, terms, q) \subseteq Ahead(S, terms, r)
  BY ComesOrder DEF UpTo, Ahead
<1>2. IsFiniteSet(Ahead(S, terms, r))
  BY FS_Subset DEF Ahead, Sortable
<1>. QED
  BY <1>1, <1>2, FS_Subset

LEMMA RankTies ==
  ASSUME NEW S, NEW terms, Sortable(S, terms), NEW q \in S, NEW r \in S,
         ~Comes(terms, q, r), ~Comes(terms, r, q)
  PROVE  Ahead(S, terms, q) = Ahead(S, terms, r) /\ UpTo(S, terms, q) = UpTo(S, terms, r)
<1>1. ASSUME NEW p \in S
      PROVE  /\ Comes(terms, p, q) <=> Comes(terms, p, r)
             /\ Comes(terms, q, p) <=> Comes(terms, r, p)
  BY ComesOrder
<1>. QED
  BY <1>1 DEF Ahead, UpTo

\* Some rows have one that none of them comes after.
LEMMA LastOfRows ==
  ASSUME NEW S, NEW terms, Sortable(S, terms), NEW T, T \subseteq S, T # {}
  PROVE  \E r \in T : \A q \in T : ~Comes(terms, r, q)
<1>. DEFINE N == Cardinality(S)
            rank(r) == Cardinality(Ahead(S, terms, r))
            R == {N - rank(r) : r \in T}
<1>1. \A r \in S : N \in Nat /\ rank(r) \in Nat /\ rank(r) <= N
  BY RankSizes
<1>2. R \subseteq Nat /\ R # {}
  BY <1>1
<1>3. PICK x \in R : \A y \in R : x <= y
  BY <1>2, LeastNumber
<1>4. PICK r \in T : x = N - rank(r)
  BY <1>3
<1>5. ASSUME NEW q \in T, Comes(terms, r, q) PROVE FALSE
  <2>1. rank(r) < rank(q)
    BY <1>5, RankSizes, RankSteps
  <2>2. N - rank(r) <= N - rank(q)
    BY <1>3, <1>4
  <2>. HIDE DEF rank, N
  <2>. QED
    BY <1>1, <2>1, <2>2
<1>. QED
  BY <1>5

LEMMA NthIs ==
  ASSUME NEW S, NEW terms, Sortable(S, terms), NEW n \in 1..Cardinality(S)
  PROVE  /\ Nth(S, terms, n) \in S
         /\ Cardinality(Ahead(S, terms, Nth(S, terms, n))) < n
         /\ n <= Cardinality(UpTo(S, terms, Nth(S, terms, n)))
<1>. DEFINE rank(r) == Cardinality(Ahead(S, terms, r))
            reach(r) == Cardinality(UpTo(S, terms, r))
            P(r) == rank(r) < n /\ n <= reach(r)
<1>0. \A r \in S : /\ Cardinality(S) \in Nat /\ rank(r) \in Nat /\ reach(r) \in Nat
                   /\ rank(r) < reach(r)
  BY RankSizes
<1>1. \E r \in S : P(r)
  <2>. DEFINE R == {reach(r) : r \in {q \in S : n <= reach(q)}}
  <2>1. R \subseteq Nat
    BY <1>0
  <2>2. R # {}
    <3>1. S # {}
      BY FS_EmptySet DEF Sortable
    <3>2. PICK r \in S : \A q \in S : ~Comes(terms, r, q)
      BY <3>1, LastOfRows
    <3>3. UpTo(S, terms, r) = S
      BY <3>2 DEF UpTo
    <3>. QED
      BY <3>3
  <2>3. PICK x \in R : \A y \in R : x <= y
    BY <2>1, <2>2, LeastNumber
  <2>4. PICK r \in S : n <= reach(r) /\ x = reach(r)
    BY <2>3
  <2>5. ASSUME ~(rank(r) < n) PROVE FALSE
    <3>. DEFINE T == Ahead(S, terms, r)
    <3>1. T \subseteq S /\ IsFiniteSet(T)
      BY FS_Subset DEF Ahead, Sortable
    <3>2. T # {}
      BY <1>0, <2>5, FS_EmptySet
    <3>. HIDE DEF T
    <3>3. PICK q \in T : \A p \in T : ~Comes(terms, q, p)
      BY <3>1, <3>2, LastOfRows
    <3>4. q \in S /\ Comes(terms, q, r)
      BY <3>1, <3>3 DEF T, Ahead
    <3>5. T \subseteq UpTo(S, terms, q)
      BY <3>1, <3>3 DEF UpTo
    <3>6. rank(r) <= reach(q)
      <4>1. IsFiniteSet(UpTo(S, terms, q))
        BY <3>4, RankSizes
      <4>. QED
        BY <3>5, <4>1, FS_Subset DEF T
    <3>7. reach(q) <= rank(r)
      BY <3>4, RankSteps
    <3>. HIDE DEF rank, reach
    <3>8. n <= reach(q) /\ reach(q) < reach(r)
      BY <1>0, <2>4, <2>5, <3>4, <3>6, <3>7
    <3>9. reach(q) \in R
      BY <3>4, <3>8
    <3>. QED
      BY <1>0, <2>3, <2>4, <3>4, <3>8, <3>9
  <2>. QED
    BY <2>4, <2>5
<1>2. Nth(S, terms, n) = CHOOSE r \in S : P(r)
  BY DEF Nth, Ahead, UpTo, Comes
<1>. HIDE DEF P
<1>3. Nth(S, terms, n) \in S /\ P(Nth(S, terms, n))
  BY <1>1, <1>2
<1>. QED
  BY <1>3 DEF P

\* The places of the rows that are tied with a row, of those before it and of
\* those after it.
LEMMA NthPlaces ==
  ASSUME NEW S, NEW terms, Sortable(S, terms), NEW n \in 1..Cardinality(S), NEW r \in S
  PROVE  LET rank  == Cardinality(Ahead(S, terms, r))
             reach == Cardinality(UpTo(S, terms, r))
             q     == Nth(S, terms, n)
         IN /\ Comes(terms, q, r) <=> n <= rank
            /\ Comes(terms, r, q) <=> reach < n
<1>. DEFINE rank(x) == Cardinality(Ahead(S, terms, x))
            reach(x) == Cardinality(UpTo(S, terms, x))
            q == Nth(S, terms, n)
<1>1. q \in S /\ rank(q) < n /\ n <= reach(q)
  BY NthIs
<1>2. \A x \in S : rank(x) \in Nat /\ reach(x) \in Nat /\ rank(x) < reach(x)
  BY RankSizes
<1>3. CASE Comes(terms, q, r)
  <2>1. reach(q) <= rank(r) /\ ~Comes(terms, r, q)
    BY <1>1, <1>3, RankSteps, ComesOrder
  <2>. HIDE DEF rank, reach, q
  <2>2. n <= rank(r) /\ ~(reach(r) < n)
    BY <1>1, <1>2, <2>1
  <2>. QED
    BY <1>3, <2>1, <2>2 DEF rank, reach, q
<1>4. CASE Comes(terms, r, q)
  <2>1. reach(r) <= rank(q) /\ ~Comes(terms, q, r)
    BY <1>1, <1>4, RankSteps, ComesOrder
  <2>. HIDE DEF rank, reach, q
  <2>2. reach(r) < n /\ ~(n <= rank(r))
    BY <1>1, <1>2, <2>1
  <2>. QED
    BY <1>4, <2>1, <2>2 DEF rank, reach, q
<1>5. CASE ~Comes(terms, q, r) /\ ~Comes(terms, r, q)
  <2>1. rank(q) = rank(r) /\ reach(q) = reach(r)
    BY <1>1, <1>5, RankTies
  <2>. HIDE DEF rank, reach, q
  <2>2. ~(reach(r) < n) /\ ~(n <= rank(r))
    BY <1>1, <1>2, <2>1
  <2>. QED
    BY <1>5, <2>2 DEF rank, reach, q
<1>. QED
  BY <1>3, <1>4, <1>5


-----------------------------------------------------------------------------
(* The columns that rows are in the order of.                              *)

\* The columns among the first ones that are in S, one more at a time.
IsAmong(f, columns, S, n) ==
  /\ f \in [0..n -> Seq(Nat)] /\ f[0] = <<>>
  /\ \A i \in 1..n :
       f[i] = IF columns[i] \in S THEN Append(f[i - 1], columns[i]) ELSE f[i - 1]
  /\ \A i \in 0..n : Range(f[i]) = {columns[j] : j \in 1..i} \cap S

LEMMA RangeOfAppend ==
  ASSUME NEW s \in Seq(Nat), NEW x \in Nat
  PROVE  Append(s, x) \in Seq(Nat) /\ Range(Append(s, x)) = Range(s) \cup {x}
<1>1. /\ Append(s, x) \in Seq(Nat) /\ Len(Append(s, x)) = Len(s) + 1 /\ Len(s) \in Nat
      /\ \A i \in 1..Len(s) : Append(s, x)[i] = s[i]
      /\ Append(s, x)[Len(s) + 1] = x
  BY AppendProperties, LenProperties
<1>2. DOMAIN Append(s, x) = 1..(Len(s) + 1) /\ DOMAIN s = 1..Len(s)
  BY <1>1, LenProperties
<1>. QED
  BY <1>1, <1>2 DEF Range

LEMMA AmongExists ==
  ASSUME NEW columns \in Seq(Nat), NEW S, NEW n \in 0..Len(columns)
  PROVE  \E f : IsAmong(f, columns, S, n)
<1>. DEFINE T == {m \in 0..Len(columns) : ~\E f : IsAmong(f, columns, S, m)}
<1>0. Len(columns) \in Nat /\ \A i \in 1..Len(columns) : columns[i] \in Nat
  OBVIOUS
<1>1. ASSUME T # {} PROVE FALSE
  <2>1. T \subseteq Nat
    BY <1>0
  <2>2. PICK m \in T : \A k \in T : m <= k
    BY <1>1, <2>1, LeastNumber
  <2>3. m \in 0..Len(columns) /\ ~\E f : IsAmong(f, columns, S, m)
    BY <2>2
  <2>4. m # 0
    <3>. DEFINE f == [i \in 0..0 |-> <<>>]
    <3>1. f \in [0..0 -> Seq(Nat)] /\ f[0] = <<>> /\ \A i \in 0..0 : f[i] = <<>>
      BY EmptySeq
    <3>2. Range(<<>>) = {} /\ \A i \in 0..0 : {columns[j] : j \in 1..i} = {}
      BY EmptySeq DEF Range
    <3>3. IsAmong(f, columns, S, 0)
      BY <3>1, <3>2 DEF IsAmong
    <3>. QED
      BY <2>3, <3>3
  <2>5. m - 1 \in 0..Len(columns) /\ m - 1 \notin T /\ m \in Nat /\ m - 1 \in Nat
    <3>1. m \in Nat /\ m - 1 \in Nat /\ m - 1 \in 0..Len(columns) /\ ~(m <= m - 1)
      BY <1>0, <2>3, <2>4
    <3>. HIDE DEF T
    <3>. QED
      BY <2>2, <3>1
  <2>6. PICK g : IsAmong(g, columns, S, m - 1)
    BY <2>5
  <2>. DEFINE last == IF columns[m] \in S THEN Append(g[m - 1], columns[m]) ELSE g[m - 1]
              f == [i \in 0..m |-> IF i = m THEN last ELSE g[i]]
  <2>7. g[m - 1] \in Seq(Nat) /\ columns[m] \in Nat /\ m \in 1..Len(columns)
    BY <1>0, <2>3, <2>4, <2>5, <2>6 DEF IsAmong
  <2>8. last \in Seq(Nat) /\ Range(last) = {columns[j] : j \in 1..m} \cap S
    <3>1. {columns[j] : j \in 1..m} = {columns[j] : j \in 1..(m - 1)} \cup {columns[m]}
      BY <2>5
    <3>. DEFINE Part(i) == {columns[j] : j \in 1..i} \cap S
    <3>2. Range(g[m - 1]) = Part(m - 1)
      <4>1. \A i \in 0..(m - 1) : Range(g[i]) = Part(i)
        BY <2>6 DEF IsAmong
      <4>2. m - 1 \in 0..(m - 1)
        BY <2>5
      <4>. HIDE DEF Part
      <4>. QED
        BY <4>1, <4>2
    <3>. QED
      BY <2>7, <3>1, <3>2, RangeOfAppend
  <2>. HIDE DEF last
  <2>9. f \in [0..m -> Seq(Nat)] /\ f[0] = <<>> /\ f[m] = last
    BY <2>4, <2>5, <2>6, <2>8 DEF IsAmong
  <2>10. \A i \in 0..m : i # m => i \in 0..(m - 1) /\ f[i] = g[i]
    BY <2>5
  <2>11. f[m - 1] = g[m - 1]
    BY <2>5, <2>10
  <2>. HIDE DEF f
  <2>12. ASSUME NEW i \in 1..m
         PROVE  f[i] = IF columns[i] \in S THEN Append(f[i - 1], columns[i]) ELSE f[i - 1]
    <3>1. CASE i = m
      BY <2>9, <2>11, <3>1 DEF last
    <3>2. CASE i # m
      <4>1. i \in 1..(m - 1) /\ f[i] = g[i] /\ f[i - 1] = g[i - 1]
        BY <2>5, <2>10, <3>2
      <4>. QED
        BY <2>6, <4>1 DEF IsAmong
    <3>. QED
      BY <3>1, <3>2
  <2>13. ASSUME NEW i \in 0..m PROVE Range(f[i]) = {columns[j] : j \in 1..i} \cap S
    <3>1. CASE i = m
      BY <2>8, <2>9, <3>1
    <3>2. CASE i # m
      BY <2>6, <2>10, <3>2 DEF IsAmong
    <3>. QED
      BY <3>1, <3>2
  <2>. QED
    BY <2>3, <2>9, <2>12, <2>13 DEF IsAmong
<1>. QED
  BY <1>1

\* Among returns the columns in S.
LEMMA AmongIs ==
  ASSUME NEW columns \in Seq(Nat), NEW S
  PROVE  /\ Among(columns, S) \in Seq(Nat)
         /\ Range(Among(columns, S)) = Range(columns) \cap S
<1>. DEFINE n == Len(columns)
            Body(f) == [i \in 0..n |-> IF i = 0 THEN <<>>
                                       ELSE IF columns[i] \in S THEN Append(f[i - 1], columns[i])
                                       ELSE f[i - 1]]
            h == CHOOSE f : f = Body(f)
<1>0. n \in Nat /\ Range(columns) = {columns[j] : j \in 1..n}
  BY LenProperties DEF Range
<1>1. Among(columns, S) = h[n]
  BY DEF Among
<1>2. PICK f : IsAmong(f, columns, S, n)
  <2>1. columns \in Seq(Nat) /\ Len(columns) \in 0..Len(columns)
    BY <1>0
  <2>2. \E f : IsAmong(f, columns, S, Len(columns))
    BY ONLY <2>1, AmongExists
  <2>. QED
    BY <2>2
<1>3. f = Body(f)
  <2>1. /\ f \in [0..n -> Seq(Nat)] /\ f[0] = <<>>
        /\ \A i \in 1..n : f[i] = IF columns[i] \in S THEN Append(f[i - 1], columns[i]) ELSE f[i - 1]
    BY <1>2 DEF IsAmong
  <2>2. \A i \in 0..n : i # 0 => i \in 1..n
    BY <1>0
  <2>. HIDE DEF n
  <2>. QED
    BY <2>1, <2>2
<1>4. h = Body(h)
  BY <1>3
<1>5. ASSUME NEW i \in 0..n PROVE h[i] = f[i]
  <2>. DEFINE T == {j \in 0..n : h[j] # f[j]}
  <2>1. ASSUME T # {} PROVE FALSE
    <3>0. T \subseteq Nat
      BY <1>0
    <3>1. PICK k \in T : \A j \in T : k <= j
      BY <2>1, <3>0, LeastNumber
    <3>2. k \in 0..n /\ h[k] # f[k]
      BY <3>1
    <3>3. h[k] = Body(h)[k] /\ f[k] = Body(f)[k]
      BY <1>3, <1>4
    <3>4. k # 0
      BY <3>2, <3>3
    <3>5. k - 1 \in 0..n /\ k - 1 \notin T
      BY <1>0, <3>1, <3>2, <3>4
    <3>6. h[k - 1] = f[k - 1]
      BY <3>5
    <3>7. Body(h)[k] = Body(f)[k]
      BY <3>2, <3>6
    <3>. QED
      BY <3>2, <3>3, <3>7
  <2>. QED
    BY <2>1
<1>6. h[n] = f[n]
  BY <1>0, <1>5
<1>7. f[n] \in Seq(Nat) /\ Range(f[n]) = {columns[j] : j \in 1..n} \cap S
  BY <1>0, <1>2 DEF IsAmong
<1>. QED
  BY <1>0, <1>1, <1>6, <1>7

\* What the rows of pages are ordered by: a sort and some columns.
LEMMA TermsOfColumns ==
  ASSUME NEW columns \in Seq(Nat), NEW sort \in Terms, 0 \notin Range(columns)
  PROVE  LET terms == SortTerm(sort) \o Ascending(Other(columns, sort))
         IN /\ terms \in Seq(Terms)
            /\ \A i \in 1..Len(terms) :
                 \/ terms[i].column \in Range(columns)
                 \/ sort # NoSort /\ terms[i].column = sort.column
            /\ \A c \in Range(columns) : \E i \in 1..Len(terms) : terms[i].column = c
<1>. DEFINE other == Other(columns, sort)
            s == SortTerm(sort)
            t == Ascending(other)
            terms == s \o t
<1>1. other \in Seq(Nat) /\ Range(other) = Range(columns) \ {sort.column}
  BY AmongIs DEF Other
<1>2. /\ s \in Seq(Terms) /\ Len(s) \in Nat
      /\ sort # NoSort => Len(s) = 1 /\ s[1] = sort
      /\ sort = NoSort => Len(s) = 0
  BY DEF SortTerm
<1>. HIDE DEF other, s
<1>3. DOMAIN other = 1..Len(other) /\ Len(other) \in Nat /\ \A i \in 1..Len(other) : other[i] \in Nat
  BY <1>1, LenProperties, ElementOfSeq
<1>4. t = [i \in 1..Len(other) |-> [column |-> other[i], ascending |-> TRUE]]
  BY <1>3 DEF Ascending
<1>5. /\ t \in Seq(Terms) /\ Len(t) = Len(other)
      /\ \A i \in 1..Len(t) : t[i].column = other[i]
  <2>1. \A i \in 1..Len(other) : [column |-> other[i], ascending |-> TRUE] \in Terms
    BY <1>3 DEF Terms
  <2>. QED
    BY <1>3, <1>4, <2>1
<1>. HIDE DEF t
<1>6. /\ terms \in Seq(Terms) /\ Len(terms) = Len(s) + Len(t)
      /\ \A i \in 1..Len(s) : terms[i] = s[i]
      /\ \A i \in 1..Len(t) : terms[Len(s) + i] = t[i]
      /\ \A i \in 1..Len(terms) :
           i \in 1..Len(s) \/ (i - Len(s) \in 1..Len(t) /\ terms[i] = t[i - Len(s)])
  <2>1. s \in Seq(Terms) /\ t \in Seq(Terms) /\ Len(s) \in Nat /\ Len(t) \in Nat
    BY <1>2, <1>3, <1>5
  <2>2. /\ terms \in Seq(Terms) /\ Len(terms) = Len(s) + Len(t)
        /\ \A i \in 1..(Len(s) + Len(t)) :
             terms[i] = IF i <= Len(s) THEN s[i] ELSE t[i - Len(s)]
    BY <2>1, ConcatProperties
  <2>. HIDE DEF terms
  <2>3. ASSUME NEW i \in 1..Len(t) PROVE terms[Len(s) + i] = t[i]
    <3>1. Len(s) + i \in 1..(Len(s) + Len(t)) /\ ~(Len(s) + i <= Len(s)) /\ Len(s) + i - Len(s) = i
      BY <2>1
    <3>. QED
      BY <2>2, <3>1
  <2>. QED
    BY <2>1, <2>2, <2>3
<1>. HIDE DEF terms
<1>7. ASSUME NEW i \in 1..Len(terms)
      PROVE  \/ terms[i].column \in Range(columns)
             \/ sort # NoSort /\ terms[i].column = sort.column
  <2>1. CASE i \in 1..Len(s)
    BY <1>2, <1>6, <2>1
  <2>2. CASE i - Len(s) \in 1..Len(t)
    <3>1. terms[i].column = other[i - Len(s)]
      <4>1. CASE i \in 1..Len(s)
        BY <1>2, <2>2, <4>1, <1>3, <1>5
      <4>2. CASE i \notin 1..Len(s)
        BY <1>5, <1>6, <4>2
      <4>. QED
        BY <4>1, <4>2
    <3>2. other[i - Len(s)] \in Range(other)
      BY <1>3, <1>5, <2>2 DEF Range
    <3>. QED
      BY <1>1, <3>1, <3>2
  <2>. QED
    BY <1>6, <2>1, <2>2
<1>8. ASSUME NEW c \in Range(columns)
      PROVE  \E i \in 1..Len(terms) : terms[i].column = c
  <2>1. CASE c = sort.column
    <3>1. sort # NoSort
      BY <2>1 DEF NoSort
    <3>2. Len(s) = 1 /\ s[1] = sort
      BY <1>2, <3>1
    <3>3. 1 \in 1..Len(terms) /\ terms[1] = s[1]
      BY <1>3, <1>5, <1>6, <3>2
    <3>. QED
      BY <2>1, <3>2, <3>3
  <2>2. CASE c # sort.column
    <3>1. PICK j \in 1..Len(other) : other[j] = c
      BY <1>1, <1>3, <2>2 DEF Range
    <3>2. Len(s) + j \in 1..Len(terms) /\ terms[Len(s) + j] = t[j] /\ t[j].column = c
      BY <1>2, <1>3, <1>5, <1>6, <3>1
    <3>. QED
      BY <3>2
  <2>. QED
    BY <2>1, <2>2
<1>. QED
  BY <1>6, <1>7, <1>8 DEF terms, s, t, other

\* The columns that tell the rows of a relation apart, or all of them if there are
\* none, are in the order of its rows, and all of those are shown.
Deciding(rel) == IF rel.bestEffort THEN rel.readable ELSE Range(rel.identity)

LEMMA OrderParts ==
  ASSUME NEW cat \in Catalogs, NEW rel, rel = Described(cat), NEW sort \in Sorts(rel)
  PROVE  LET terms == OrderOf(rel, sort)
         IN /\ terms \in Seq(Terms)
            /\ \A i \in 1..Len(terms) : terms[i].column \in rel.readable
            /\ \A c \in Deciding(rel) : \E i \in 1..Len(terms) : terms[i].column = c
            /\ ~rel.bestEffort => terms = EffectiveOrder(rel, sort)
            /\ rel.bestEffort => terms = BestEffortOrder(rel, sort)
<1>1. /\ rel.columns = MutationColumns(cat) /\ rel.readable = Readable(cat)
      /\ rel.identity = ReadableIdentity(cat) /\ rel.bestEffort = (rel.identity = <<>>)
  BY DEF Described
<1>2. /\ cat.columns \in Seq(Columns) /\ DOMAIN cat.columns = 1..Len(cat.columns)
      /\ Len(cat.columns) \in Nat
      /\ rel.readable \subseteq DOMAIN cat.columns
  <2>1. cat.columns \in Seq(Columns)
    BY DEF Catalogs
  <2>. QED
    BY <1>1, <2>1, LenProperties DEF Readable
<1>3. rel.identity \in Seq(Nat) /\ Range(rel.identity) \subseteq rel.readable
  <2>1. CASE rel.identity = <<>>
    BY <2>1, EmptySeq DEF Range
  <2>2. CASE rel.identity # <<>>
    <3>1. PICK i \in DOMAIN cat.indexes : cat.indexes[i].columns = rel.identity
      BY <1>1, <2>2, IdentityIsKey
    <3>2. cat.indexes[i] \in Indexes
      BY <3>1, ElementOfSeq, LenProperties DEF Catalogs
    <3>. QED
      BY <1>1, <2>2, <3>1, <3>2 DEF Indexes, ReadableIdentity
  <2>. QED
    BY <2>1, <2>2
<1>4. sort \in Terms /\ (sort # NoSort => sort.column \in rel.readable)
  <2>1. CASE sort = NoSort
    BY <2>1 DEF NoSort, Terms
  <2>2. CASE sort # NoSort
    <3>1. PICK c \in rel.readable, up \in BOOLEAN : sort = [column |-> c, ascending |-> up]
      BY <2>2 DEF Sorts
    <3>. QED
      BY <1>2, <3>1 DEF Terms
  <2>. QED
    BY <2>1, <2>2
<1>5. AllReadable(rel) \in Seq(Nat) /\ Range(AllReadable(rel)) = rel.readable
  <2>. DEFINE n == Len(cat.columns)
              all == [c \in DOMAIN rel.columns |-> c]
  <2>1. all = [c \in 1..n |-> c]
    BY <1>1, <1>2 DEF MutationColumns
  <2>2. all \in Seq(Nat)
    <3>1. \A c \in 1..n : c \in Nat
      BY <1>2
    <3>2. n \in Nat
      BY <1>2
    <3>. HIDE DEF n, all
    <3>. QED
      BY <2>1, <3>1, <3>2
  <2>3. Range(all) = 1..n
    <3>. HIDE DEF n, all
    <3>. QED
      BY <2>1 DEF Range
  <2>4. AllReadable(rel) = Among(all, rel.readable)
    BY DEF AllReadable
  <2>. HIDE DEF all
  <2>5. Among(all, rel.readable) \in Seq(Nat)
    BY <2>2, AmongIs
  <2>6. Range(Among(all, rel.readable)) = Range(all) \cap rel.readable
    BY <2>2, AmongIs
  <2>. QED
    BY <1>2, <2>3, <2>4, <2>5, <2>6
<1>6. 0 \notin Range(rel.identity) /\ 0 \notin rel.readable
  BY <1>2, <1>3
<1>7. CASE rel.bestEffort
  <2>. DEFINE columns == AllReadable(rel)
              terms == SortTerm(sort) \o Ascending(Other(columns, sort))
  <2>0. columns \in Seq(Nat) /\ Range(columns) = rel.readable /\ 0 \notin Range(columns)
    BY <1>5, <1>6
  <2>. HIDE DEF columns
  <2>1. /\ terms \in Seq(Terms)
        /\ \A i \in 1..Len(terms) :
             terms[i].column \in Range(columns) \/ (sort # NoSort /\ terms[i].column = sort.column)
        /\ \A c \in Range(columns) : \E i \in 1..Len(terms) : terms[i].column = c
    BY <1>4, <2>0, TermsOfColumns
  <2>2. OrderOf(rel, sort) = terms /\ BestEffortOrder(rel, sort) = terms
    BY <1>7 DEF OrderOf, BestEffortOrder, columns
  <2>. HIDE DEF terms
  <2>. QED
    <3>1. Deciding(rel) = Range(columns)
      BY <1>7, <2>0 DEF Deciding
    <3>2. \A i \in 1..Len(terms) : terms[i].column \in rel.readable
      BY <1>4, <2>0, <2>1
    <3>. QED
      BY <1>7, <2>1, <2>2, <3>1, <3>2
<1>8. CASE ~rel.bestEffort
  <2>. DEFINE columns == rel.identity
              terms == SortTerm(sort) \o Ascending(Other(columns, sort))
  <2>0. columns \in Seq(Nat) /\ 0 \notin Range(columns)
    BY <1>3, <1>6
  <2>. HIDE DEF columns
  <2>1. /\ terms \in Seq(Terms)
        /\ \A i \in 1..Len(terms) :
             terms[i].column \in Range(columns) \/ (sort # NoSort /\ terms[i].column = sort.column)
        /\ \A c \in Range(columns) : \E i \in 1..Len(terms) : terms[i].column = c
    BY <1>4, <2>0, TermsOfColumns
  <2>2. OrderOf(rel, sort) = terms /\ EffectiveOrder(rel, sort) = terms
    BY <1>8 DEF OrderOf, EffectiveOrder, columns
  <2>. HIDE DEF terms
  <2>. QED
    BY <1>3, <1>4, <1>8, <2>1, <2>2 DEF Deciding, columns
<1>. QED
  BY <1>7, <1>8

-----------------------------------------------------------------------------
(* The rows of pages, and their order on a walk.                           *)

Rows == [relation.readable -> Values]
RowOf(r) == Shown(relation, table[r])

\* A row is later than another one on a walk forward, or backward.
Beyond(terms, forward, a, b) ==
  IF forward THEN Precedes(terms, b, a) ELSE Precedes(terms, a, b)

LEMMA BeyondOrder ==
  ASSUME NEW terms \in Seq(Terms), NEW forward \in BOOLEAN, NEW a, NEW b, NEW c,
         Typed(terms, a), Typed(terms, b), Typed(terms, c)
  PROVE  /\ ~Beyond(terms, forward, a, a)
         /\ ~(Beyond(terms, forward, a, b) /\ Beyond(terms, forward, b, a))
         /\ Beyond(terms, forward, a, c) =>
              Beyond(terms, forward, a, b) \/ Beyond(terms, forward, b, c)
         /\ Beyond(terms, forward, a, b) /\ Beyond(terms, forward, b, c) =>
              Beyond(terms, forward, a, c)
         /\ Beyond(terms, ~forward, a, b) <=> Beyond(terms, forward, b, a)
<1>1. ~Precedes(terms, a, a)
  BY Irreflexive
<1>2. ~(Precedes(terms, a, b) /\ Precedes(terms, b, a))
  BY Asymmetric
<1>3. /\ Precedes(terms, a, c) => Precedes(terms, a, b) \/ Precedes(terms, b, c)
      /\ Precedes(terms, c, a) => Precedes(terms, c, b) \/ Precedes(terms, b, a)
  BY Between
<1>4. /\ Precedes(terms, a, b) /\ Precedes(terms, b, c) => Precedes(terms, a, c)
      /\ Precedes(terms, c, b) /\ Precedes(terms, b, a) => Precedes(terms, c, a)
  BY Transitive
<1>5. Beyond(terms, forward, a, c) => Beyond(terms, forward, a, b) \/ Beyond(terms, forward, b, c)
  BY <1>3 DEF Beyond
<1>6. Beyond(terms, forward, a, b) /\ Beyond(terms, forward, b, c) => Beyond(terms, forward, a, c)
  BY <1>4 DEF Beyond
<1>. QED
  BY <1>1, <1>2, <1>5, <1>6 DEF Beyond

\* What is shown of rows is what their order and a cursor look at.
LEMMA ShownIsEnough ==
  ASSUME NEW terms \in Seq(Terms), NEW rel, NEW a, NEW b,
         \A i \in 1..Len(terms) : terms[i].column \in rel.readable
  PROVE  /\ Precedes(terms, Shown(rel, a), Shown(rel, b)) <=> Precedes(terms, a, b)
         /\ Precedes(terms, a, Shown(rel, b)) <=> Precedes(terms, a, b)
         /\ Precedes(terms, Shown(rel, a), b) <=> Precedes(terms, a, b)
<1>1. \A i \in 1..Len(terms) : /\ Shown(rel, a)[terms[i].column] = a[terms[i].column]
                               /\ Shown(rel, b)[terms[i].column] = b[terms[i].column]
  BY DEF Shown
<1>2. Len(terms) \in Nat
  BY TermTypes
<1>3. \A i \in 1..Len(terms) : \A j \in 1..(i - 1) : j \in 1..Len(terms)
  BY <1>2
<1>. HIDE DEF Shown
<1>4. \A i \in 1..Len(terms) :
        /\ Alike(terms, i - 1, Shown(rel, a), Shown(rel, b)) <=> Alike(terms, i - 1, a, b)
        /\ Alike(terms, i - 1, a, Shown(rel, b)) <=> Alike(terms, i - 1, a, b)
        /\ Alike(terms, i - 1, Shown(rel, a), b) <=> Alike(terms, i - 1, a, b)
  BY <1>1, <1>3 DEF Alike
<1>. QED
  BY <1>1, <1>4 DEF Precedes

\* The rows of the server, and those that nobody has touched.
TableInv ==
  /\ DOMAIN table = RowIds
  /\ \A r \in RowIds : table[r] \in world.rows \cup {Absent}
  /\ Legal(table)
  /\ walk.steady \subseteq Present
  /\ writes \in Nat /\ walk.fetched \in 0..writes /\ walk.began \in 0..walk.fetched

LEMMA RowsArePlain ==
  ASSUME Inv, TableInv, relation = Described(catalog), Readable(catalog) # {}
  PROVE  /\ NoRow \notin Rows
         /\ IsFiniteSet(Present)
         /\ \A r \in Present :
              /\ RowOf(r) \in Rows
              /\ \A c \in relation.readable : table[r][c] \in Values
<1>1. catalog \in Catalogs /\ world \in Worlds
  BY CatalogType DEF Inv
<1>2. relation.readable = Readable(catalog) /\ relation.readable \subseteq DOMAIN catalog.columns
  BY <1>1, DescribedParts DEF Readable
<1>3. NoRow \notin Rows
  <2>1. PICK c : c \in relation.readable
    BY <1>2
  <2>2. DOMAIN NoRow = {}
    BY EmptySeq DEF NoRow
  <2>. QED
    BY <2>1, <2>2 DEF Rows
<1>4. IsFiniteSet(Present)
  BY BrowserAssumption, FS_Subset DEF BrowserAssumption, Present
<1>5. ASSUME NEW r \in Present
      PROVE  RowOf(r) \in Rows /\ \A c \in relation.readable : table[r][c] \in Values
  <2>1. table[r] \in world.rows
    BY DEF Present, TableInv
  <2>2. DOMAIN table[r] = DOMAIN catalog.columns /\ \A c \in DOMAIN table[r] : table[r][c] \in Values
    BY <1>1, <2>1, BrowserAssumption DEF BrowserAssumption, catalog
  <2>3. \A c \in relation.readable : table[r][c] \in Values
    BY <1>2, <2>2
  <2>. QED
    BY <2>3 DEF RowOf, Rows, Shown
<1>. QED
  BY <1>3, <1>4, <1>5

\* Rows with a key are all told apart by their order; rows that the order does not
\* tell apart look alike.
LEMMA OrderDecides ==
  ASSUME Inv, TableInv, relation = Described(catalog), Readable(catalog) # {},
         NEW sort \in Sorts(relation), NEW q \in Present, NEW r \in Present
  PROVE  LET terms == OrderOf(relation, sort)
         IN /\ ~relation.bestEffort /\ q # r => Comes(terms, q, r) \/ Comes(terms, r, q)
            /\ relation.bestEffort =>
                 (~Comes(terms, q, r) /\ ~Comes(terms, r, q) <=> RowOf(q) = RowOf(r))
<1>. DEFINE terms == OrderOf(relation, sort)
<1>1. catalog \in Catalogs
  BY CatalogType
<1>2. /\ terms \in Seq(Terms)
      /\ \A i \in 1..Len(terms) : terms[i].column \in relation.readable
      /\ \A c \in Deciding(relation) : \E i \in 1..Len(terms) : terms[i].column = c
  BY <1>1, OrderParts
<1>. HIDE DEF terms
<1>3. Typed(terms, table[q]) /\ Typed(terms, table[r])
  BY <1>2, RowsArePlain DEF Typed
<1>4. ASSUME NEW c \in Deciding(relation), table[q][c] # table[r][c]
      PROVE  Comes(terms, q, r) \/ Comes(terms, r, q)
  <2>1. ~Alike(terms, Len(terms), table[q], table[r])
    BY <1>2, <1>4 DEF Alike
  <2>. QED
    BY <1>2, <1>3, <2>1, OrderIsTotal DEF Typed, Comes
<1>5. ASSUME ~relation.bestEffort, q # r
      PROVE  Comes(terms, q, r) \/ Comes(terms, r, q)
  <2>1. relation.identity = ReadableIdentity(catalog) /\ relation.identity # <<>>
    BY <1>5 DEF Described
  <2>2. PICK i \in DOMAIN catalog.indexes :
          catalog.indexes[i].usable /\ catalog.indexes[i].columns = relation.identity
    BY <1>1, <2>1, IdentityIsKey
  <2>3. i \in Keys(catalog)
    BY <1>1, <2>1, <2>2, IdentityIsKey DEF Keys
  <2>4. PICK c \in Range(relation.identity) : table[q][c] # table[r][c]
    BY <1>5, <2>2, <2>3 DEF TableInv, Legal, Present
  <2>. QED
    BY <1>4, <1>5, <2>4 DEF Deciding
<1>6. ASSUME relation.bestEffort, RowOf(q) # RowOf(r)
      PROVE  Comes(terms, q, r) \/ Comes(terms, r, q)
  <2>1. PICK c \in relation.readable : table[q][c] # table[r][c]
    BY <1>6 DEF RowOf, Shown
  <2>. QED
    BY <1>4, <1>6, <2>1 DEF Deciding
<1>7. ASSUME RowOf(q) = RowOf(r)
      PROVE  ~Comes(terms, q, r) /\ ~Comes(terms, r, q)
  <2>1. Typed(terms, RowOf(q))
    BY <1>2, RowsArePlain DEF Typed, Rows
  <2>2. ~Precedes(terms, RowOf(q), RowOf(q))
    BY <1>2, <2>1, Irreflexive
  <2>. QED
    BY <1>2, <1>7, <2>2, ShownIsEnough DEF Comes, RowOf
<1>. QED
  BY <1>5, <1>6, <1>7 DEF terms

-----------------------------------------------------------------------------
(* The pages of a relation with a key.                                     *)

\* Rows that their order tells apart are returned in that order, and every one has
\* its place.
LEMMA NthInOrder ==
  ASSUME NEW S, NEW terms, Sortable(S, terms),
         \A p, q \in S : p # q => Comes(terms, p, q) \/ Comes(terms, q, p)
  PROVE  /\ \A i, j \in 1..Cardinality(S) :
              i < j => Comes(terms, Nth(S, terms, i), Nth(S, terms, j))
         /\ \A q \in S : \E i \in 1..Cardinality(S) : Nth(S, terms, i) = q
<1>. DEFINE N == Cardinality(S)
            rank(r) == Cardinality(Ahead(S, terms, r))
            reach(r) == Cardinality(UpTo(S, terms, r))
            nth(i) == Nth(S, terms, i)
<1>1. ASSUME NEW r \in S
      PROVE  /\ rank(r) \in Nat /\ reach(r) = rank(r) + 1 /\ reach(r) <= N
             /\ N \in Nat
  <2>1. UpTo(S, terms, r) = Ahead(S, terms, r) \cup {r} /\ r \notin Ahead(S, terms, r)
    BY ComesOrder DEF UpTo, Ahead
  <2>2. IsFiniteSet(Ahead(S, terms, r))
    BY FS_Subset DEF Ahead, Sortable
  <2>3. reach(r) = rank(r) + 1
    BY <2>1, <2>2, FS_AddElement
  <2>. QED
    BY <2>3, RankSizes
<1>2. ASSUME NEW i \in 1..N
      PROVE  nth(i) \in S /\ rank(nth(i)) = i - 1
  <2>1. nth(i) \in S /\ rank(nth(i)) < i /\ i <= reach(nth(i))
    BY NthIs
  <2>2. rank(nth(i)) \in Nat /\ reach(nth(i)) = rank(nth(i)) + 1 /\ N \in Nat
    BY <1>1, <2>1
  <2>. HIDE DEF rank, reach, nth
  <2>. QED
    BY <2>1, <2>2
<1>3. ASSUME NEW i \in 1..N, NEW j \in 1..N, i < j
      PROVE  Comes(terms, nth(i), nth(j))
  <2>1. nth(j) \in S /\ rank(nth(j)) = j - 1 /\ N \in Nat
    BY <1>1, <1>2
  <2>2. Comes(terms, nth(i), nth(j)) <=> i <= rank(nth(j))
    BY <2>1, NthPlaces
  <2>. HIDE DEF rank, nth
  <2>. QED
    BY <1>3, <2>1, <2>2
<1>4. ASSUME NEW q \in S PROVE \E i \in 1..N : nth(i) = q
  <2>. DEFINE n == rank(q) + 1
  <2>1. n \in 1..N /\ rank(q) \in Nat /\ reach(q) = n
    BY <1>1
  <2>2. nth(n) \in S
    BY <1>2, <2>1
  <2>3. Comes(terms, nth(n), q) <=> n <= rank(q)
    BY <2>1, NthPlaces
  <2>4. Comes(terms, q, nth(n)) <=> reach(q) < n
    BY <2>1, NthPlaces
  <2>5. ~Comes(terms, nth(n), q) /\ ~Comes(terms, q, nth(n))
    <3>. HIDE DEF rank, reach, nth
    <3>. QED
      BY <2>1, <2>3, <2>4
  <2>. QED
    BY <2>1, <2>2, <2>5
<1>. QED
  BY <1>3, <1>4

\* What is selected, and what is kept of it for a page.
LEMMA SelectIs ==
  ASSUME NEW S, NEW terms, Sortable(S, terms), NEW n \in Nat, \A r \in S : RowOf(r) \in Rows
  PROVE  LET s == Select(S, terms, n)
         IN /\ s \in Seq(Rows) /\ Cardinality(S) \in Nat
            /\ Len(s) = IF Cardinality(S) < n THEN Cardinality(S) ELSE n
            /\ \A i \in 1..Len(s) : /\ i \in 1..Cardinality(S) /\ Nth(S, terms, i) \in S
                                    /\ s[i] = RowOf(Nth(S, terms, i))
<1>. DEFINE N == Cardinality(S)
            len == IF N < n THEN N ELSE n
            row(i) == RowOf(Nth(S, terms, i))
            s == [i \in 1..len |-> row(i)]
<1>1. N \in Nat
  BY FS_CardinalityType DEF Sortable
<1>2. len \in Nat /\ len <= N
  BY <1>1
<1>3. \A i \in 1..len : i \in 1..N
  BY <1>1, <1>2
<1>4. \A i \in 1..len : Nth(S, terms, i) \in S
  BY <1>3, NthIs
<1>5. \A i \in 1..len : row(i) \in Rows
  BY <1>4
<1>6. Select(S, terms, n) = s
  BY DEF Select, RowOf
<1>7. s \in Seq(Rows) /\ Len(s) = len /\ \A i \in 1..len : s[i] = row(i)
  <2>. HIDE DEF row, len
  <2>. QED
    BY <1>2, <1>5
<1>. HIDE DEF s
<1>. QED
  BY <1>1, <1>3, <1>4, <1>6, <1>7

LEMMA CutIs ==
  ASSUME NEW R, NEW s \in Seq(R)
  PROVE  /\ Cut(s) \in Seq(R)
         /\ Len(Cut(s)) = IF Len(s) > Limit THEN Limit ELSE Len(s)
         /\ \A i \in 1..Len(Cut(s)) : i \in 1..Len(s) /\ Cut(s)[i] = s[i]
<1>1. Limit \in Nat \ {0} /\ Len(s) \in Nat /\ \A i \in 1..Len(s) : s[i] \in R
  BY BrowserAssumption, LenProperties, ElementOfSeq DEF BrowserAssumption
<1>2. CASE Len(s) > Limit
  <2>1. Cut(s) = SubSeq(s, 1, Limit)
    BY <1>2 DEF Cut
  <2>2. \A i \in 1..Limit : i \in 1..Len(s) /\ s[i] \in R
    BY <1>1, <1>2
  <2>3. /\ SubSeq(s, 1, Limit) \in Seq(R) /\ Len(SubSeq(s, 1, Limit)) = Limit
        /\ \A i \in 1..Limit : SubSeq(s, 1, Limit)[i] = s[i]
    BY <1>1, <2>2, SubSeqProperties
  <2>. QED
    BY <1>2, <2>1, <2>2, <2>3
<1>3. CASE ~(Len(s) > Limit)
  BY <1>1, <1>3 DEF Cut
<1>. QED
  BY <1>2, <1>3

LEMMA ReverseIs ==
  ASSUME NEW R, NEW s \in Seq(R)
  PROVE  /\ Reverse(s) \in Seq(R) /\ Len(Reverse(s)) = Len(s) /\ Len(s) \in Nat
         /\ \A i \in 1..Len(s) : /\ Len(s) - i + 1 \in 1..Len(s)
                                 /\ Reverse(s)[i] = s[Len(s) - i + 1]
<1>1. Len(s) \in Nat /\ \A i \in 1..Len(s) : s[i] \in R
  BY LenProperties, ElementOfSeq
<1>2. Reverse(s) = [i \in 1..Len(s) |-> s[(Len(s) - i) + 1]]
  BY DEF Reverse
<1>3. \A i \in 1..Len(s) : (Len(s) - i) + 1 \in 1..Len(s)
  BY <1>1
<1>4. \A i \in 1..Len(s) : s[(Len(s) - i) + 1] \in R
  BY <1>1, <1>3
<1>. QED
  BY <1>1, <1>2, <1>3, <1>4

LEMMA ReversedTerms ==
  ASSUME NEW terms \in Seq(Terms)
  PROVE  /\ Reversed(terms) \in Seq(Terms) /\ Len(Reversed(terms)) = Len(terms)
         /\ \A i \in 1..Len(terms) : Reversed(terms)[i].column = terms[i].column
<1>1. DOMAIN terms = 1..Len(terms) /\ Len(terms) \in Nat /\ \A i \in 1..Len(terms) : terms[i] \in Terms
  BY LenProperties, ElementOfSeq
<1>2. Reversed(terms) = [i \in 1..Len(terms) |-> [terms[i] EXCEPT !.ascending = ~@]]
  BY <1>1 DEF Reversed
<1>3. \A i \in 1..Len(terms) : /\ [terms[i] EXCEPT !.ascending = ~@] \in Terms
                               /\ [terms[i] EXCEPT !.ascending = ~@].column = terms[i].column
  BY <1>1 DEF Terms
<1>. DEFINE term(i) == [terms[i] EXCEPT !.ascending = ~@]
<1>4. /\ Reversed(terms) = [i \in 1..Len(terms) |-> term(i)]
      /\ \A i \in 1..Len(terms) : term(i) \in Terms /\ term(i).column = terms[i].column
  BY <1>2, <1>3
<1>. HIDE DEF term
<1>. QED
  BY <1>1, <1>4

\* The rows that a request looks for: all of them, or those beyond a row.
Wanted(terms, req, x) ==
  IF req.direction = "first" THEN Present
  ELSE {r \in Present : Beyond(terms, req.direction # "previous", RowOf(r), x)}

\* The rows of a page are in their order, and its cursors are those of its ends.
PageIs(p, terms) ==
  /\ p.rows \in Seq(Rows)
  /\ \A i, j \in DOMAIN p.rows : i < j => Precedes(terms, p.rows[i], p.rows[j])
  /\ ~p.next.none =>
       p.rows # <<>> /\ p.next.values = ValuesOf(terms, p.rows[Len(p.rows)])
  /\ ~p.prev.none => p.rows # <<>> /\ p.prev.values = ValuesOf(terms, p.rows[1])

\* A row is on a page, or is beyond it with a cursor to go on.
Onward(p, forward) == IF forward THEN p.next ELSE p.prev
Far(p, forward) == IF forward THEN p.rows[Len(p.rows)] ELSE p.rows[1]
Reached(p, terms, forward, row) ==
  \/ row \in Range(p.rows)
  \/ ~Onward(p, forward).none /\ Beyond(terms, forward, row, Far(p, forward))

\* A page that shows some of the rows in M and goes on to all others.
PageOf(p, terms, forward, M) ==
  /\ PageIs(p, terms)
  /\ \A i \in DOMAIN p.rows : \E r \in M : p.rows[i] = RowOf(r)
  /\ \A r \in M : Reached(p, terms, forward, RowOf(r))

\* The rows of M that are next, the nearest one first.
NextOf(rows, terms, forward, M, extra) ==
  /\ rows \in Seq(Rows)
  /\ \A i, j \in DOMAIN rows : i < j => Beyond(terms, forward, rows[j], rows[i])
  /\ \A i \in DOMAIN rows : \E r \in M : rows[i] = RowOf(r)
  /\ \A r \in M : \/ RowOf(r) \in Range(rows)
                  \/ extra /\ Beyond(terms, forward, RowOf(r), rows[Len(rows)])
  /\ extra => rows # <<>>

LEMMA NextIsFetched ==
  ASSUME Inv, TableInv, relation = Described(catalog), Readable(catalog) # {},
         ~relation.bestEffort, NEW sort \in Sorts(relation), NEW before \in BOOLEAN,
         NEW M, M \subseteq Present
  PROVE  LET terms   == OrderOf(relation, sort)
             fetched == Select(M, IF before THEN Reversed(terms) ELSE terms, Limit + 1)
         IN NextOf(Cut(fetched), terms, ~before, M, Len(fetched) > Limit)
<1>. DEFINE terms == OrderOf(relation, sort)
            T == IF before THEN Reversed(terms) ELSE terms
            F == Select(M, T, Limit + 1)
            C == Cut(F)
            N == Cardinality(M)
<1>1. /\ terms \in Seq(Terms)
      /\ \A i \in 1..Len(terms) : terms[i].column \in relation.readable
  BY CatalogType, OrderParts
<1>2. /\ IsFiniteSet(Present)
      /\ \A r \in Present : RowOf(r) \in Rows /\ Typed(terms, table[r])
  BY <1>1, RowsArePlain DEF Typed
<1>3. \A q, r \in Present : q # r => Comes(terms, q, r) \/ Comes(terms, r, q)
  BY OrderDecides
<1>. HIDE DEF terms
<1>4. ASSUME NEW q \in Present, NEW r \in Present
      PROVE  /\ Comes(T, q, r) <=> Beyond(terms, ~before, RowOf(r), RowOf(q))
             /\ Comes(T, q, r) <=> IF before THEN Comes(terms, r, q) ELSE Comes(terms, q, r)
  <2>1. Precedes(Reversed(terms), table[q], table[r]) <=> Precedes(terms, table[r], table[q])
    BY <1>1, <1>2, ReversedIsBackwards DEF Typed
  <2>2. /\ Precedes(terms, RowOf(q), RowOf(r)) <=> Precedes(terms, table[q], table[r])
        /\ Precedes(terms, RowOf(r), RowOf(q)) <=> Precedes(terms, table[r], table[q])
    BY <1>1, ShownIsEnough DEF RowOf
  <2>. QED
    BY <2>1, <2>2 DEF Comes, Beyond
<1>5. Sortable(M, T)
  <2>1. T \in Seq(Terms) /\ Len(T) = Len(terms)
        /\ \A i \in 1..Len(terms) : T[i].column = terms[i].column
    BY <1>1, ReversedTerms
  <2>2. IsFiniteSet(M)
    BY <1>2, FS_Subset
  <2>. HIDE DEF T
  <2>. QED
    BY <1>2, <2>1, <2>2 DEF Sortable, Typed
<1>6. \A p, q \in M : p # q => Comes(T, p, q) \/ Comes(T, q, p)
  BY <1>3, <1>4
<1>. HIDE DEF T
<1>7. /\ F \in Seq(Rows) /\ N \in Nat /\ Limit \in Nat \ {0}
      /\ Len(F) = IF N < Limit + 1 THEN N ELSE Limit + 1
      /\ \A i \in 1..Len(F) : /\ i \in 1..N /\ Nth(M, T, i) \in M
                              /\ F[i] = RowOf(Nth(M, T, i))
  <2>1. Limit \in Nat \ {0} /\ Limit + 1 \in Nat
    BY BrowserAssumption DEF BrowserAssumption
  <2>. QED
    BY <1>2, <1>5, <2>1, SelectIs
<1>. HIDE DEF F
<1>8. /\ C \in Seq(Rows)
      /\ Len(C) = IF Len(F) > Limit THEN Limit ELSE Len(F)
      /\ \A i \in 1..Len(C) : i \in 1..Len(F) /\ C[i] = F[i]
      /\ DOMAIN C = 1..Len(C)
  BY <1>7, CutIs, LenProperties
<1>. HIDE DEF C, N
<1>9. \A i \in 1..Len(C) : /\ i \in 1..N /\ Nth(M, T, i) \in M
                           /\ C[i] = RowOf(Nth(M, T, i))
  BY <1>7, <1>8
<1>10. /\ \A i, j \in 1..N : i < j => Comes(T, Nth(M, T, i), Nth(M, T, j))
       /\ \A q \in M : \E i \in 1..N : Nth(M, T, i) = q
  BY <1>5, <1>6, NthInOrder DEF N
<1>11. ASSUME NEW i \in 1..Len(C), NEW j \in 1..N, i < j
       PROVE  Nth(M, T, j) \in M => Beyond(terms, ~before, RowOf(Nth(M, T, j)), C[i])
  BY <1>4, <1>9, <1>10, <1>11
<1>12. ASSUME NEW i \in DOMAIN C, NEW j \in DOMAIN C, i < j
       PROVE  Beyond(terms, ~before, C[j], C[i])
  BY <1>8, <1>9, <1>11, <1>12
<1>13. ASSUME NEW r \in M
       PROVE  \/ RowOf(r) \in Range(C)
              \/ Len(F) > Limit /\ Beyond(terms, ~before, RowOf(r), C[Len(C)])
  <2>1. PICK k \in 1..N : Nth(M, T, k) = r
    BY <1>10
  <2>2. CASE k \in 1..Len(C)
    BY <1>8, <1>9, <2>1, <2>2 DEF Range
  <2>3. CASE k \notin 1..Len(C)
    <3>1. Len(F) > Limit /\ Len(C) \in 1..Len(C) /\ Len(C) < k
      BY <1>7, <1>8, <2>3
    <3>. QED
      BY <1>11, <2>1, <3>1
  <2>. QED
    BY <2>2, <2>3
<1>14. Len(F) > Limit => C # <<>>
  BY <1>7, <1>8, EmptySeq
<1>15. NextOf(C, terms, ~before, M, Len(F) > Limit)
  BY <1>8, <1>9, <1>12, <1>13, <1>14 DEF NextOf
<1>. QED
  BY <1>15 DEF C, F, T, terms

LEMMA KeysetPageIs ==
  ASSUME Inv, TableInv, relation = Described(catalog), Readable(catalog) # {},
         ~relation.bestEffort, NEW req, req.sort \in Sorts(relation),
         req.direction \in {"first", "next", "previous"}, NEW x,
         req.direction # "first" =>
           x \in Rows /\ req.cursor.values = ValuesOf(OrderOf(relation, req.sort), x)
  PROVE  LET terms == OrderOf(relation, req.sort)
         IN PageOf(KeysetPage(req), terms, req.direction # "previous", Wanted(terms, req, x))
<1>. DEFINE terms == OrderOf(relation, req.sort)
            before == req.direction = "previous"
            M == Wanted(terms, req, x)
            matching == IF req.direction = "first" THEN Present
                        ELSE {r \in Present : SeekPredicate(terms, req.cursor.values, table[r], before)}
            F == Select(M, IF before THEN Reversed(terms) ELSE terms, Limit + 1)
            extra == Len(F) > Limit
            C == Cut(F)
            rows == IF before THEN Reverse(C) ELSE C
            hasPrevious == req.direction = "next" \/ (before /\ extra)
            hasNext == before \/ extra
            p == KeysetPage(req)
            Cursor(row) == KeysetCursor(ValuesOf(terms, row))
<1>1. /\ terms \in Seq(Terms) /\ terms = EffectiveOrder(relation, req.sort)
      /\ \A i \in 1..Len(terms) : terms[i].column \in relation.readable
  BY CatalogType, OrderParts
<1>2. matching = M
  <2>1. ASSUME req.direction # "first", NEW r \in Present
        PROVE  SeekPredicate(terms, req.cursor.values, table[r], before)
                 <=> Beyond(terms, ~before, RowOf(r), x)
    <3>. HIDE DEF terms
    <3>1. \A i \in 1..Len(terms) : x[terms[i].column] \in Values /\ table[r][terms[i].column] \in Values
      BY <1>1, <2>1, RowsArePlain DEF Rows
    <3>2. /\ SeekPredicate(terms, ValuesOf(terms, x), table[r], FALSE) <=> Precedes(terms, x, table[r])
          /\ SeekPredicate(terms, ValuesOf(terms, x), table[r], TRUE) <=> Precedes(terms, table[r], x)
      BY <1>1, <3>1, SeekIsOrder
    <3>3. /\ Precedes(terms, x, RowOf(r)) <=> Precedes(terms, x, table[r])
          /\ Precedes(terms, RowOf(r), x) <=> Precedes(terms, table[r], x)
      BY <1>1, ShownIsEnough DEF RowOf
    <3>4. req.cursor.values = ValuesOf(terms, x)
      BY <2>1 DEF terms
    <3>5. CASE before
      BY <3>2, <3>3, <3>4, <3>5 DEF Beyond
    <3>6. CASE ~before
      BY <3>2, <3>3, <3>4, <3>6 DEF Beyond
    <3>. QED
      BY <3>5, <3>6
  <2>. QED
    BY <2>1 DEF Wanted
<1>3. p = IF rows = <<>> THEN Page(rows, NoCursor, NoCursor)
          ELSE Page(rows, When(hasPrevious, Cursor(rows[1])), When(hasNext, Cursor(rows[Len(rows)])))
  BY <1>1, <1>2 DEF KeysetPage
<1>4. NextOf(C, terms, ~before, M, extra)
  <2>1. M \subseteq Present
    BY DEF Wanted
  <2>. HIDE DEF M
  <2>. QED
    BY <2>1, NextIsFetched
<1>. HIDE DEF terms, M, F, C, extra, p
<1>5. /\ p.rows = rows
      /\ ~p.next.none => rows # <<>> /\ p.next.values = ValuesOf(terms, rows[Len(rows)])
      /\ ~p.prev.none => rows # <<>> /\ p.prev.values = ValuesOf(terms, rows[1])
      /\ rows # <<>> /\ ~before /\ extra => ~p.next.none
      /\ rows # <<>> /\ before /\ extra => ~p.prev.none
  BY <1>3 DEF Page, When, KeysetCursor, NoCursor
<1>6. /\ C \in Seq(Rows) /\ Len(C) \in Nat /\ DOMAIN C = 1..Len(C)
      /\ \A i, j \in DOMAIN C : i < j => Beyond(terms, ~before, C[j], C[i])
      /\ \A i \in DOMAIN C : \E r \in M : C[i] = RowOf(r)
      /\ \A r \in M : \/ RowOf(r) \in Range(C)
                      \/ extra /\ Beyond(terms, ~before, RowOf(r), C[Len(C)])
      /\ extra => C # <<>>
  BY <1>4, LenProperties DEF NextOf
<1>7. CASE ~before
  <2>1. rows = C /\ req.direction # "previous"
    BY <1>7
  <2>2. \A i, j \in DOMAIN rows : i < j => Precedes(terms, rows[i], rows[j])
    BY <1>6, <1>7, <2>1 DEF Beyond
  <2>3. \A r \in M : \/ RowOf(r) \in Range(rows)
                     \/ ~p.next.none /\ Beyond(terms, TRUE, RowOf(r), rows[Len(rows)])
    BY <1>5, <1>6, <1>7, <2>1
  <2>4. PageOf(p, terms, TRUE, M)
    BY <1>5, <1>6, <2>1, <2>2, <2>3 DEF PageOf, PageIs, Reached, Onward, Far
  <2>. QED
    BY <2>1, <2>4 DEF p, M, terms
<1>8. CASE before
  <2>. DEFINE n == Len(C)
              D == Reverse(C)
  <2>1. /\ rows = D /\ D \in Seq(Rows) /\ Len(D) = n /\ DOMAIN D = 1..n
        /\ \A i \in 1..n : n - i + 1 \in 1..n /\ D[i] = C[n - i + 1]
    BY <1>6, <1>8, ReverseIs, LenProperties
  <2>. HIDE DEF D, rows
  <2>2. \A i, j \in 1..n : i < j => Precedes(terms, D[i], D[j])
    <3>1. ASSUME NEW i \in 1..n, NEW j \in 1..n, i < j
          PROVE  Precedes(terms, D[i], D[j])
      <4>1. n - j + 1 \in DOMAIN C /\ n - i + 1 \in DOMAIN C /\ n - j + 1 < n - i + 1
        BY <1>6, <2>1, <3>1
      <4>2. Beyond(terms, ~before, C[n - i + 1], C[n - j + 1])
        BY <1>6, <4>1
      <4>. QED
        BY <1>8, <2>1, <4>2 DEF Beyond
    <3>. QED
      BY <3>1
  <2>3. \A i \in 1..n : \E r \in M : D[i] = RowOf(r)
    BY <1>6, <2>1
  <2>4. Range(D) = Range(C)
    <3>1. \A i \in 1..n : C[i] = D[n - i + 1]
      <4>1. ASSUME NEW i \in 1..n PROVE C[i] = D[n - i + 1]
        <5>1. n - i + 1 \in 1..n /\ n - (n - i + 1) + 1 = i
          BY <1>6, <2>1
        <5>. QED
          BY <2>1, <5>1
      <4>. QED
        BY <4>1
    <3>2. \A i \in 1..n : \E j \in 1..n : D[i] = C[j]
      BY <2>1
    <3>3. \A i \in 1..n : \E j \in 1..n : C[i] = D[j]
      BY <2>1, <3>1
    <3>4. Range(D) = {D[i] : i \in 1..n} /\ Range(C) = {C[i] : i \in 1..n}
      BY <1>6, <2>1 DEF Range
    <3>5. \A y : y \in {D[i] : i \in 1..n} <=> y \in {C[i] : i \in 1..n}
      BY <3>2, <3>3
    <3>. QED
      BY <3>4, <3>5
  <2>5. \A r \in M : \/ RowOf(r) \in Range(D)
                     \/ ~p.prev.none /\ Beyond(terms, FALSE, RowOf(r), D[1])
    <3>1. ASSUME NEW r \in M, RowOf(r) \notin Range(D)
          PROVE  ~p.prev.none /\ Beyond(terms, FALSE, RowOf(r), D[1])
      <4>1. extra /\ Beyond(terms, FALSE, RowOf(r), C[n]) /\ C # <<>>
        BY <1>6, <1>8, <2>4, <3>1
      <4>2. n # 0
        BY <1>6, <4>1, EmptySeq
      <4>3. 1 \in 1..n /\ D[1] = C[n]
        BY <1>6, <2>1, <4>2
      <4>4. D # <<>>
        BY <2>1, <4>2, EmptySeq
      <4>. QED
        BY <1>5, <1>8, <2>1, <4>1, <4>3, <4>4
    <3>. QED
      BY <3>1
  <2>6. PageOf(p, terms, FALSE, M)
    <3>1. p.rows = D
      BY <1>5, <2>1
    <3>2. PageIs(p, terms)
      BY <1>5, <2>1, <2>2, <3>1 DEF PageIs
    <3>3. \A r \in M : Reached(p, terms, FALSE, RowOf(r))
      BY <2>5, <3>1 DEF Reached, Onward, Far
    <3>. QED
      BY <2>1, <2>3, <3>1, <3>2, <3>3 DEF PageOf
  <2>. QED
    BY <1>8, <2>6 DEF p, M, terms
<1>. QED
  BY <1>7, <1>8

\* The cursor that a page was asked for with is that of the last row of the walk
\* so far, or of the row where the user turned round: x.  Whatever is written
\* meanwhile, the page holds rows beyond that one only, and lacks of the untouched
\* rows beyond it only those that its own cursor goes on to; the others were seen.
Anchored(p, w, terms, forward, x) ==
  /\ x \in Rows
  /\ \A i \in DOMAIN w.seen : w.seen[i] = x \/ Beyond(terms, forward, x, w.seen[i])
  /\ \A i \in DOMAIN p.rows : Beyond(terms, forward, p.rows[i], x)
  /\ w.from # NoRow => x = w.from \/ Beyond(terms, forward, x, w.from)
  /\ \A r \in w.steady :
       \/ Beyond(terms, forward, RowOf(r), x) /\ Reached(p, terms, forward, RowOf(r))
       \/ ~Beyond(terms, forward, RowOf(r), x) /\ RowOf(r) \in Range(w.seen)
       \/ /\ ~Beyond(terms, forward, RowOf(r), x)
          /\ w.from # NoRow /\ ~Beyond(terms, forward, RowOf(r), w.from)

SeenRows(w, terms, forward) ==
  /\ w.seen \in Seq(Rows)
  /\ w.from = NoRow \/ w.from \in Rows
  /\ \A i, j \in DOMAIN w.seen : i # j => w.seen[i] # w.seen[j]
  /\ w.from # NoRow => \A i \in DOMAIN w.seen : Beyond(terms, forward, w.seen[i], w.from)

\* A walk, with the page that it has come to.
KeysetWalk(p, w, req, terms, forward) ==
  /\ PageIs(p, terms)
  /\ SeenRows(w, terms, forward)
  /\ \/ /\ req.direction = "first" /\ forward
        /\ w.seen = <<>> /\ w.from = NoRow
        /\ \A r \in w.steady : Reached(p, terms, forward, RowOf(r))
     \/ /\ req.direction = IF forward THEN "next" ELSE "previous"
        /\ \E x \in Rows : /\ req.cursor.values = ValuesOf(terms, x)
                           /\ Anchored(p, w, terms, forward, x)

\* What pages are fetched from.
Fetchable(sort) ==
  /\ Inv /\ TableInv
  /\ relation = Described(catalog) /\ Readable(catalog) # {}
  /\ sort \in Sorts(relation)

LEMMA FetchableParts ==
  ASSUME NEW sort, Fetchable(sort)
  PROVE  /\ OrderOf(relation, sort) \in Seq(Terms)
         /\ \A x \in Rows : Typed(OrderOf(relation, sort), x)
         /\ \A r \in Present : RowOf(r) \in Rows
         /\ NoRow \notin Rows
<1>1. catalog \in Catalogs
  BY CatalogType DEF Fetchable
<1>2. /\ OrderOf(relation, sort) \in Seq(Terms)
      /\ \A i \in 1..Len(OrderOf(relation, sort)) :
           OrderOf(relation, sort)[i].column \in relation.readable
  BY <1>1, OrderParts DEF Fetchable
<1>3. \A x \in Rows : Typed(OrderOf(relation, sort), x)
  BY <1>2 DEF Typed, Rows
<1>. QED
  BY <1>2, <1>3, RowsArePlain DEF Fetchable

\* The first page of all.
LEMMA WalkBegins ==
  ASSUME NEW sort, Fetchable(sort), ~relation.bestEffort,
         NEW req, req.direction = "first", req.sort = sort,
         NEW w, w.seen = <<>>, w.from = NoRow, w.steady \subseteq Present
  PROVE  KeysetWalk(KeysetPage(req), w, req, OrderOf(relation, sort), TRUE)
<1>. DEFINE terms == OrderOf(relation, sort)
            p == KeysetPage(req)
<1>1. PageOf(p, terms, TRUE, Wanted(terms, req, NoRow))
  BY KeysetPageIs DEF Fetchable
<1>2. Wanted(terms, req, NoRow) = Present
  BY DEF Wanted
<1>. HIDE DEF p, terms
<1>3. PageIs(p, terms) /\ \A r \in w.steady : Reached(p, terms, TRUE, RowOf(r))
  BY <1>1, <1>2 DEF PageOf
<1>4. SeenRows(w, terms, TRUE)
  BY EmptySeq DEF SeenRows
<1>5. KeysetWalk(p, w, req, terms, TRUE)
  BY <1>3, <1>4 DEF KeysetWalk
<1>. QED
  BY <1>5 DEF p, terms

\* A page fetched again with the cursor of before.
LEMMA WalkStays ==
  ASSUME NEW sort, Fetchable(sort), ~relation.bestEffort, NEW forward \in BOOLEAN,
         NEW p, NEW w, NEW req, req.sort = sort, w.steady \subseteq Present,
         KeysetWalk(p, w, req, OrderOf(relation, sort), forward),
         NEW v, v.seen = w.seen, v.from = w.from, v.steady = w.steady
  PROVE  KeysetWalk(KeysetPage(req), v, req, OrderOf(relation, sort), forward)
<1>. DEFINE terms == OrderOf(relation, sort)
            q == KeysetPage(req)
<1>1. SeenRows(v, terms, forward)
  BY DEF KeysetWalk, SeenRows
<1>2. CASE req.direction = "first"
  <2>1. forward = TRUE /\ v.seen = <<>> /\ v.from = NoRow
    BY <1>2 DEF KeysetWalk
  <2>. QED
    BY <1>2, <2>1, WalkBegins
<1>3. CASE req.direction # "first"
  <2>1. /\ req.direction = IF forward THEN "next" ELSE "previous"
        /\ forward = (req.direction # "previous")
    BY <1>3 DEF KeysetWalk
  <2>2. PICK x \in Rows : req.cursor.values = ValuesOf(terms, x) /\ Anchored(p, w, terms, forward, x)
    BY <1>3 DEF KeysetWalk
  <2>. DEFINE M == Wanted(terms, req, x)
  <2>3. PageOf(q, terms, forward, M)
    BY <1>3, <2>1, <2>2, KeysetPageIs DEF Fetchable
  <2>4. M = {r \in Present : Beyond(terms, forward, RowOf(r), x)}
    BY <1>3, <2>1 DEF Wanted
  <2>. HIDE DEF M, q, terms
  <2>5. /\ \A i \in DOMAIN q.rows : Beyond(terms, forward, q.rows[i], x)
        /\ \A r \in w.steady :
             Beyond(terms, forward, RowOf(r), x) => Reached(q, terms, forward, RowOf(r))
    BY <2>3, <2>4 DEF PageOf
  <2>6. Anchored(q, v, terms, forward, x)
    BY <2>2, <2>5 DEF Anchored
  <2>7. KeysetWalk(q, v, req, terms, forward)
    BY <1>1, <2>1, <2>2, <2>3, <2>6 DEF KeysetWalk, PageOf
  <2>. QED
    BY <2>7 DEF q, terms
<1>. QED
  BY <1>2, <1>3

LEMMA JoinedRows ==
  ASSUME NEW R, NEW s \in Seq(R), NEW t \in Seq(R)
  PROVE  /\ s \o t \in Seq(R) /\ Len(s \o t) = Len(s) + Len(t)
         /\ Len(s) \in Nat /\ Len(t) \in Nat
         /\ \A i \in DOMAIN (s \o t) :
              \/ i \in DOMAIN s /\ (s \o t)[i] = s[i]
              \/ i > Len(s) /\ i - Len(s) \in DOMAIN t /\ (s \o t)[i] = t[i - Len(s)]
         /\ \A i \in DOMAIN s : i \in DOMAIN (s \o t) /\ (s \o t)[i] = s[i]
         /\ \A i \in DOMAIN t : Len(s) + i \in DOMAIN (s \o t) /\ (s \o t)[Len(s) + i] = t[i]
         /\ Range(s) \subseteq Range(s \o t) /\ Range(t) \subseteq Range(s \o t)
<1>. DEFINE j == s \o t
<1>1. /\ j \in Seq(R) /\ Len(j) = Len(s) + Len(t)
      /\ \A i \in 1..(Len(s) + Len(t)) : j[i] = IF i <= Len(s) THEN s[i] ELSE t[i - Len(s)]
  BY ConcatProperties
<1>. HIDE DEF j
<1>2. /\ Len(s) \in Nat /\ Len(t) \in Nat
      /\ DOMAIN j = 1..Len(j) /\ DOMAIN s = 1..Len(s) /\ DOMAIN t = 1..Len(t)
  BY <1>1, LenProperties
<1>3. \A i \in DOMAIN j : \/ i \in DOMAIN s /\ j[i] = s[i]
                          \/ i > Len(s) /\ i - Len(s) \in DOMAIN t /\ j[i] = t[i - Len(s)]
  BY <1>1, <1>2
<1>4. \A i \in DOMAIN s : i \in DOMAIN j /\ j[i] = s[i]
  BY <1>1, <1>2
<1>5. ASSUME NEW i \in DOMAIN t PROVE Len(s) + i \in DOMAIN j /\ j[Len(s) + i] = t[i]
  <2>1. /\ Len(s) + i \in 1..(Len(s) + Len(t)) /\ ~(Len(s) + i <= Len(s))
        /\ Len(s) + i - Len(s) = i
    BY <1>2
  <2>. QED
    BY <1>1, <1>2, <2>1
<1>6. Range(s) \subseteq Range(j) /\ Range(t) \subseteq Range(j)
  BY <1>4, <1>5 DEF Range
<1>. QED
  BY <1>1, <1>2, <1>3, <1>4, <1>5, <1>6 DEF j

\* The last row of a page on a walk is beyond its others.
LEMMA FarIsLast ==
  ASSUME NEW terms, NEW forward \in BOOLEAN, NEW p, PageIs(p, terms), p.rows # <<>>
  PROVE  /\ Far(p, forward) \in Rows
         /\ \A i \in DOMAIN p.rows :
              p.rows[i] = Far(p, forward) \/ Beyond(terms, forward, Far(p, forward), p.rows[i])
         /\ \A i, j \in DOMAIN p.rows :
              i # j => \/ Beyond(terms, forward, p.rows[i], p.rows[j])
                       \/ Beyond(terms, forward, p.rows[j], p.rows[i])
         /\ Far(p, forward) \in Range(p.rows)
<1>1. /\ Len(p.rows) \in Nat /\ DOMAIN p.rows = 1..Len(p.rows)
      /\ \A i \in 1..Len(p.rows) : p.rows[i] \in Rows
      /\ Len(p.rows) # 0
  BY LenProperties, ElementOfSeq, EmptySeq DEF PageIs
<1>2. 1 \in 1..Len(p.rows) /\ Len(p.rows) \in 1..Len(p.rows)
  BY <1>1
<1>3. \A i, j \in 1..Len(p.rows) : i < j => Precedes(terms, p.rows[i], p.rows[j])
  BY <1>1 DEF PageIs
<1>4. \A i \in 1..Len(p.rows) : (i = 1 \/ 1 < i) /\ (i = Len(p.rows) \/ i < Len(p.rows))
  BY <1>1
<1>5. \A i, j \in 1..Len(p.rows) : i = j \/ i < j \/ j < i
  BY <1>1
<1>6. CASE forward
  BY <1>1, <1>2, <1>3, <1>4, <1>5, <1>6 DEF Far, Beyond, Range
<1>7. CASE ~forward
  BY <1>1, <1>2, <1>3, <1>4, <1>5, <1>7 DEF Far, Beyond, Range
<1>. QED
  BY <1>6, <1>7

\* The rows of the page that a walk w has come to are beyond all that was seen
\* before, and none was seen twice; v has seen the page too.
Joined(p, w, v, terms, forward) ==
  /\ \A i \in DOMAIN p.rows : \A k \in DOMAIN w.seen :
       Beyond(terms, forward, p.rows[i], w.seen[k])
  /\ \A i \in DOMAIN p.rows :
       w.from # NoRow => Beyond(terms, forward, p.rows[i], w.from)
  /\ SeenRows(v, terms, forward)
  /\ Range(v.seen) = Range(w.seen) \cup Range(p.rows)

LEMMA ShownOnce ==
  ASSUME NEW sort, Fetchable(sort), NEW forward \in BOOLEAN, NEW p, NEW w, NEW req,
         KeysetWalk(p, w, req, OrderOf(relation, sort), forward),
         NEW v, v.seen = w.seen \o p.rows, v.from = w.from
  PROVE  Joined(p, w, v, OrderOf(relation, sort), forward)
<1>. DEFINE terms == OrderOf(relation, sort)
            B(a, b) == Beyond(terms, forward, a, b)
<1>1. /\ terms \in Seq(Terms) /\ \A x \in Rows : Typed(terms, x)
  BY FetchableParts
<1>. HIDE DEF terms
<1>2. \A a, b, c \in Rows : B(a, b) /\ B(b, c) => B(a, c)
  BY <1>1, BeyondOrder
<1>3. \A a, b \in Rows : a # b \/ ~B(a, b)
  BY <1>1, BeyondOrder
<1>4. PageIs(p, terms) /\ SeenRows(w, terms, forward)
  BY DEF KeysetWalk, terms
<1>5. /\ p.rows \in Seq(Rows) /\ w.seen \in Seq(Rows)
      /\ \A i \in DOMAIN p.rows : p.rows[i] \in Rows
      /\ \A i \in DOMAIN w.seen : w.seen[i] \in Rows
  BY <1>4, LenProperties DEF PageIs, SeenRows
<1>6. \A i, j \in DOMAIN p.rows : i # j => B(p.rows[i], p.rows[j]) \/ B(p.rows[j], p.rows[i])
  <2>1. CASE p.rows = <<>>
    BY <2>1, EmptySeq
  <2>2. CASE p.rows # <<>>
    BY <1>4, <2>2, FarIsLast
  <2>. QED
    BY <2>1, <2>2
<1>7. /\ v.seen \in Seq(Rows)
      /\ \A i \in DOMAIN v.seen :
           \/ i \in DOMAIN w.seen /\ v.seen[i] = w.seen[i]
           \/ /\ i > Len(w.seen) /\ i - Len(w.seen) \in DOMAIN p.rows
              /\ v.seen[i] = p.rows[i - Len(w.seen)]
      /\ Range(w.seen) \subseteq Range(v.seen) /\ Range(p.rows) \subseteq Range(v.seen)
  <2>. DEFINE s == w.seen
              t == p.rows
  <2>1. s \in Seq(Rows) /\ t \in Seq(Rows)
    BY <1>5
  <2>2. v.seen = s \o t
    OBVIOUS
  <2>. HIDE DEF s, t
  <2>3. /\ s \o t \in Seq(Rows)
        /\ \A i \in DOMAIN (s \o t) :
             \/ i \in DOMAIN s /\ (s \o t)[i] = s[i]
             \/ i > Len(s) /\ i - Len(s) \in DOMAIN t /\ (s \o t)[i] = t[i - Len(s)]
        /\ Range(s) \subseteq Range(s \o t) /\ Range(t) \subseteq Range(s \o t)
    BY <2>1, JoinedRows
  <2>. QED
    BY <2>2, <2>3 DEF s, t
<1>8. /\ \A i \in DOMAIN p.rows : \A k \in DOMAIN w.seen : B(p.rows[i], w.seen[k])
      /\ \A i \in DOMAIN p.rows : w.from # NoRow => B(p.rows[i], w.from)
  <2>1. CASE req.direction = "first"
    <3>1. w.seen = <<>> /\ w.from = NoRow
      BY <2>1 DEF KeysetWalk
    <3>. QED
      BY <3>1, EmptySeq
  <2>2. CASE req.direction # "first"
    <3>1. PICK x \in Rows : Anchored(p, w, terms, forward, x)
      BY <2>2 DEF KeysetWalk, terms
    <3>2. /\ \A i \in DOMAIN w.seen : w.seen[i] = x \/ B(x, w.seen[i])
          /\ \A i \in DOMAIN p.rows : B(p.rows[i], x)
          /\ w.from # NoRow => x = w.from \/ B(x, w.from)
      BY <3>1 DEF Anchored
    <3>3. w.from # NoRow => w.from \in Rows
      BY <1>4 DEF SeenRows
    <3>. HIDE DEF B
    <3>4. \A i \in DOMAIN p.rows : \A k \in DOMAIN w.seen : B(p.rows[i], w.seen[k])
      BY <1>2, <1>5, <3>2
    <3>5. \A i \in DOMAIN p.rows : w.from # NoRow => B(p.rows[i], w.from)
      BY <1>2, <1>5, <3>2, <3>3
    <3>. QED
      BY <3>4, <3>5
  <2>. QED
    BY <2>1, <2>2
<1>9. SeenRows(v, terms, forward)
  <2>1. ASSUME NEW i \in DOMAIN v.seen, NEW j \in DOMAIN v.seen, i # j
        PROVE  v.seen[i] # v.seen[j]
    <3>1. CASE i \in DOMAIN w.seen /\ v.seen[i] = w.seen[i] /\ j \in DOMAIN w.seen /\ v.seen[j] = w.seen[j]
      BY <1>4, <2>1, <3>1 DEF SeenRows
    <3>2. ASSUME NEW k \in DOMAIN w.seen, NEW l \in DOMAIN p.rows PROVE w.seen[k] # p.rows[l]
      <4>. HIDE DEF B
      <4>. QED
        BY <1>3, <1>5, <1>8
    <3>3. ASSUME NEW k \in DOMAIN p.rows, NEW l \in DOMAIN p.rows, k # l PROVE p.rows[k] # p.rows[l]
      <4>. HIDE DEF B
      <4>. QED
        BY <1>3, <1>5, <1>6, <3>3
    <3>4. i \in Int /\ j \in Int /\ Len(w.seen) \in Int
      BY <1>5, <1>7, LenProperties
    <3>5. i - Len(w.seen) # j - Len(w.seen)
      BY <2>1, <3>4
    <3>. QED
      BY <1>7, <3>1, <3>2, <3>3, <3>5
  <2>2. w.from # NoRow => \A i \in DOMAIN v.seen : B(v.seen[i], w.from)
    BY <1>4, <1>7, <1>8 DEF SeenRows
  <2>. QED
    BY <1>4, <1>7, <2>1, <2>2 DEF SeenRows
<1>10. Range(v.seen) = Range(w.seen) \cup Range(p.rows)
  BY <1>7 DEF Range
<1>. QED
  BY <1>8, <1>9, <1>10 DEF terms, Joined

\* The untouched rows that are not beyond the page were shown, or are not in the
\* scope of the walk.
LEMMA NoneMissed ==
  ASSUME NEW p, NEW w, NEW req, NEW terms, NEW forward \in BOOLEAN,
         KeysetWalk(p, w, req, terms, forward), NEW r \in w.steady
  PROVE  \/ RowOf(r) \in Range(w.seen) \cup Range(p.rows)
         \/ w.from # NoRow /\ ~Beyond(terms, forward, RowOf(r), w.from)
         \/ /\ ~Onward(p, forward).none
            /\ Beyond(terms, forward, RowOf(r), Far(p, forward))
<1>1. CASE req.direction = "first"
  BY <1>1 DEF KeysetWalk, Reached
<1>2. CASE req.direction # "first"
  <2>1. PICK x \in Rows : Anchored(p, w, terms, forward, x)
    BY <1>2 DEF KeysetWalk
  <2>. QED
    BY <2>1 DEF Anchored, Reached
<1>. QED
  BY <1>1, <1>2

\* The next page in the same direction.
LEMMA WalkGoesOn ==
  ASSUME NEW sort, Fetchable(sort), ~relation.bestEffort, NEW forward \in BOOLEAN,
         NEW p, NEW w, NEW req, w.steady \subseteq Present,
         KeysetWalk(p, w, req, OrderOf(relation, sort), forward),
         ~Onward(p, forward).none,
         NEW rq, rq.sort = sort, rq.cursor = Onward(p, forward),
         rq.direction = IF forward THEN "next" ELSE "previous",
         NEW v, v.seen = w.seen \o p.rows, v.from = w.from, v.steady = w.steady
  PROVE  KeysetWalk(KeysetPage(rq), v, rq, OrderOf(relation, sort), forward)
<1>. DEFINE terms == OrderOf(relation, sort)
            q == KeysetPage(rq)
            y == Far(p, forward)
            B(a, b) == Beyond(terms, forward, a, b)
            M == Wanted(terms, rq, y)
<1>1. /\ PageIs(p, terms) /\ SeenRows(w, terms, forward)
      /\ p.rows # <<>>
      /\ rq.cursor.values = ValuesOf(terms, y)
  BY DEF KeysetWalk, PageIs, Onward, Far
<1>2. /\ y \in Rows /\ y \in Range(p.rows)
      /\ \A i \in DOMAIN p.rows : p.rows[i] = y \/ B(y, p.rows[i])
  BY <1>1, FarIsLast
<1>3. /\ \A i \in DOMAIN p.rows : \A k \in DOMAIN w.seen : B(p.rows[i], w.seen[k])
      /\ \A i \in DOMAIN p.rows : w.from # NoRow => B(p.rows[i], w.from)
      /\ SeenRows(v, terms, forward)
      /\ Range(v.seen) = Range(w.seen) \cup Range(p.rows)
  <2>1. Joined(p, w, v, OrderOf(relation, sort), forward)
    <3>. HIDE DEF y, q, M, B
    <3>. QED
      BY ShownOnce DEF terms
  <2>. QED
    BY <2>1 DEF Joined
<1>4. PageOf(q, terms, forward, M)
  <2>1. forward = (rq.direction # "previous") /\ rq.direction \in {"first", "next", "previous"}
    OBVIOUS
  <2>. QED
    BY <1>1, <1>2, <2>1, KeysetPageIs DEF Fetchable
<1>5. M = {r \in Present : B(RowOf(r), y)}
  BY DEF Wanted
<1>6. \A r \in w.steady : ~B(RowOf(r), y) =>
         \/ RowOf(r) \in Range(v.seen)
         \/ w.from # NoRow /\ ~B(RowOf(r), w.from)
  BY <1>3, NoneMissed
<1>. HIDE DEF M, q, terms
<1>7. Anchored(q, v, terms, forward, y)
  <2>1. \A i \in DOMAIN v.seen : v.seen[i] = y \/ B(y, v.seen[i])
    <3>0. PICK m \in DOMAIN p.rows : y = p.rows[m]
      BY <1>2 DEF Range
    <3>1. \A k \in DOMAIN w.seen : B(y, w.seen[k])
      BY <1>3, <3>0
    <3>2. \A s \in Range(w.seen) \cup Range(p.rows) : s = y \/ B(y, s)
      BY <1>2, <3>1 DEF Range
    <3>3. \A i \in DOMAIN v.seen : v.seen[i] \in Range(v.seen)
      BY DEF Range
    <3>. HIDE DEF B, y
    <3>. QED
      BY <1>3, <3>2, <3>3
  <2>2. \A i \in DOMAIN q.rows : B(q.rows[i], y)
    BY <1>4, <1>5 DEF PageOf
  <2>3. v.from # NoRow => B(y, v.from)
    BY <1>2, <1>3 DEF Range
  <2>4. \A r \in v.steady : B(RowOf(r), y) => Reached(q, terms, forward, RowOf(r))
    BY <1>4, <1>5 DEF PageOf
  <2>. HIDE DEF y
  <2>. QED
    BY <1>2, <1>6, <2>1, <2>2, <2>3, <2>4 DEF Anchored
<1>8. KeysetWalk(q, v, rq, terms, forward)
  BY <1>1, <1>2, <1>3, <1>4, <1>7 DEF KeysetWalk, PageOf
<1>. QED
  BY <1>8 DEF q, terms

\* The page before a page, or after it, when the walk was in the other direction.
LEMMA WalkTurns ==
  ASSUME NEW sort, Fetchable(sort), ~relation.bestEffort, NEW forward \in BOOLEAN,
         NEW p, PageIs(p, OrderOf(relation, sort)), ~Onward(p, forward).none,
         NEW rq, rq.sort = sort, rq.cursor = Onward(p, forward),
         rq.direction = IF forward THEN "next" ELSE "previous",
         NEW v, v.seen = <<>>, v.from = Far(p, forward), v.steady = Present
  PROVE  KeysetWalk(KeysetPage(rq), v, rq, OrderOf(relation, sort), forward)
<1>. DEFINE terms == OrderOf(relation, sort)
            q == KeysetPage(rq)
            y == Far(p, forward)
            M == Wanted(terms, rq, y)
<1>1. /\ p.rows # <<>> /\ rq.cursor.values = ValuesOf(terms, y)
      /\ NoRow \notin Rows
  BY FetchableParts DEF PageIs, Onward, Far
<1>2. y \in Rows
  BY <1>1, FarIsLast
<1>3. PageOf(q, terms, forward, M)
  <2>1. forward = (rq.direction # "previous") /\ rq.direction \in {"first", "next", "previous"}
    OBVIOUS
  <2>. QED
    BY <1>1, <1>2, <2>1, KeysetPageIs DEF Fetchable
<1>4. M = {r \in Present : Beyond(terms, forward, RowOf(r), y)}
  BY DEF Wanted
<1>. HIDE DEF M, q, terms, y
<1>5. SeenRows(v, terms, forward)
  BY <1>2, EmptySeq DEF SeenRows, y
<1>6. Anchored(q, v, terms, forward, y)
  BY <1>1, <1>2, <1>3, <1>4, EmptySeq DEF Anchored, PageOf, y
<1>7. KeysetWalk(q, v, rq, terms, forward)
  BY <1>1, <1>2, <1>3, <1>5, <1>6 DEF KeysetWalk, PageOf
<1>. QED
  BY <1>7 DEF q, terms

-----------------------------------------------------------------------------
(* The invariant of walks over a relation with a key.                      *)

Order == OrderOf(relation, request.sort)
Forward == walk.direction = "next"

SortInv ==
  /\ "seen" \in DOMAIN walk /\ walk.direction \in {"next", "previous"}
  /\ page.loaded => request.sort \in Sorts(relation)
KeysetInv ==
  page.loaded /\ ~relation.bestEffort => KeysetWalk(page, walk, request, Order, Forward)

LEMMA TableInvBegins == Init => TableInv
<1>. SUFFICES ASSUME Init PROVE TableInv
  OBVIOUS
<1>1. world \in Worlds /\ table \in world.tables /\ Legal(table)
  BY DEF Init
<1>2. DOMAIN table = RowIds /\ \A r \in RowIds : table[r] \in world.rows \cup {Absent}
  BY <1>1, BrowserAssumption DEF BrowserAssumption
<1>. QED
  BY <1>1, <1>2 DEF Init, TableInv

LEMMA TableInvStays == TableInv /\ [Next]_vars => TableInv'
<1>. SUFFICES ASSUME TableInv, [Next]_vars PROVE TableInv'
  OBVIOUS
<1>1. ASSUME UNCHANGED <<world, table, writes>>,
             walk'.steady \subseteq Present, walk'.fetched \in 0..writes, walk'.began \in 0..walk'.fetched
      PROVE  TableInv'
  BY <1>1 DEF TableInv, Present, Legal, catalog
<1>2. CASE Describe
  BY <1>1, <1>2 DEF Describe, TableInv
<1>3. CASE FetchFirst
  BY <1>1, <1>3 DEF FetchFirst, Fetches, NewWalk, TableInv
<1>4. ASSUME NEW direction, NEW turn, UNCHANGED <<world, table, writes>>, Continue(direction, turn)
      PROVE  TableInv'
  <2>1. CASE walk.direction = direction
    <3>1. /\ walk'.steady = walk.steady /\ walk'.began = walk.began
          /\ walk'.fetched \in {writes, walk.fetched}
          /\ walk'.fetched = writes \/ walk'.fetched = walk.fetched
      BY <1>4, <2>1 DEF Continue
    <3>. QED
      BY <1>1, <1>4, <3>1 DEF TableInv
  <2>2. CASE walk.direction # direction
    <3>1. walk' = NewWalk(direction, turn, walk.fetched)
      BY <1>4, <2>2 DEF Continue
    <3>. QED
      BY <1>1, <1>4, <3>1 DEF NewWalk, TableInv
  <2>. QED
    BY <2>1, <2>2
<1>5. CASE FetchNext
  BY <1>4, <1>5 DEF FetchNext, Fetches
<1>6. CASE FetchPrevious
  BY <1>4, <1>6 DEF FetchPrevious, Fetches
<1>7. CASE FetchAgain
  <2>1. /\ walk'.steady = walk.steady /\ walk'.began = walk.began
        /\ walk'.fetched = writes \/ walk'.fetched = walk.fetched
    BY <1>7 DEF FetchAgain
  <2>. QED
    BY <1>1, <1>7, <2>1 DEF FetchAgain, Fetches, TableInv
<1>8. CASE Write
  <2>1. PICK r \in RowIds, row \in world.rows \cup {Absent} :
          /\ table' = [table EXCEPT ![r] = row]
          /\ Legal(table')
          /\ walk' = [walk EXCEPT !.steady = @ \ {r}]
    BY <1>8 DEF Write
  <2>2. writes' = writes + 1 /\ world' = world
    BY <1>8 DEF Write
  <2>3. /\ walk'.steady \subseteq walk.steady \ {r}
        /\ walk'.fetched = walk.fetched /\ walk'.began = walk.began
    BY <2>1
  <2>4. /\ DOMAIN table' = RowIds
        /\ \A q \in RowIds : q # r => table'[q] = table[q]
        /\ \A q \in RowIds : table'[q] \in world.rows \cup {Absent}
    BY <2>1 DEF TableInv
  <2>5. walk'.steady \subseteq Present'
    BY <2>3, <2>4 DEF TableInv, Present
  <2>6. Legal(table)'
    BY <2>1, <2>2 DEF Legal, catalog
  <2>7. /\ writes' \in Nat /\ walk'.fetched \in 0..writes' /\ walk'.began \in 0..walk'.fetched
    BY <2>2, <2>3 DEF TableInv
  <2>. QED
    BY <2>2, <2>4, <2>5, <2>6, <2>7 DEF TableInv
<1>9. CASE UNCHANGED vars
  BY <1>1, <1>9 DEF vars, TableInv
<1>. QED
  BY <1>2, <1>3, <1>5, <1>6, <1>7, <1>8, <1>9 DEF Next

\* A walk over the same rows, of which others may have been written meanwhile.
LEMMA WalkSurvives ==
  ASSUME NEW sort, Fetchable(sort), KeysetWalk(page, walk, request, Order, Forward),
         relation' = relation, page' = page, request' = request,
         walk'.direction = walk.direction, walk'.seen = walk.seen, walk'.from = walk.from,
         walk'.steady \subseteq walk.steady, \A r \in walk'.steady : table'[r] = table[r]
  PROVE  KeysetWalk(page, walk, request, Order, Forward)'
<1>1. Order' = Order /\ Forward' = Forward /\ Rows' = Rows
  BY DEF Order, Forward, Rows
<1>2. \A r \in walk'.steady : RowOf(r)' = RowOf(r) /\ r \in walk.steady
  BY DEF RowOf
<1>3. PageIs(page, Order)'
  BY <1>1 DEF KeysetWalk, PageIs
<1>4. SeenRows(walk, Order, Forward)'
  BY <1>1 DEF KeysetWalk, SeenRows
<1>5. \A row : Reached(page, Order, Forward, row)' <=> Reached(page, Order, Forward, row)
  BY <1>1 DEF Reached, Onward, Far
<1>6. \A x : Anchored(page, walk, Order, Forward, x) => Anchored(page, walk, Order, Forward, x)'
  <2>1. ASSUME NEW x, Anchored(page, walk, Order, Forward, x)
        PROVE  Anchored(page, walk, Order, Forward, x)'
    <3>1. /\ x \in Rows'
          /\ \A i \in DOMAIN walk'.seen : walk'.seen[i] = x \/ Beyond(Order', Forward', x, walk'.seen[i])
          /\ \A i \in DOMAIN page'.rows : Beyond(Order', Forward', page'.rows[i], x)
          /\ walk'.from # NoRow => x = walk'.from \/ Beyond(Order', Forward', x, walk'.from)
      BY <1>1, <2>1 DEF Anchored
    <3>2. \A r \in walk'.steady :
            \/ Beyond(Order', Forward', RowOf(r)', x) /\ Reached(page, Order, Forward, RowOf(r))'
            \/ ~Beyond(Order', Forward', RowOf(r)', x) /\ RowOf(r)' \in Range(walk'.seen)
            \/ /\ ~Beyond(Order', Forward', RowOf(r)', x)
               /\ walk'.from # NoRow /\ ~Beyond(Order', Forward', RowOf(r)', walk'.from)
      BY <1>1, <1>2, <1>5, <2>1 DEF Anchored, Reached, Onward, Far
    <3>. QED
      BY <3>1, <3>2 DEF Anchored
  <2>. QED
    BY <2>1
<1>7. (\A r \in walk.steady : Reached(page, Order, Forward, RowOf(r)))
        => \A r \in walk'.steady : Reached(page, Order, Forward, RowOf(r))'
  BY <1>1, <1>2 DEF Reached, Onward, Far
<1>. QED
  BY <1>1, <1>3, <1>4, <1>6, <1>7 DEF KeysetWalk

\* A walk that has come to another page.
LEMMA WalkMoves ==
  ASSUME NEW sort, NEW forward \in BOOLEAN, UNCHANGED <<table, relation>>,
         KeysetWalk(page', walk', request', OrderOf(relation, sort), forward),
         request'.sort = sort, Forward' = forward
  PROVE  KeysetWalk(page, walk, request, Order, Forward)'
<1>1. Order' = OrderOf(relation, sort) /\ Rows' = Rows
  BY DEF Order, Rows
<1>2. \A r : RowOf(r)' = RowOf(r)
  BY DEF RowOf
<1>. QED
  BY <1>1, <1>2 DEF KeysetWalk, PageIs, SeenRows, Anchored, Reached, Onward, Far

\* A page is fetched of what Describe returned, and Describe returns it again.
LEMMA LoadedStays ==
  ASSUME Inv, page.loaded, [Next]_vars
  PROVE  relation' = relation /\ world' = world
<1>1. CASE Describe
  BY <1>1 DEF Describe, Inv
<1>. QED
  BY <1>1 DEF Next, FetchFirst, FetchNext, FetchPrevious, FetchAgain, Fetches, Write, vars

LEMMA PageLoaded ==
  ASSUME NEW req PROVE KeysetPage(req).loaded /\ OffsetPage(req).loaded
BY DEF KeysetPage, OffsetPage, Page

LEMMA SortInvStays == Inv /\ SortInv /\ [Next]_vars => SortInv'
<1>. SUFFICES ASSUME Inv, SortInv, [Next]_vars PROVE SortInv'
  OBVIOUS
<1>1. CASE Describe
  BY <1>1, LoadedStays DEF Describe, SortInv
<1>2. CASE FetchFirst
  <2>1. PICK sort \in Sorts(relation) : Fetches(First(sort)) /\ walk' = NewWalk("next", NoRow, writes)
    BY <1>2 DEF FetchFirst
  <2>2. /\ request'.sort = sort /\ relation' = relation /\ walk'.direction = "next"
        /\ "seen" \in DOMAIN walk'
    BY <2>1 DEF Fetches, First, NewWalk
  <2>. QED
    BY <2>2 DEF SortInv
<1>3. ASSUME NEW direction \in {"next", "previous"}, NEW turn, Continue(direction, turn)
      PROVE  walk'.direction = direction /\ "seen" \in DOMAIN walk'
  BY <1>3 DEF Continue, NewWalk, SortInv
<1>4. CASE FetchNext
  <2>1. request'.sort = request.sort /\ relation' = relation /\ page.loaded
    BY <1>4 DEF FetchNext, Fetches
  <2>2. walk'.direction = "next" /\ "seen" \in DOMAIN walk'
    BY <1>3, <1>4 DEF FetchNext
  <2>. QED
    BY <2>1, <2>2 DEF SortInv
<1>5. CASE FetchPrevious
  <2>1. request'.sort = request.sort /\ relation' = relation /\ page.loaded
    BY <1>5 DEF FetchPrevious, Fetches
  <2>2. walk'.direction = "previous" /\ "seen" \in DOMAIN walk'
    BY <1>3, <1>5 DEF FetchPrevious
  <2>. QED
    BY <2>1, <2>2 DEF SortInv
<1>6. CASE FetchAgain
  <2>1. /\ request' = request /\ relation' = relation /\ page.loaded /\ walk'.direction = walk.direction
        /\ "seen" \in DOMAIN walk'
    BY <1>6 DEF FetchAgain, Fetches, SortInv
  <2>. QED
    BY <2>1 DEF SortInv
<1>7. CASE Write
  <2>1. /\ walk'.direction = walk.direction /\ request' = request
        /\ relation' = relation /\ page' = page /\ "seen" \in DOMAIN walk'
    BY <1>7 DEF Write, SortInv
  <2>. QED
    BY <2>1 DEF SortInv
<1>8. CASE UNCHANGED vars
  BY <1>8 DEF vars, SortInv
<1>. QED
  BY <1>1, <1>2, <1>4, <1>5, <1>6, <1>7, <1>8 DEF Next

LEMMA IsFetchable ==
  ASSUME Inv, TableInv, NEW sort \in Sorts(relation), relation.described
  PROVE  Fetchable(sort)
BY NotDescribed DEF Fetchable, Inv

LEMMA IsDescribed == Inv /\ page.loaded => relation.described
BY CatalogType, DescribedParts DEF Inv

\* A page that is asked for with the cursor of the page before it, in either
\* direction.
LEMMA KeysetContinues ==
  ASSUME Inv, TableInv, SortInv, KeysetInv, page.loaded, ~relation.bestEffort,
         NEW forward \in BOOLEAN, NEW direction,
         direction = IF forward THEN "next" ELSE "previous",
         NEW cursor, cursor = Onward(page, forward), ~cursor.none,
         Fetches([direction |-> direction, sort |-> request.sort, cursor |-> cursor]),
         Continue(direction, IF forward THEN LastRow ELSE FirstRow)
  PROVE  KeysetWalk(page, walk, request, Order, Forward)'
<1>. DEFINE rq == [direction |-> direction, sort |-> request.sort, cursor |-> cursor]
            sort == request.sort
            terms == OrderOf(relation, sort)
            turn == IF forward THEN LastRow ELSE FirstRow
<1>1. Fetchable(sort)
  BY IsFetchable, IsDescribed DEF SortInv
<1>2. /\ page' = KeysetPage(rq) /\ request' = rq /\ UNCHANGED <<table, relation>>
      /\ rq.sort = sort /\ rq.cursor = Onward(page, forward) /\ rq.direction = direction
  BY DEF Fetches
<1>. HIDE DEF rq
<1>3. KeysetWalk(page, walk, request, terms, Forward) /\ terms = Order
  BY DEF KeysetInv, Order
<1>4. ~Onward(page, forward).none
  OBVIOUS
<1>5. CASE walk.direction = direction
  <2>1. Forward = forward
    BY <1>5 DEF Forward
  <2>2. /\ walk'.seen = walk.seen \o page.rows /\ walk'.from = walk.from
        /\ walk'.steady = walk.steady /\ walk'.direction = walk.direction
    BY <1>5 DEF Continue, SortInv
  <2>3. Forward' = forward /\ walk.steady \subseteq Present
    BY <2>1, <2>2 DEF Forward, TableInv
  <2>. HIDE DEF sort, terms
  <2>4. KeysetWalk(KeysetPage(rq), walk', rq, OrderOf(relation, sort), forward)
    BY <1>1, <1>2, <1>3, <1>4, <2>1, <2>2, <2>3, WalkGoesOn DEF terms
  <2>. QED
    BY <1>2, <2>3, <2>4, WalkMoves
<1>6. CASE walk.direction # direction
  <2>1. walk' = NewWalk(direction, turn, walk.fetched)
    BY <1>6 DEF Continue
  <2>2. PageIs(page, terms) /\ page.rows # <<>>
    BY <1>3, <1>4 DEF KeysetWalk, PageIs, Onward
  <2>3. turn = Far(page, forward)
    BY <2>2 DEF Far, LastRow, FirstRow
  <2>4. /\ walk'.seen = <<>> /\ walk'.from = Far(page, forward)
        /\ walk'.steady = Present /\ Forward' = forward
    BY <2>1, <2>3 DEF NewWalk, Forward
  <2>. HIDE DEF sort, terms
  <2>5. KeysetWalk(KeysetPage(rq), walk', rq, OrderOf(relation, sort), forward)
    BY <1>1, <1>2, <1>4, <2>2, <2>4, WalkTurns DEF terms
  <2>. QED
    BY <1>2, <2>4, <2>5, WalkMoves
<1>. QED
  BY <1>5, <1>6

LEMMA KeysetInvStays ==
  ASSUME Inv, TableInv, SortInv, KeysetInv, [Next]_vars
  PROVE  KeysetInv'
<1>. SUFFICES ASSUME page'.loaded, ~relation'.bestEffort
              PROVE  KeysetWalk(page, walk, request, Order, Forward)'
  BY DEF KeysetInv
<1>1. ASSUME page.loaded, UNCHANGED <<page, request>>,
             walk'.direction = walk.direction, walk'.seen = walk.seen, walk'.from = walk.from,
             walk'.steady \subseteq walk.steady, \A r \in walk'.steady : table'[r] = table[r]
      PROVE  KeysetWalk(page, walk, request, Order, Forward)'
  <2>1. relation' = relation
    BY <1>1, LoadedStays
  <2>2. Fetchable(request.sort) /\ KeysetWalk(page, walk, request, Order, Forward)
    BY <1>1, <2>1, IsFetchable, IsDescribed DEF SortInv, KeysetInv
  <2>. QED
    BY <1>1, <2>1, <2>2, WalkSurvives
<1>2. CASE Describe
  BY <1>1, <1>2 DEF Describe
<1>3. CASE FetchFirst
  <2>1. PICK sort \in Sorts(relation) : Fetches(First(sort)) /\ walk' = NewWalk("next", NoRow, writes)
    BY <1>3 DEF FetchFirst
  <2>2. Fetchable(sort)
    BY <1>3, IsFetchable DEF FetchFirst
  <2>. DEFINE rq == First(sort)
  <2>3. /\ page' = KeysetPage(rq) /\ request' = rq /\ UNCHANGED <<table, relation>>
        /\ rq.sort = sort /\ rq.direction = "first" /\ ~relation.bestEffort
    BY <2>1 DEF Fetches, First
  <2>4. walk'.seen = <<>> /\ walk'.from = NoRow /\ walk'.steady = Present /\ Forward' = TRUE
    BY <2>1 DEF NewWalk, Forward
  <2>. HIDE DEF rq
  <2>5. KeysetWalk(KeysetPage(rq), walk', rq, OrderOf(relation, sort), TRUE)
    BY <2>2, <2>3, <2>4, WalkBegins
  <2>. QED
    BY <2>3, <2>4, <2>5, WalkMoves
<1>4. CASE FetchNext
  <2>1. /\ page.loaded /\ ~page.next.none
        /\ Fetches([direction |-> "next", sort |-> request.sort, cursor |-> page.next])
        /\ Continue("next", LastRow)
    BY <1>4 DEF FetchNext
  <2>2. ~relation.bestEffort /\ page.next = Onward(page, TRUE)
    BY <2>1 DEF Fetches, Onward
  <2>3. LastRow = IF TRUE THEN LastRow ELSE FirstRow
    OBVIOUS
  <2>. QED
    BY <2>1, <2>2, <2>3, KeysetContinues
<1>5. CASE FetchPrevious
  <2>1. /\ page.loaded /\ ~page.prev.none
        /\ Fetches([direction |-> "previous", sort |-> request.sort, cursor |-> page.prev])
        /\ Continue("previous", FirstRow)
    BY <1>5 DEF FetchPrevious
  <2>2. ~relation.bestEffort /\ page.prev = Onward(page, FALSE)
    BY <2>1 DEF Fetches, Onward
  <2>3. FirstRow = IF FALSE THEN LastRow ELSE FirstRow
    OBVIOUS
  <2>. QED
    BY <2>1, <2>2, <2>3, KeysetContinues
<1>6. CASE FetchAgain
  <2>1. /\ page.loaded /\ page' = KeysetPage(request) /\ request' = request
        /\ UNCHANGED <<table, relation>> /\ ~relation.bestEffort
    BY <1>6 DEF FetchAgain, Fetches
  <2>2. /\ walk'.seen = walk.seen /\ walk'.from = walk.from
        /\ walk'.steady = walk.steady /\ walk'.direction = walk.direction
    BY <1>6 DEF FetchAgain
  <2>3. /\ Fetchable(request.sort) /\ KeysetWalk(page, walk, request, Order, Forward)
        /\ walk.steady \subseteq Present /\ Forward' = Forward /\ Forward \in BOOLEAN
    BY <2>1, <2>2, IsFetchable, IsDescribed DEF SortInv, KeysetInv, TableInv, Forward
  <2>4. KeysetWalk(KeysetPage(request), walk', request, OrderOf(relation, request.sort), Forward)
    BY <2>1, <2>2, <2>3, WalkStays DEF Order
  <2>. QED
    BY <2>1, <2>3, <2>4, WalkMoves
<1>7. CASE Write
  <2>1. PICK r \in RowIds, row \in world.rows \cup {Absent} :
          /\ table' = [table EXCEPT ![r] = row]
          /\ walk' = [walk EXCEPT !.steady = @ \ {r}]
    BY <1>7 DEF Write
  <2>2. /\ walk'.direction = walk.direction /\ walk'.seen = walk.seen /\ walk'.from = walk.from
        /\ walk'.steady \subseteq walk.steady \ {r}
    BY <2>1
  <2>3. \A q \in walk'.steady : table'[q] = table[q]
    BY <2>1, <2>2 DEF TableInv, Present
  <2>4. UNCHANGED <<page, request>>
    BY <1>7 DEF Write
  <2>. QED
    BY <1>1, <2>2, <2>3, <2>4
<1>8. CASE UNCHANGED vars
  BY <1>1, <1>8 DEF vars
<1>. QED
  BY <1>2, <1>3, <1>4, <1>5, <1>6, <1>7, <1>8 DEF Next

\* Rows that are all different are counted once.
LEMMA CountOfDistinct ==
  ASSUME NEW R, NEW s \in Seq(R), NEW row,
         \A i, j \in DOMAIN s : i # j => s[i] # s[j]
  PROVE  Count(s, row) = IF row \in Range(s) THEN 1 ELSE 0
<1>. DEFINE I == {i \in DOMAIN s : s[i] = row}
<1>1. CASE row \in Range(s)
  <2>1. PICK k \in DOMAIN s : s[k] = row
    BY <1>1 DEF Range
  <2>2. I = {k}
    BY <2>1
  <2>3. Cardinality(I) = 1
    BY <2>2, FS_Singleton
  <2>. QED
    BY <1>1, <2>3 DEF Count
<1>2. CASE row \notin Range(s)
  <2>1. I = {}
    BY <1>2 DEF Range
  <2>2. Cardinality(I) = 0
    BY <2>1, FS_EmptySet
  <2>. QED
    BY <1>2, <2>2 DEF Count
<1>. QED
  BY <1>1, <1>2

\* With a key, whatever is written meanwhile.
LEMMA KeysetShowsAll ==
  ASSUME Inv, TableInv, SortInv, KeysetInv, page.loaded, ~relation.bestEffort
  PROVE  WalkShowsAll
<1>. DEFINE terms == OrderOf(relation, request.sort)
            forward == walk.direction = "next"
            shown == walk.seen \o page.rows
            cursor == IF forward THEN page.next ELSE page.prev
            end == IF forward THEN LastRow ELSE FirstRow
            Further(a, b) == IF forward THEN Precedes(terms, b, a) ELSE Precedes(terms, a, b)
            InScope(row) == walk.from = NoRow \/ Further(row, walk.from)
            Passed(row) == cursor.none \/ (end # NoRow /\ Further(end, row))
            alike(row) == Cardinality({q \in walk.steady : Shown(relation, table[q]) = row})
<1>1. Fetchable(request.sort) /\ KeysetWalk(page, walk, request, terms, forward)
  BY IsFetchable, IsDescribed DEF SortInv, KeysetInv, Order, Forward
<1>2. forward \in BOOLEAN /\ \A a, b : Further(a, b) <=> Beyond(terms, forward, a, b)
  BY DEF Beyond
<1>3. /\ terms \in Seq(Terms) /\ \A x \in Rows : Typed(terms, x)
      /\ \A r \in Present : RowOf(r) \in Rows
  BY <1>1, FetchableParts
<1>4. walk.steady \subseteq Present
  BY DEF TableInv
<1>. DEFINE v == [seen |-> shown, from |-> walk.from]
<1>10. v.seen = walk.seen \o page.rows /\ v.from = walk.from
  OBVIOUS
<1>. HIDE DEF v
<1>5. /\ \A i \in DOMAIN page.rows :
           walk.from # NoRow => Beyond(terms, forward, page.rows[i], walk.from)
      /\ SeenRows(v, terms, forward)
      /\ Range(shown) = Range(walk.seen) \cup Range(page.rows)
  <2>1. Joined(page, walk, v, terms, forward)
    BY <1>1, <1>2, <1>10, ShownOnce
  <2>. QED
    BY <1>10, <2>1 DEF Joined
<1>6. /\ shown \in Seq(Rows)
      /\ \A i, j \in DOMAIN shown : i # j => shown[i] # shown[j]
      /\ walk.from # NoRow => \A i \in DOMAIN shown : Beyond(terms, forward, shown[i], walk.from)
  BY <1>5, <1>10 DEF SeenRows
<1>7. ASSUME NEW r \in walk.steady
      PROVE  LET row == RowOf(r)
             IN /\ InScope(row) => Count(shown, row) <= alike(row)
                /\ InScope(row) /\ Passed(row) => Count(shown, row) = alike(row)
                /\ ~InScope(row) /\ row # walk.from => Count(shown, row) = 0
  <2>. DEFINE row == RowOf(r)
  <2>1. alike(row) = 1
    <3>1. {q \in walk.steady : Shown(relation, table[q]) = row} = {r}
      <4>1. ASSUME NEW q \in walk.steady, q # r PROVE RowOf(q) # row
        <5>1. Comes(terms, q, r) \/ Comes(terms, r, q)
          BY <1>1, <1>4, <4>1, OrderDecides DEF Fetchable
        <5>2. \A i \in 1..Len(terms) : terms[i].column \in relation.readable
          BY <1>1, CatalogType, OrderParts DEF Fetchable
        <5>. HIDE DEF terms
        <5>3. Precedes(terms, RowOf(q), RowOf(r)) \/ Precedes(terms, RowOf(r), RowOf(q))
          BY <1>3, <5>1, <5>2, ShownIsEnough DEF Comes, RowOf
        <5>4. Typed(terms, RowOf(r))
          BY <1>3, <1>4
        <5>. QED
          BY <1>3, <5>3, <5>4, Irreflexive
      <4>. QED
        BY <4>1 DEF RowOf
    <3>. QED
      BY <3>1, FS_Singleton
  <2>2. Count(shown, row) = IF row \in Range(shown) THEN 1 ELSE 0
    BY <1>6, CountOfDistinct
  <2>. HIDE DEF alike
  <2>3. ASSUME InScope(row), Passed(row) PROVE row \in Range(shown)
    <3>1. ASSUME ~Onward(page, forward).none, Beyond(terms, forward, row, Far(page, forward))
          PROVE  FALSE
      <4>1. page.rows # <<>> /\ PageIs(page, terms)
        BY <1>1, <3>1 DEF KeysetWalk, PageIs, Onward
      <4>2. end = Far(page, forward) /\ cursor = Onward(page, forward)
        BY <4>1 DEF LastRow, FirstRow, Far, Onward
      <4>3. end \in Rows /\ row \in Rows
        <5>1. row \in Rows
          BY <1>3, <1>4
        <5>2. Far(page, forward) \in Rows
          BY <1>2, <4>1, FarIsLast
        <5>. QED
          BY <4>2, <5>1, <5>2
      <4>4. Beyond(terms, forward, end, row) /\ Beyond(terms, forward, row, end)
        BY <1>2, <2>3, <3>1, <4>2
      <4>. HIDE DEF terms, end, forward, row
      <4>. QED
        BY <1>2, <1>3, <4>3, <4>4, BeyondOrder
    <3>2. ~(walk.from # NoRow /\ ~Beyond(terms, forward, row, walk.from))
      BY <1>2, <2>3
    <3>. QED
      BY <1>1, <1>5, <3>1, <3>2, NoneMissed
  <2>4. ASSUME ~InScope(row) PROVE row \notin Range(shown)
    BY <1>2, <1>6, <2>4 DEF Range
  <2>. HIDE DEF shown, InScope, Passed, row
  <2>. QED
    BY <2>1, <2>2, <2>3, <2>4 DEF row
<1>. QED
  BY <1>7 DEF WalkShowsAll, RowOf

-----------------------------------------------------------------------------
(* The pages of a relation without a key: the places of its rows.          *)

Total == Cardinality(Present)
PlaceIn(terms, i) == RowOf(Nth(Present, terms, i))
Places(terms, row, first, last) ==
  {i \in 1..Total : first <= i /\ i <= last /\ PlaceIn(terms, i) = row}

Shift(I, n) == {n + i : i \in I}

LEMMA Shifted ==
  ASSUME NEW I, IsFiniteSet(I), I \subseteq Int, NEW n \in Int
  PROVE  IsFiniteSet(Shift(I, n)) /\ Cardinality(Shift(I, n)) = Cardinality(I)
<1>. DEFINE f == [i \in I |-> n + i]
            J == Shift(I, n)
<1>1. f \in Surjection(I, J)
  BY DEF Surjection, Shift
<1>2. f \in Injection(I, J)
  BY DEF Injection, IsInjective, Shift
<1>3. f \in Bijection(I, J)
  BY <1>1, <1>2 DEF Bijection
<1>4. ExistsBijection(I, J)
  BY <1>3 DEF ExistsBijection
<1>. QED
  BY <1>4, FS_Bijection

\* The rows of two sequences are counted in each.
LEMMA CountOfJoined ==
  ASSUME NEW R, NEW s \in Seq(R), NEW t \in Seq(R), NEW row
  PROVE  /\ Count(s \o t, row) = Count(s, row) + Count(t, row)
         /\ Count(s, row) \in Nat /\ Count(t, row) \in Nat
<1>. DEFINE j == s \o t
            n == Len(s)
            I == {i \in DOMAIN s : s[i] = row}
            K == {i \in DOMAIN t : t[i] = row}
            L == Shift(K, n)
            J == {i \in DOMAIN j : j[i] = row}
<1>1. /\ n \in Nat /\ Len(t) \in Nat /\ DOMAIN s = 1..n /\ DOMAIN t = 1..Len(t)
      /\ \A i \in DOMAIN j :
           \/ i \in DOMAIN s /\ j[i] = s[i]
           \/ i > n /\ i - n \in DOMAIN t /\ j[i] = t[i - n]
      /\ \A i \in DOMAIN s : i \in DOMAIN j /\ j[i] = s[i]
      /\ \A i \in DOMAIN t : n + i \in DOMAIN j /\ j[n + i] = t[i]
      /\ DOMAIN j = 1..Len(j) /\ Len(j) \in Nat
  BY JoinedRows, LenProperties
<1>. HIDE DEF j, n
<1>2. /\ IsFiniteSet(I) /\ IsFiniteSet(K)
      /\ I \subseteq Int /\ K \subseteq Int
      /\ \A i \in I : i <= n
      /\ \A i \in K : 1 <= i
  <2>1. IsFiniteSet(1..n) /\ IsFiniteSet(1..Len(t))
    <3>1. n \in Int /\ Len(t) \in Int /\ 1 \in Int
      BY <1>1
    <3>. QED
      BY ONLY <3>1, FS_Interval
  <2>2. I \subseteq 1..n /\ K \subseteq 1..Len(t)
    BY <1>1
  <2>3. IsFiniteSet(I) /\ IsFiniteSet(K)
    BY <2>1, <2>2, FS_Subset
  <2>. QED
    BY <1>1, <2>2, <2>3
<1>3. J = I \cup L
  <2>1. ASSUME NEW i \in J PROVE i \in I \cup L
    <3>1. CASE i \in DOMAIN s /\ j[i] = s[i]
      BY <3>1
    <3>2. CASE i > n /\ i - n \in DOMAIN t /\ j[i] = t[i - n]
      <4>1. i - n \in K /\ i = n + (i - n)
        BY <1>1, <3>2
      <4>. QED
        BY <4>1 DEF Shift
    <3>. QED
      BY <1>1, <3>1, <3>2
  <2>2. ASSUME NEW i \in I PROVE i \in J
    BY <1>1
  <2>3. ASSUME NEW i \in K PROVE n + i \in J
    BY <1>1
  <2>. QED
    BY <2>1, <2>2, <2>3 DEF Shift
<1>5. I \cap L = {}
  BY <1>1, <1>2 DEF Shift
<1>. HIDE DEF I, K
<1>4. IsFiniteSet(L) /\ Cardinality(L) = Cardinality(K)
  <2>1. IsFiniteSet(K) /\ K \subseteq Int /\ n \in Int
    BY <1>1, <1>2
  <2>. QED
    BY ONLY <2>1, Shifted
<1>. HIDE DEF L, J
<1>6. Cardinality(J) = Cardinality(I) + Cardinality(K)
  <2>1. Cardinality(I \cap L) = 0
    BY <1>5, FS_EmptySet
  <2>2. Cardinality(I) \in Nat /\ Cardinality(K) \in Nat
    BY <1>2, FS_CardinalityType
  <2>3. Cardinality(I \cup L) = Cardinality(I) + Cardinality(L) - Cardinality(I \cap L)
    BY <1>2, <1>4, FS_Union
  <2>. QED
    BY <1>3, <1>4, <2>1, <2>2, <2>3
<1>7. Cardinality(I) \in Nat /\ Cardinality(K) \in Nat
  BY <1>2, FS_CardinalityType
<1>. QED
  BY <1>6, <1>7 DEF Count, I, J, K, j

LEMMA TotalIsNat == Total \in Nat
BY BrowserAssumption, FS_Subset, FS_CardinalityType DEF BrowserAssumption, Present, Total

LEMMA PlacesFinite ==
  ASSUME NEW terms, NEW row, NEW a, NEW b
  PROVE  /\ IsFiniteSet(Places(terms, row, a, b))
         /\ Cardinality(Places(terms, row, a, b)) \in Nat
<1>1. IsFiniteSet(1..Total) /\ Places(terms, row, a, b) \subseteq 1..Total
  BY TotalIsNat, FS_Interval DEF Places
<1>. QED
  BY <1>1, FS_Subset, FS_CardinalityType

\* Of places that follow upon each other.
LEMMA PlacesJoin ==
  ASSUME NEW terms, NEW row, NEW a \in Nat, NEW b \in Nat, NEW c \in Nat, a <= b, b <= c
  PROVE  Cardinality(Places(terms, row, a + 1, c)) =
           Cardinality(Places(terms, row, a + 1, b)) + Cardinality(Places(terms, row, b + 1, c))
<1>. DEFINE A == Places(terms, row, a + 1, b)
            B == Places(terms, row, b + 1, c)
<1>1. Places(terms, row, a + 1, c) = A \cup B /\ A \cap B = {}
  BY TotalIsNat DEF Places
<1>2. IsFiniteSet(A) /\ IsFiniteSet(B) /\ Cardinality(A) \in Nat /\ Cardinality(B) \in Nat
  BY PlacesFinite
<1>. HIDE DEF A, B
<1>3. Cardinality(A \cap B) = 0
  BY <1>1, FS_EmptySet
<1>4. Cardinality(A \cup B) = Cardinality(A) + Cardinality(B) - Cardinality(A \cap B)
  BY <1>2, FS_Union
<1>5. Cardinality(A \cup B) = Cardinality(A) + Cardinality(B)
  BY <1>2, <1>3, <1>4
<1>. QED
  BY <1>1, <1>5 DEF A, B

\* What a page holds when nobody has written since it was fetched.
PagePlaces(p, terms, offset) ==
  /\ p.rows \in Seq(Rows)
  /\ Len(p.rows) = IF Total <= offset THEN 0
                   ELSE IF Total <= offset + Limit THEN Total - offset ELSE Limit
  /\ \A i \in 1..Len(p.rows) : p.rows[i] = PlaceIn(terms, offset + i)
  /\ p.next.none <=> Total <= offset + Limit
  /\ p.prev.none <=> offset = 0

LEMMA CountOfPage ==
  ASSUME NEW p, NEW terms, NEW offset \in Nat, PagePlaces(p, terms, offset), NEW row
  PROVE  Count(p.rows, row) = Cardinality(Places(terms, row, offset + 1, offset + Limit))
<1>. DEFINE n == Len(p.rows)
            I == {i \in DOMAIN p.rows : p.rows[i] = row}
            J == Places(terms, row, offset + 1, offset + Limit)
<1>1. /\ DOMAIN p.rows = 1..n /\ n \in Nat /\ Total \in Nat /\ Limit \in Nat \ {0}
      /\ n = IF Total <= offset THEN 0
             ELSE IF Total <= offset + Limit THEN Total - offset ELSE Limit
      /\ \A i \in 1..n : p.rows[i] = PlaceIn(terms, offset + i)
  BY TotalIsNat, LenProperties, BrowserAssumption DEF PagePlaces, BrowserAssumption
<1>. HIDE DEF n
<1>2. IsFiniteSet(I) /\ I \subseteq Int
  <2>1. IsFiniteSet(1..n)
    <3>1. n \in Int /\ 1 \in Int
      BY <1>1
    <3>. QED
      BY ONLY <3>1, FS_Interval
  <2>2. I \subseteq 1..n
    BY <1>1
  <2>3. IsFiniteSet(I)
    BY <2>1, <2>2, FS_Subset
  <2>. QED
    BY <1>1, <2>2, <2>3
<1>3. J = Shift(I, offset)
  <2>1. ASSUME NEW i \in I PROVE offset + i \in J
    <3>1. i \in 1..n /\ PlaceIn(terms, offset + i) = row
      BY <1>1
    <3>2. offset + i \in 1..Total /\ offset + 1 <= offset + i /\ offset + i <= offset + Limit
      BY <1>1, <3>1
    <3>. QED
      BY <3>1, <3>2 DEF Places
  <2>2. ASSUME NEW k \in J PROVE k \in Shift(I, offset)
    <3>1. /\ k \in 1..Total /\ offset + 1 <= k /\ k <= offset + Limit
          /\ PlaceIn(terms, k) = row
      BY DEF Places
    <3>2. k - offset \in 1..n /\ offset + (k - offset) = k
      BY <1>1, <3>1
    <3>3. k - offset \in I
      <4>1. p.rows[k - offset] = PlaceIn(terms, offset + (k - offset))
        BY <1>1, <3>2
      <4>. QED
        BY <1>1, <3>1, <3>2, <4>1
    <3>. QED
      BY <3>2, <3>3 DEF Shift
  <2>. QED
    BY <2>1, <2>2 DEF Shift
<1>. HIDE DEF I, J
<1>4. Cardinality(J) = Cardinality(I)
  <2>1. offset \in Int
    OBVIOUS
  <2>2. Cardinality(Shift(I, offset)) = Cardinality(I)
    BY ONLY <1>2, <2>1, Shifted
  <2>. QED
    BY <1>3, <2>2
<1>. QED
  BY <1>4 DEF Count, I, J

\* The places of a row lie between those of the rows before it and of those after it.
PlacesSplit(terms, r) ==
  LET rank  == Cardinality(Ahead(Present, terms, r))
      reach == Cardinality(UpTo(Present, terms, r))
  IN /\ rank \in Nat /\ reach \in Nat /\ reach <= Total
     /\ \A i \in 1..Total :
          LET row == PlaceIn(terms, i)
          IN /\ row \in Rows
             /\ Precedes(terms, row, RowOf(r)) <=> i <= rank
             /\ Precedes(terms, RowOf(r), row) <=> reach < i
             /\ row = RowOf(r) <=> rank < i /\ i <= reach

\* How many of some places a row has.
PlacesCounted(terms, r, a, b) ==
  LET rank   == Cardinality(Ahead(Present, terms, r))
      reach  == Cardinality(UpTo(Present, terms, r))
      alike  == Cardinality({q \in Present : RowOf(q) = RowOf(r)})
      places == Cardinality(Places(terms, RowOf(r), a + 1, b))
  IN /\ places <= alike
     /\ a <= rank /\ reach <= b => places = alike
     /\ reach <= a \/ b <= rank => places = 0

\* Rows that look alike, which their order does not tell apart, have the places
\* after all rows before them and before all rows after them.
LEMMA PlacesOfRow ==
  ASSUME NEW sort, Fetchable(sort), relation.bestEffort, NEW r \in Present,
         NEW a \in Nat, NEW b \in Nat
  PROVE  /\ PlacesSplit(OrderOf(relation, sort), r)
         /\ PlacesCounted(OrderOf(relation, sort), r, a, b)
<1>. DEFINE terms == OrderOf(relation, sort)
            A == Ahead(Present, terms, r)
            U == UpTo(Present, terms, r)
            C == {q \in Present : RowOf(q) = RowOf(r)}
            rank == Cardinality(A)
            reach == Cardinality(U)
            P == Places(terms, RowOf(r), a + 1, b)
<1>1. /\ terms \in Seq(Terms)
      /\ \A i \in 1..Len(terms) : terms[i].column \in relation.readable
  BY CatalogType, OrderParts DEF Fetchable
<1>2. IsFiniteSet(Present) /\ \A q \in Present : RowOf(q) \in Rows
  BY RowsArePlain DEF Fetchable
<1>3. Sortable(Present, terms)
  BY <1>1, <1>2, RowsArePlain DEF Fetchable, Sortable, Typed
<1>4. \A q \in Present : ~Comes(terms, q, r) /\ ~Comes(terms, r, q) <=> RowOf(q) = RowOf(r)
  BY OrderDecides DEF Fetchable
<1>. HIDE DEF terms
<1>5. /\ rank \in Nat /\ reach \in Nat /\ rank < reach /\ reach <= Total
      /\ IsFiniteSet(U) /\ Total \in Nat
  BY <1>3, RankSizes, TotalIsNat DEF Total
<1>6. A \subseteq U /\ C = U \ A /\ IsFiniteSet(A) /\ IsFiniteSet(C)
  <2>1. A \subseteq U
    BY <1>3, ComesOrder DEF Ahead, UpTo
  <2>2. C = U \ A
    BY <1>4 DEF Ahead, UpTo
  <2>. QED
    BY <1>5, <2>1, <2>2, FS_Subset
<1>7. Cardinality(C) = reach - rank
  <2>1. A \cup C = U /\ A \cap C = {}
    BY <1>6
  <2>2. Cardinality(A \cup C) = Cardinality(A) + Cardinality(C) - Cardinality(A \cap C)
    BY <1>6, FS_Union
  <2>3. Cardinality(A \cap C) = 0 /\ Cardinality(C) \in Nat
    BY <1>6, <2>1, FS_EmptySet, FS_CardinalityType
  <2>4. rank = Cardinality(A) /\ reach = Cardinality(U)
    OBVIOUS
  <2>. HIDE DEF A, C, U, rank, reach
  <2>5. reach = rank + Cardinality(C) - 0
    BY <2>1, <2>2, <2>3, <2>4
  <2>. QED
    BY <1>5, <2>3, <2>5
<1>8. ASSUME NEW i \in 1..Total
      PROVE  LET row == PlaceIn(terms, i)
             IN /\ row \in Rows
                /\ Precedes(terms, row, RowOf(r)) <=> i <= rank
                /\ Precedes(terms, RowOf(r), row) <=> reach < i
                /\ row = RowOf(r) <=> rank < i /\ i <= reach
  <2>. DEFINE q == Nth(Present, terms, i)
  <2>1. q \in Present
    BY <1>3, NthIs DEF Total
  <2>2. (Comes(terms, q, r) <=> i <= rank) /\ (Comes(terms, r, q) <=> reach < i)
    BY <1>3, NthPlaces DEF Total
  <2>. HIDE DEF q
  <2>3. /\ Precedes(terms, RowOf(q), RowOf(r)) <=> Comes(terms, q, r)
        /\ Precedes(terms, RowOf(r), RowOf(q)) <=> Comes(terms, r, q)
    BY <1>1, ShownIsEnough DEF Comes, RowOf
  <2>4. PlaceIn(terms, i) = RowOf(q)
    BY DEF PlaceIn, q
  <2>5. rank < i <=> ~(i <= rank)
    <3>. HIDE DEF rank
    <3>. QED
      BY <1>5
  <2>6. i <= reach <=> ~(reach < i)
    <3>. HIDE DEF reach
    <3>. QED
      BY <1>5
  <2>. QED
    BY <1>2, <1>4, <2>1, <2>2, <2>3, <2>4, <2>5, <2>6
<1>. HIDE DEF rank, reach, C
<1>9. P = {i \in 1..Total : a < i /\ i <= b /\ rank < i /\ i <= reach}
  BY <1>8 DEF Places
<1>10. P \subseteq (rank + 1)..reach
  BY <1>5, <1>9
<1>11. IsFiniteSet((rank + 1)..reach) /\ Cardinality((rank + 1)..reach) = reach - rank
  <2>1. rank + 1 \in Int /\ reach \in Int /\ rank + 1 <= reach
    BY <1>5
  <2>2. /\ IsFiniteSet((rank + 1)..reach)
        /\ Cardinality((rank + 1)..reach) = IF rank + 1 > reach THEN 0 ELSE reach - (rank + 1) + 1
    BY ONLY <2>1, FS_Interval
  <2>. QED
    BY <1>5, <2>1, <2>2
<1>12. Cardinality(P) <= Cardinality(C)
  <2>. HIDE DEF P
  <2>1. Cardinality(P) <= Cardinality((rank + 1)..reach)
    BY <1>10, <1>11, FS_Subset
  <2>. QED
    BY <1>7, <1>11, <2>1
<1>13. ASSUME a <= rank, reach <= b PROVE Cardinality(P) = Cardinality(C)
  <2>1. \A i : i \in P <=> i \in (rank + 1)..reach
    <3>. HIDE DEF P
    <3>. QED
      BY <1>5, <1>9, <1>13
  <2>2. P = (rank + 1)..reach
    BY <2>1
  <2>. QED
    BY <1>7, <1>11, <2>2
<1>14. ASSUME reach <= a \/ b <= rank PROVE Cardinality(P) = 0
  <2>1. P = {}
    BY <1>5, <1>9, <1>14
  <2>. QED
    BY <2>1, FS_EmptySet
<1>. QED
  BY <1>5, <1>8, <1>12, <1>13, <1>14 DEF rank, reach, C, terms, PlacesSplit, PlacesCounted

\* The page that is fetched, and its cursors.
Offset(req) == IF req.direction = "first" THEN 0 ELSE req.cursor.offset
Offsets == {n \in Nat : \E k \in Nat : n = k * Limit}

LEMMA OffsetSteps ==
  /\ Limit \in Nat \ {0}
  /\ 0 \in Offsets /\ Offsets \subseteq Nat
  /\ \A n \in Offsets : /\ n + Limit \in Offsets
                        /\ n # 0 => Limit <= n /\ n - Limit \in Offsets
<1>1. Limit \in Nat \ {0}
  BY BrowserAssumption DEF BrowserAssumption
<1>2. 0 \in Offsets
  <2>1. 0 = 0 * Limit
    BY <1>1
  <2>. QED
    BY <2>1 DEF Offsets
<1>3. ASSUME NEW n \in Offsets
      PROVE  n + Limit \in Offsets /\ (n # 0 => Limit <= n /\ n - Limit \in Offsets)
  <2>1. PICK k \in Nat : n = k * Limit
    BY DEF Offsets
  <2>2. n + Limit = (k + 1) * Limit /\ n + Limit \in Nat
    BY <1>1, <2>1
  <2>3. ASSUME n # 0 PROVE Limit <= n /\ n - Limit \in Offsets
    <3>1. k # 0
      BY <1>1, <2>1, <2>3
    <3>2. k - 1 \in Nat
      BY <3>1
    <3>3. n = (k - 1) * Limit + Limit
      BY <1>1, <2>1, <3>2
    <3>4. (k - 1) * Limit \in Nat
      BY <1>1, <3>2
    <3>5. n - Limit = (k - 1) * Limit /\ Limit <= n /\ n - Limit \in Nat
      BY <1>1, <3>3, <3>4
    <3>. QED
      BY <3>2, <3>5 DEF Offsets
  <2>. QED
    BY <2>2, <2>3 DEF Offsets
<1>. QED
  BY <1>1, <1>2, <1>3 DEF Offsets

LEMMA OffsetPageIs ==
  ASSUME NEW sort, Fetchable(sort), relation.bestEffort, NEW req, req.sort = sort,
         Offset(req) \in Offsets
  PROVE  LET p == OffsetPage(req)
             offset == Offset(req)
         IN /\ PagePlaces(p, OrderOf(relation, sort), offset)
            /\ ~p.next.none => p.next.offset = offset + Limit
            /\ ~p.prev.none => p.prev.offset = offset - Limit
<1>. DEFINE terms == OrderOf(relation, sort)
            offset == Offset(req)
            F == Select(Present, terms, offset + Limit + 1)
            rest == SubSeq(F, offset + 1, Len(F))
            back == IF offset < Limit THEN 0 ELSE offset - Limit
            p == OffsetPage(req)
<1>1. /\ terms \in Seq(Terms) /\ terms = BestEffortOrder(relation, sort)
      /\ \A i \in 1..Len(terms) : terms[i].column \in relation.readable
  BY CatalogType, OrderParts DEF Fetchable
<1>2. IsFiniteSet(Present) /\ \A q \in Present : RowOf(q) \in Rows
  BY RowsArePlain DEF Fetchable
<1>3. Sortable(Present, terms)
  BY <1>1, <1>2, RowsArePlain DEF Fetchable, Sortable, Typed
<1>4. /\ offset \in Nat /\ Limit \in Nat \ {0} /\ (offset # 0 => Limit <= offset)
      /\ Total \in Nat /\ offset + Limit + 1 \in Nat
  <2>1. offset \in Offsets
    OBVIOUS
  <2>. HIDE DEF offset
  <2>2. offset \in Nat /\ Limit \in Nat \ {0} /\ (offset # 0 => Limit <= offset)
    BY <2>1, OffsetSteps
  <2>. QED
    BY <2>2, TotalIsNat
<1>5. p = Page(Cut(rest), When(offset > 0, OffsetCursor(back)),
                          When(Len(rest) > Limit, OffsetCursor(offset + Limit)))
  BY <1>1 DEF OffsetPage, Offset
<1>. HIDE DEF terms, offset, p
<1>6. /\ F \in Seq(Rows) /\ Len(F) \in Nat
      /\ Len(F) = IF Total < offset + Limit + 1 THEN Total ELSE offset + Limit + 1
      /\ \A i \in 1..Len(F) : F[i] \in Rows /\ F[i] = PlaceIn(terms, i)
  BY <1>2, <1>3, <1>4, SelectIs, LenProperties, ElementOfSeq DEF Total, PlaceIn
<1>. HIDE DEF F
<1>7. /\ rest \in Seq(Rows) /\ Len(rest) \in Nat
      /\ Len(rest) = IF offset + 1 <= Len(F) THEN Len(F) - offset ELSE 0
      /\ \A i \in 1..Len(rest) : rest[i] = PlaceIn(terms, offset + i)
  <2>1. offset + 1 \in Int /\ Len(F) \in Int /\ \A i \in (offset + 1)..Len(F) : F[i] \in Rows
    BY <1>4, <1>6
  <2>2. /\ rest \in Seq(Rows)
        /\ Len(rest) = IF offset + 1 <= Len(F) THEN Len(F) - (offset + 1) + 1 ELSE 0
        /\ \A i \in 1..(Len(F) - (offset + 1) + 1) : rest[i] = F[(offset + 1) + i - 1]
    BY ONLY <2>1, SubSeqProperties
  <2>. HIDE DEF rest
  <2>3. Len(rest) = IF offset + 1 <= Len(F) THEN Len(F) - offset ELSE 0
    BY <1>4, <1>6, <2>2
  <2>4. ASSUME NEW i \in 1..Len(rest) PROVE rest[i] = PlaceIn(terms, offset + i)
    <3>1. i \in 1..(Len(F) - (offset + 1) + 1) /\ (offset + 1) + i - 1 = offset + i
          /\ offset + i \in 1..Len(F)
      BY <1>4, <1>6, <2>3
    <3>2. rest[i] = F[offset + i]
      BY <2>2, <3>1
    <3>. QED
      BY <1>6, <3>1, <3>2
  <2>. QED
    BY <1>4, <1>6, <2>2, <2>3, <2>4
<1>. HIDE DEF rest
<1>8. /\ Cut(rest) \in Seq(Rows)
      /\ Len(Cut(rest)) = IF Len(rest) > Limit THEN Limit ELSE Len(rest)
      /\ \A i \in 1..Len(Cut(rest)) : Cut(rest)[i] = PlaceIn(terms, offset + i)
  BY <1>7, CutIs
<1>9. /\ p.rows = Cut(rest)
      /\ p.next.none <=> ~(Len(rest) > Limit)
      /\ p.prev.none <=> ~(offset > 0)
      /\ ~p.next.none => p.next.offset = offset + Limit
      /\ ~p.prev.none => p.prev.offset = back
  BY <1>5 DEF Page, When, OffsetCursor, NoCursor
<1>10. /\ Len(rest) > Limit <=> ~(Total <= offset + Limit)
       /\ Len(Cut(rest)) = IF Total <= offset THEN 0
                           ELSE IF Total <= offset + Limit THEN Total - offset ELSE Limit
  BY <1>4, <1>6, <1>7, <1>8
<1>11. PagePlaces(p, terms, offset)
  BY <1>4, <1>8, <1>9, <1>10 DEF PagePlaces
<1>12. ~p.prev.none => p.prev.offset = offset - Limit
  BY <1>4, <1>9
<1>. QED
  BY <1>9, <1>11, <1>12 DEF terms, offset, p

-----------------------------------------------------------------------------
(* The invariant of walks over a relation without a key: the pages of a    *)
(* walk are at places that follow upon each other.                         *)

\* What was seen of a walk, when nobody has written since it began: it began after
\* the row at the first place that was not seen, or before the last one.
SeenPlaces(w, terms, forward, offset) ==
  IF forward
    THEN \E first \in 0..offset :
           /\ IF first = 0 THEN w.from = NoRow
                           ELSE first <= Total /\ w.from = PlaceIn(terms, first)
           /\ \A row \in Rows :
                Count(w.seen, row) = Cardinality(Places(terms, row, first + 1, offset))
    ELSE \E last \in Nat :
           /\ offset + Limit <= last
           /\ IF Total <= last THEN w.from = NoRow ELSE w.from = PlaceIn(terms, last + 1)
           /\ \A row \in Rows :
                Count(w.seen, row) = Cardinality(Places(terms, row, offset + Limit + 1, last))

OffsetWalk(p, w, req, terms, forward) ==
  /\ Offset(req) \in Offsets
  /\ w.seen \in Seq(Rows) /\ p.rows \in Seq(Rows)
  /\ ~p.next.none => p.next.offset = Offset(req) + Limit
  /\ ~p.prev.none => Offset(req) # 0 /\ p.prev.offset = Offset(req) - Limit
  /\ w.fetched = writes => PagePlaces(p, terms, Offset(req))
  /\ w.began = writes => w.steady = Present /\ SeenPlaces(w, terms, forward, Offset(req))

OffsetInv ==
  page.loaded /\ relation.bestEffort => OffsetWalk(page, walk, request, Order, Forward)

LEMMA NothingSeen ==
  ASSUME NEW terms, NEW row, NEW a \in Nat
  PROVE  Count(<<>>, row) = 0 /\ Cardinality(Places(terms, row, a + 1, a)) = 0
<1>1. Places(terms, row, a + 1, a) = {}
  BY TotalIsNat DEF Places
<1>2. {i \in DOMAIN <<>> : <<>>[i] = row} = {}
  BY EmptySeq
<1>. QED
  BY <1>1, <1>2, FS_EmptySet DEF Count

\* The first page, and a page fetched again.
LEMMA OffsetBegins ==
  ASSUME NEW sort, Fetchable(sort), relation.bestEffort,
         NEW req, req.direction = "first", req.sort = sort,
         NEW w, w.seen = <<>>, w.from = NoRow, w.steady = Present
  PROVE  OffsetWalk(OffsetPage(req), w, req, OrderOf(relation, sort), TRUE)
<1>. DEFINE terms == OrderOf(relation, sort)
            p == OffsetPage(req)
<1>1. Offset(req) = 0 /\ Offset(req) \in Offsets
  BY OffsetSteps DEF Offset
<1>2. /\ PagePlaces(p, terms, Offset(req))
      /\ ~p.next.none => p.next.offset = Offset(req) + Limit
      /\ ~p.prev.none => p.prev.offset = Offset(req) - Limit
  BY <1>1, OffsetPageIs
<1>. HIDE DEF p, terms
<1>3. p.rows \in Seq(Rows) /\ (~p.prev.none => Offset(req) # 0)
  BY <1>2 DEF PagePlaces
<1>4. SeenPlaces(w, terms, TRUE, 0)
  <2>1. \A row \in Rows : Count(w.seen, row) = Cardinality(Places(terms, row, 0 + 1, 0))
    BY NothingSeen
  <2>. QED
    BY <2>1 DEF SeenPlaces
<1>5. OffsetWalk(p, w, req, terms, TRUE)
  BY <1>1, <1>2, <1>3, <1>4, EmptySeq DEF OffsetWalk
<1>. QED
  BY <1>5 DEF p, terms

LEMMA OffsetStays ==
  ASSUME NEW sort, Fetchable(sort), relation.bestEffort, NEW forward \in BOOLEAN,
         NEW p, NEW w, NEW req, req.sort = sort,
         OffsetWalk(p, w, req, OrderOf(relation, sort), forward),
         NEW v, v.seen = w.seen, v.from = w.from, v.steady = w.steady, v.began = w.began
  PROVE  OffsetWalk(OffsetPage(req), v, req, OrderOf(relation, sort), forward)
<1>. DEFINE terms == OrderOf(relation, sort)
            q == OffsetPage(req)
<1>1. Offset(req) \in Offsets /\ w.seen \in Seq(Rows)
  BY DEF OffsetWalk
<1>2. /\ PagePlaces(q, terms, Offset(req))
      /\ ~q.next.none => q.next.offset = Offset(req) + Limit
      /\ ~q.prev.none => q.prev.offset = Offset(req) - Limit
  BY <1>1, OffsetPageIs
<1>. HIDE DEF q, terms
<1>3. q.rows \in Seq(Rows) /\ (~q.prev.none => Offset(req) # 0)
  BY <1>2 DEF PagePlaces
<1>4. v.began = writes => v.steady = Present /\ SeenPlaces(v, terms, forward, Offset(req))
  BY DEF OffsetWalk, SeenPlaces, terms
<1>5. OffsetWalk(q, v, req, terms, forward)
  BY <1>1, <1>2, <1>3, <1>4 DEF OffsetWalk
<1>. QED
  BY <1>5 DEF q, terms

\* What a walk has seen with the page that it has come to.
LEMMA SeenGoesOn ==
  ASSUME NEW p, NEW w, NEW terms, NEW forward \in BOOLEAN, NEW offset \in Offsets,
         PagePlaces(p, terms, offset), SeenPlaces(w, terms, forward, offset),
         w.seen \in Seq(Rows), NEW next \in Offsets,
         next = IF forward THEN offset + Limit ELSE offset - Limit,
         NEW v, v.seen = w.seen \o p.rows, v.from = w.from
  PROVE  SeenPlaces(v, terms, forward, next)
<1>1. offset \in Nat /\ next \in Nat /\ Limit \in Nat \ {0} /\ Total \in Nat
  BY OffsetSteps, TotalIsNat
<1>2. ASSUME NEW row
      PROVE  /\ Count(v.seen, row) = Count(w.seen, row)
                  + Cardinality(Places(terms, row, offset + 1, offset + Limit))
             /\ Count(w.seen, row) \in Nat
  <2>. DEFINE s == w.seen
              t == p.rows
  <2>1. s \in Seq(Rows) /\ t \in Seq(Rows) /\ v.seen = s \o t
    BY DEF PagePlaces
  <2>. HIDE DEF s, t
  <2>2. Count(v.seen, row) = Count(s, row) + Count(t, row) /\ Count(s, row) \in Nat
    BY <2>1, CountOfJoined
  <2>3. Count(t, row) = Cardinality(Places(terms, row, offset + 1, offset + Limit))
    BY <1>1, CountOfPage DEF t
  <2>. QED
    BY <2>2, <2>3 DEF s
<1>3. CASE forward
  <2>1. PICK first \in 0..offset :
          /\ IF first = 0 THEN w.from = NoRow
                          ELSE first <= Total /\ w.from = PlaceIn(terms, first)
          /\ \A row \in Rows :
               Count(w.seen, row) = Cardinality(Places(terms, row, first + 1, offset))
    BY <1>3 DEF SeenPlaces
  <2>2. first \in Nat /\ first <= offset /\ first \in 0..next /\ next = offset + Limit
    BY <1>1, <1>3, <2>1
  <2>3. ASSUME NEW row \in Rows
        PROVE  Count(v.seen, row) = Cardinality(Places(terms, row, first + 1, next))
    <3>1. Cardinality(Places(terms, row, first + 1, next)) =
            Cardinality(Places(terms, row, first + 1, offset))
              + Cardinality(Places(terms, row, offset + 1, next))
      <4>1. offset <= next /\ offset \in Nat /\ next \in Nat /\ first \in Nat /\ first <= offset
        BY <1>1, <2>2
      <4>. QED
        BY ONLY <4>1, PlacesJoin
    <3>. QED
      BY <1>2, <2>1, <2>2, <3>1
  <2>. QED
    BY <1>3, <2>1, <2>2, <2>3 DEF SeenPlaces
<1>4. CASE ~forward
  <2>1. PICK last \in Nat :
          /\ offset + Limit <= last
          /\ IF Total <= last THEN w.from = NoRow ELSE w.from = PlaceIn(terms, last + 1)
          /\ \A row \in Rows :
               Count(w.seen, row) = Cardinality(Places(terms, row, offset + Limit + 1, last))
    BY <1>4 DEF SeenPlaces
  <2>2. next + Limit = offset /\ next + Limit <= last
    BY <1>1, <1>4, <2>1
  <2>3. ASSUME NEW row \in Rows
        PROVE  Count(v.seen, row) = Cardinality(Places(terms, row, next + Limit + 1, last))
    <3>1. Cardinality(Places(terms, row, offset + 1, last)) =
            Cardinality(Places(terms, row, offset + 1, offset + Limit))
              + Cardinality(Places(terms, row, offset + Limit + 1, last))
      <4>1. offset + Limit \in Nat /\ offset <= offset + Limit
        BY <1>1
      <4>. QED
        BY <1>1, <2>1, <4>1, PlacesJoin
    <3>2. /\ Cardinality(Places(terms, row, offset + 1, offset + Limit)) \in Nat
          /\ Cardinality(Places(terms, row, offset + Limit + 1, last)) \in Nat
      BY PlacesFinite
    <3>. QED
      BY <1>2, <2>1, <2>2, <3>1, <3>2
  <2>. QED
    BY <1>4, <2>1, <2>2, <2>3 DEF SeenPlaces
<1>. QED
  BY <1>3, <1>4

\* A walk that begins where the user turns round.
LEMMA SeenFromHere ==
  ASSUME NEW p, NEW terms, NEW forward \in BOOLEAN, NEW offset \in Offsets,
         PagePlaces(p, terms, offset), ~Onward(p, forward).none, NEW next \in Offsets,
         next = IF forward THEN offset + Limit ELSE offset - Limit,
         NEW v, v.seen = <<>>,
         v.from = IF p.rows = <<>> THEN NoRow ELSE Far(p, forward)
  PROVE  SeenPlaces(v, terms, forward, next)
<1>1. offset \in Nat /\ next \in Nat /\ Limit \in Nat \ {0} /\ Total \in Nat
  BY OffsetSteps, TotalIsNat
<1>2. \A a \in Nat : \A row : Count(v.seen, row) = Cardinality(Places(terms, row, a + 1, a))
  BY NothingSeen
<1>3. /\ Len(p.rows) = IF Total <= offset THEN 0
                       ELSE IF Total <= offset + Limit THEN Total - offset ELSE Limit
      /\ \A i \in 1..Len(p.rows) : p.rows[i] = PlaceIn(terms, offset + i)
      /\ p.next.none <=> Total <= offset + Limit
      /\ p.rows \in Seq(Rows)
  BY DEF PagePlaces
<1>4. p.rows = <<>> <=> Len(p.rows) = 0
  BY <1>3, EmptySeq
<1>5. CASE forward
  <2>1. ~(Total <= offset + Limit) /\ next = offset + Limit
    BY <1>3, <1>5 DEF Onward
  <2>2. Len(p.rows) = Limit /\ p.rows # <<>>
    BY <1>1, <1>3, <1>4, <2>1
  <2>3. p.rows[Limit] = PlaceIn(terms, next) /\ v.from = p.rows[Limit]
    BY <1>1, <1>3, <1>5, <2>1, <2>2 DEF Far
  <2>4. next \in 0..next /\ next # 0 /\ next <= Total
    BY <1>1, <2>1
  <2>. QED
    BY <1>1, <1>2, <1>5, <2>3, <2>4 DEF SeenPlaces
<1>6. CASE ~forward
  <2>1. next + Limit = offset /\ next + Limit <= offset
    BY <1>1, <1>6
  <2>2. IF Total <= offset THEN v.from = NoRow ELSE v.from = PlaceIn(terms, offset + 1)
    <3>1. CASE Total <= offset
      BY <1>3, <1>4, <3>1
    <3>2. CASE ~(Total <= offset)
      <4>1. Len(p.rows) \in Nat /\ Len(p.rows) # 0
        BY <1>1, <1>3, <3>2
      <4>2. p.rows[1] = PlaceIn(terms, offset + 1)
        BY <1>3, <4>1
      <4>. QED
        BY <1>4, <1>6, <3>2, <4>1, <4>2 DEF Far
    <3>. QED
      BY <3>1, <3>2
  <2>3. \A row \in Rows :
          Count(v.seen, row) = Cardinality(Places(terms, row, next + Limit + 1, offset))
    BY <1>1, <1>2, <2>1
  <2>. QED
    BY <1>1, <1>6, <2>1, <2>2, <2>3 DEF SeenPlaces
<1>. QED
  BY <1>5, <1>6

\* The page of an offset that another one led to.
LEMMA OffsetMoves ==
  ASSUME NEW sort, Fetchable(sort), relation.bestEffort, NEW forward \in BOOLEAN,
         NEW p, NEW w, NEW req, NEW was \in BOOLEAN,
         OffsetWalk(p, w, req, OrderOf(relation, sort), was), ~Onward(p, forward).none,
         NEW rq, rq.sort = sort, rq.cursor = Onward(p, forward), rq.direction # "first"
  PROVE  /\ Offset(rq) = IF forward THEN Offset(req) + Limit ELSE Offset(req) - Limit
         /\ Offset(rq) \in Offsets /\ Offset(req) \in Offsets
         /\ LET q == OffsetPage(rq)
            IN /\ PagePlaces(q, OrderOf(relation, sort), Offset(rq))
               /\ q.rows \in Seq(Rows)
               /\ ~q.next.none => q.next.offset = Offset(rq) + Limit
               /\ ~q.prev.none => Offset(rq) # 0 /\ q.prev.offset = Offset(rq) - Limit
<1>. DEFINE terms == OrderOf(relation, sort)
            q == OffsetPage(rq)
<1>1. /\ Offset(req) \in Offsets
      /\ Offset(rq) = IF forward THEN Offset(req) + Limit ELSE Offset(req) - Limit
      /\ ~forward => Offset(req) # 0
  BY DEF OffsetWalk, Offset, Onward
<1>2. Offset(rq) \in Offsets
  BY <1>1, OffsetSteps
<1>3. /\ PagePlaces(q, terms, Offset(rq))
      /\ ~q.next.none => q.next.offset = Offset(rq) + Limit
      /\ ~q.prev.none => q.prev.offset = Offset(rq) - Limit
  BY <1>2, OffsetPageIs
<1>. HIDE DEF q, terms
<1>4. q.rows \in Seq(Rows) /\ (~q.prev.none => Offset(rq) # 0)
  BY <1>3 DEF PagePlaces
<1>. QED
  BY <1>1, <1>2, <1>3, <1>4 DEF q, terms

LEMMA OffsetGoesOn ==
  ASSUME NEW sort, Fetchable(sort), relation.bestEffort, NEW forward \in BOOLEAN,
         NEW p, NEW w, NEW req, w.fetched = writes \/ w.began # writes,
         OffsetWalk(p, w, req, OrderOf(relation, sort), forward), ~Onward(p, forward).none,
         NEW rq, rq.sort = sort, rq.cursor = Onward(p, forward), rq.direction # "first",
         NEW v, v.seen = w.seen \o p.rows, v.from = w.from, v.steady = w.steady, v.began = w.began
  PROVE  OffsetWalk(OffsetPage(rq), v, rq, OrderOf(relation, sort), forward)
<1>. DEFINE terms == OrderOf(relation, sort)
            q == OffsetPage(rq)
<1>1. /\ Offset(rq) = IF forward THEN Offset(req) + Limit ELSE Offset(req) - Limit
      /\ Offset(rq) \in Offsets /\ Offset(req) \in Offsets
      /\ PagePlaces(q, terms, Offset(rq)) /\ q.rows \in Seq(Rows)
      /\ ~q.next.none => q.next.offset = Offset(rq) + Limit
      /\ ~q.prev.none => Offset(rq) # 0 /\ q.prev.offset = Offset(rq) - Limit
  BY OffsetMoves
<1>2. /\ w.seen \in Seq(Rows) /\ p.rows \in Seq(Rows)
      /\ w.fetched = writes => PagePlaces(p, terms, Offset(req))
      /\ w.began = writes => w.steady = Present /\ SeenPlaces(w, terms, forward, Offset(req))
  BY DEF OffsetWalk
<1>. HIDE DEF q, terms
<1>3. v.seen \in Seq(Rows)
  BY <1>2, ConcatProperties
<1>4. ASSUME v.began = writes
      PROVE  v.steady = Present /\ SeenPlaces(v, terms, forward, Offset(rq))
  <2>1. /\ PagePlaces(p, terms, Offset(req)) /\ v.steady = Present
        /\ SeenPlaces(w, terms, forward, Offset(req))
    BY <1>2, <1>4
  <2>. QED
    BY <1>1, <1>2, <2>1, SeenGoesOn
<1>5. OffsetWalk(q, v, rq, terms, forward)
  BY <1>1, <1>3, <1>4 DEF OffsetWalk
<1>. QED
  BY <1>5 DEF q, terms

LEMMA OffsetTurns ==
  ASSUME NEW sort, Fetchable(sort), relation.bestEffort, NEW forward \in BOOLEAN,
         NEW p, NEW w, NEW req, NEW was \in BOOLEAN,
         OffsetWalk(p, w, req, OrderOf(relation, sort), was), ~Onward(p, forward).none,
         NEW rq, rq.sort = sort, rq.cursor = Onward(p, forward), rq.direction # "first",
         NEW v, v.seen = <<>>, v.steady = Present, v.began = w.fetched,
         v.from = IF p.rows = <<>> THEN NoRow ELSE Far(p, forward)
  PROVE  OffsetWalk(OffsetPage(rq), v, rq, OrderOf(relation, sort), forward)
<1>. DEFINE terms == OrderOf(relation, sort)
            q == OffsetPage(rq)
<1>1. /\ Offset(rq) = IF forward THEN Offset(req) + Limit ELSE Offset(req) - Limit
      /\ Offset(rq) \in Offsets /\ Offset(req) \in Offsets
      /\ PagePlaces(q, terms, Offset(rq)) /\ q.rows \in Seq(Rows)
      /\ ~q.next.none => q.next.offset = Offset(rq) + Limit
      /\ ~q.prev.none => Offset(rq) # 0 /\ q.prev.offset = Offset(rq) - Limit
  BY OffsetMoves
<1>2. w.fetched = writes => PagePlaces(p, terms, Offset(req))
  BY DEF OffsetWalk
<1>. HIDE DEF q, terms
<1>3. ASSUME v.began = writes
      PROVE  SeenPlaces(v, terms, forward, Offset(rq))
  <2>1. PagePlaces(p, terms, Offset(req))
    BY <1>2, <1>3
  <2>. QED
    BY <1>1, <2>1, SeenFromHere
<1>4. OffsetWalk(q, v, rq, terms, forward)
  BY <1>1, <1>3, EmptySeq DEF OffsetWalk
<1>. QED
  BY <1>4 DEF q, terms

\* The state that a page has come to, and one that somebody has written.
LEMMA OffsetWalkMoves ==
  ASSUME NEW sort, NEW forward \in BOOLEAN, UNCHANGED <<table, relation, writes>>,
         OffsetWalk(page', walk', request', OrderOf(relation, sort), forward),
         request'.sort = sort, Forward' = forward
  PROVE  OffsetWalk(page, walk, request, Order, Forward)'
<1>1. Order' = OrderOf(relation, sort) /\ Rows' = Rows /\ Present' = Present
  BY DEF Order, Rows, Present
<1>2. \A S, terms, n : Nth(S, terms, n)' = Nth(S, terms, n)
  BY DEF Nth
<1>3. \A terms, n : PlaceIn(terms, n)' = PlaceIn(terms, n)
  BY <1>1, <1>2 DEF PlaceIn, RowOf
<1>4. /\ Total' = Total /\ Offsets' = Offsets
      /\ \A terms, row, a, b : Places(terms, row, a, b)' = Places(terms, row, a, b)
  BY <1>1, <1>3 DEF Total, Places, Offsets
<1>5. \A p, terms, n : PagePlaces(p, terms, n)' <=> PagePlaces(p, terms, n)
  BY <1>1, <1>3, <1>4 DEF PagePlaces
<1>6. \A w, terms, up, n : SeenPlaces(w, terms, up, n)' <=> SeenPlaces(w, terms, up, n)
  BY <1>1, <1>3, <1>4 DEF SeenPlaces
<1>. QED
  BY <1>1, <1>4, <1>5, <1>6 DEF OffsetWalk, Offset

LEMMA OffsetSurvives ==
  ASSUME TableInv, OffsetWalk(page, walk, request, Order, Forward),
         UNCHANGED <<page, request, relation>>, writes' = writes + 1,
         walk'.seen = walk.seen, walk'.began = walk.began, walk'.fetched = walk.fetched
  PROVE  OffsetWalk(page, walk, request, Order, Forward)'
<1>1. writes' # walk'.fetched /\ writes' # walk'.began
  BY DEF TableInv
<1>2. Rows' = Rows /\ Offsets' = Offsets
  BY DEF Rows, Offsets
<1>. QED
  BY <1>1, <1>2 DEF OffsetWalk, Offset

LEMMA OffsetContinues ==
  ASSUME Inv, TableInv, SortInv, OffsetInv, page.loaded, relation.bestEffort,
         NEW forward \in BOOLEAN, NEW direction,
         direction = IF forward THEN "next" ELSE "previous",
         NEW cursor, cursor = Onward(page, forward), ~cursor.none,
         Fetches([direction |-> direction, sort |-> request.sort, cursor |-> cursor]),
         Continue(direction, IF forward THEN LastRow ELSE FirstRow)
  PROVE  OffsetWalk(page, walk, request, Order, Forward)'
<1>. DEFINE rq == [direction |-> direction, sort |-> request.sort, cursor |-> cursor]
            sort == request.sort
            terms == OrderOf(relation, sort)
            turn == IF forward THEN LastRow ELSE FirstRow
<1>1. Fetchable(sort)
  BY IsFetchable, IsDescribed DEF SortInv
<1>2. /\ page' = OffsetPage(rq) /\ request' = rq /\ UNCHANGED <<table, relation, writes>>
      /\ rq.sort = sort /\ rq.cursor = Onward(page, forward) /\ rq.direction = direction
  BY DEF Fetches
<1>. HIDE DEF rq
<1>3. OffsetWalk(page, walk, request, terms, Forward) /\ terms = Order /\ Forward \in BOOLEAN
  BY DEF OffsetInv, Order, Forward
<1>4. ~Onward(page, forward).none /\ rq.direction # "first"
  BY <1>2
<1>5. CASE walk.direction = direction
  <2>1. Forward = forward
    BY <1>5 DEF Forward
  <2>2. /\ walk'.seen = walk.seen \o page.rows /\ walk'.from = walk.from
        /\ walk'.steady = walk.steady /\ walk'.direction = walk.direction
        /\ walk'.began = walk.began
    BY <1>5 DEF Continue, SortInv
  <2>3. Forward' = forward /\ (walk.fetched = writes \/ walk.began # writes)
    BY <2>1, <2>2 DEF Forward, TableInv
  <2>. HIDE DEF sort, terms
  <2>4. OffsetWalk(OffsetPage(rq), walk', rq, OrderOf(relation, sort), forward)
    BY <1>1, <1>2, <1>3, <1>4, <2>1, <2>2, <2>3, OffsetGoesOn DEF terms
  <2>. QED
    BY <1>2, <2>3, <2>4, OffsetWalkMoves
<1>6. CASE walk.direction # direction
  <2>1. walk' = NewWalk(direction, turn, walk.fetched)
    BY <1>6 DEF Continue
  <2>2. turn = IF page.rows = <<>> THEN NoRow ELSE Far(page, forward)
    BY DEF Far, LastRow, FirstRow
  <2>3. /\ walk'.seen = <<>> /\ walk'.from = IF page.rows = <<>> THEN NoRow ELSE Far(page, forward)
        /\ walk'.steady = Present /\ walk'.began = walk.fetched /\ Forward' = forward
    BY <2>1, <2>2 DEF NewWalk, Forward
  <2>. HIDE DEF sort, terms
  <2>4. OffsetWalk(OffsetPage(rq), walk', rq, OrderOf(relation, sort), forward)
    BY <1>1, <1>2, <1>3, <1>4, <2>3, OffsetTurns DEF terms
  <2>. QED
    BY <1>2, <2>3, <2>4, OffsetWalkMoves
<1>. QED
  BY <1>5, <1>6

LEMMA OffsetInvStays ==
  ASSUME Inv, TableInv, SortInv, OffsetInv, [Next]_vars
  PROVE  OffsetInv'
<1>. SUFFICES ASSUME page'.loaded, relation'.bestEffort
              PROVE  OffsetWalk(page, walk, request, Order, Forward)'
  BY DEF OffsetInv
<1>1. ASSUME page.loaded, UNCHANGED <<page, request, walk, table, writes>>
      PROVE  OffsetWalk(page, walk, request, Order, Forward)'
  <2>1. relation' = relation
    BY <1>1, LoadedStays
  <2>2. OffsetWalk(page', walk', request', OrderOf(relation, request.sort), Forward)
    BY <1>1, <2>1 DEF OffsetInv, Order
  <2>3. Forward \in BOOLEAN /\ Forward' = Forward /\ request'.sort = request.sort
    BY <1>1 DEF Forward
  <2>4. UNCHANGED <<table, relation, writes>>
    BY <1>1, <2>1
  <2>. QED
    BY <2>2, <2>3, <2>4, OffsetWalkMoves
<1>2. CASE Describe
  BY <1>1, <1>2 DEF Describe
<1>3. CASE FetchFirst
  <2>1. PICK sort \in Sorts(relation) : Fetches(First(sort)) /\ walk' = NewWalk("next", NoRow, writes)
    BY <1>3 DEF FetchFirst
  <2>2. Fetchable(sort)
    BY <1>3, IsFetchable DEF FetchFirst
  <2>. DEFINE rq == First(sort)
  <2>3. /\ page' = OffsetPage(rq) /\ request' = rq /\ UNCHANGED <<table, relation, writes>>
        /\ rq.sort = sort /\ rq.direction = "first" /\ relation.bestEffort
    BY <2>1 DEF Fetches, First
  <2>4. walk'.seen = <<>> /\ walk'.from = NoRow /\ walk'.steady = Present /\ Forward' = TRUE
    BY <2>1 DEF NewWalk, Forward
  <2>. HIDE DEF rq
  <2>5. OffsetWalk(OffsetPage(rq), walk', rq, OrderOf(relation, sort), TRUE)
    BY <2>2, <2>3, <2>4, OffsetBegins
  <2>. QED
    BY <2>3, <2>4, <2>5, OffsetWalkMoves
<1>4. CASE FetchNext
  <2>1. /\ page.loaded /\ ~page.next.none
        /\ Fetches([direction |-> "next", sort |-> request.sort, cursor |-> page.next])
        /\ Continue("next", LastRow)
    BY <1>4 DEF FetchNext
  <2>2. relation.bestEffort /\ page.next = Onward(page, TRUE)
    BY <2>1 DEF Fetches, Onward
  <2>3. LastRow = IF TRUE THEN LastRow ELSE FirstRow
    OBVIOUS
  <2>. QED
    BY <2>1, <2>2, <2>3, OffsetContinues
<1>5. CASE FetchPrevious
  <2>1. /\ page.loaded /\ ~page.prev.none
        /\ Fetches([direction |-> "previous", sort |-> request.sort, cursor |-> page.prev])
        /\ Continue("previous", FirstRow)
    BY <1>5 DEF FetchPrevious
  <2>2. relation.bestEffort /\ page.prev = Onward(page, FALSE)
    BY <2>1 DEF Fetches, Onward
  <2>3. FirstRow = IF FALSE THEN LastRow ELSE FirstRow
    OBVIOUS
  <2>. QED
    BY <2>1, <2>2, <2>3, OffsetContinues
<1>6. CASE FetchAgain
  <2>1. /\ page.loaded /\ page' = OffsetPage(request) /\ request' = request
        /\ UNCHANGED <<table, relation, writes>> /\ relation.bestEffort
    BY <1>6 DEF FetchAgain, Fetches
  <2>2. /\ walk'.seen = walk.seen /\ walk'.from = walk.from /\ walk'.began = walk.began
        /\ walk'.steady = walk.steady /\ walk'.direction = walk.direction
    BY <1>6 DEF FetchAgain
  <2>3. /\ Fetchable(request.sort) /\ OffsetWalk(page, walk, request, Order, Forward)
        /\ Forward' = Forward /\ Forward \in BOOLEAN
    BY <2>1, <2>2, IsFetchable, IsDescribed DEF SortInv, OffsetInv, Forward
  <2>4. OffsetWalk(OffsetPage(request), walk', request, OrderOf(relation, request.sort), Forward)
    BY <2>1, <2>2, <2>3, OffsetStays DEF Order
  <2>. QED
    BY <2>1, <2>3, <2>4, OffsetWalkMoves
<1>7. CASE Write
  <2>1. /\ UNCHANGED <<page, request, relation>> /\ writes' = writes + 1
        /\ walk'.seen = walk.seen /\ walk'.began = walk.began /\ walk'.fetched = walk.fetched
    BY <1>7 DEF Write
  <2>2. OffsetWalk(page, walk, request, Order, Forward)
    BY <2>1 DEF OffsetInv
  <2>. QED
    BY <2>1, <2>2, OffsetSurvives
<1>8. CASE UNCHANGED vars
  BY <1>1, <1>8 DEF vars
<1>. QED
  BY <1>2, <1>3, <1>4, <1>5, <1>6, <1>7, <1>8 DEF Next

\* Without a key, while nobody writes.
LEMMA OffsetShowsAll ==
  ASSUME Inv, TableInv, SortInv, OffsetInv, page.loaded, relation.bestEffort, walk.began = writes
  PROVE  WalkShowsAll
<1>. DEFINE terms == OrderOf(relation, request.sort)
            forward == walk.direction = "next"
            shown == walk.seen \o page.rows
            cursor == IF forward THEN page.next ELSE page.prev
            end == IF forward THEN LastRow ELSE FirstRow
            Further(a, b) == IF forward THEN Precedes(terms, b, a) ELSE Precedes(terms, a, b)
            InScope(row) == walk.from = NoRow \/ Further(row, walk.from)
            Passed(row) == cursor.none \/ (end # NoRow /\ Further(end, row))
            alike(row) == Cardinality({q \in walk.steady : Shown(relation, table[q]) = row})
            offset == Offset(request)
<1>1. Fetchable(request.sort) /\ OffsetWalk(page, walk, request, terms, forward)
  BY IsFetchable, IsDescribed DEF SortInv, OffsetInv, Order, Forward
<1>2. /\ offset \in Offsets /\ walk.seen \in Seq(Rows) /\ page.rows \in Seq(Rows)
      /\ PagePlaces(page, terms, offset) /\ walk.steady = Present
      /\ SeenPlaces(walk, terms, forward, offset)
  <2>1. walk.fetched = writes
    BY DEF TableInv
  <2>. QED
    BY <1>1, <2>1 DEF OffsetWalk
<1>3. NoRow \notin Rows /\ \A r \in Present : RowOf(r) \in Rows
  BY <1>1, FetchableParts
<1>. HIDE DEF offset, forward, terms
<1>4. offset \in Nat /\ Limit \in Nat \ {0} /\ Total \in Nat
  BY <1>2, OffsetSteps, TotalIsNat
<1>5. /\ Len(page.rows) = IF Total <= offset THEN 0
                          ELSE IF Total <= offset + Limit THEN Total - offset ELSE Limit
      /\ \A i \in 1..Len(page.rows) : page.rows[i] = PlaceIn(terms, offset + i)
      /\ page.next.none <=> Total <= offset + Limit
      /\ page.prev.none <=> offset = 0
      /\ Len(page.rows) \in Nat
      /\ page.rows = <<>> <=> Len(page.rows) = 0
  BY <1>2, <1>4, LenProperties, EmptySeq DEF PagePlaces
<1>6. \A row : Count(shown, row) = Count(walk.seen, row)
                 + Cardinality(Places(terms, row, offset + 1, offset + Limit))
  BY <1>2, <1>4, CountOfJoined, CountOfPage
<1>. HIDE DEF shown
<1>7. ASSUME NEW r \in walk.steady
      PROVE  LET row == RowOf(r)
             IN /\ InScope(row) => Count(shown, row) <= alike(row)
                /\ InScope(row) /\ Passed(row) => Count(shown, row) = alike(row)
                /\ ~InScope(row) /\ row # walk.from => Count(shown, row) = 0
  <2>. DEFINE row == RowOf(r)
              rank == Cardinality(Ahead(Present, terms, r))
              reach == Cardinality(UpTo(Present, terms, r))
              many == Cardinality({q \in Present : RowOf(q) = RowOf(r)})
  <2>1. r \in Present /\ row \in Rows /\ alike(row) = many
    BY <1>2, <1>3 DEF RowOf
  <2>2. /\ rank \in Nat /\ reach \in Nat /\ reach <= Total
        /\ \A i \in 1..Total :
             /\ PlaceIn(terms, i) \in Rows
             /\ Precedes(terms, PlaceIn(terms, i), row) <=> i <= rank
             /\ Precedes(terms, row, PlaceIn(terms, i)) <=> reach < i
             /\ PlaceIn(terms, i) = row <=> rank < i /\ i <= reach
    <3>1. Fetchable(request.sort) /\ relation.bestEffort /\ r \in Present /\ 0 \in Nat
      BY <1>1, <2>1
    <3>2. PlacesSplit(OrderOf(relation, request.sort), r)
      BY ONLY <3>1, PlacesOfRow
    <3>. QED
      BY <3>2 DEF PlacesSplit, terms, row, rank, reach
  <2>3. \A a, b \in Nat :
          LET places == Cardinality(Places(terms, row, a + 1, b))
          IN /\ places <= many
             /\ a <= rank /\ reach <= b => places = many
             /\ reach <= a \/ b <= rank => places = 0
    <3>1. ASSUME NEW a \in Nat, NEW b \in Nat
          PROVE  LET places == Cardinality(Places(terms, row, a + 1, b))
                 IN /\ places <= many
                    /\ a <= rank /\ reach <= b => places = many
                    /\ reach <= a \/ b <= rank => places = 0
      <4>1. /\ Fetchable(request.sort) /\ relation.bestEffort /\ r \in Present
            /\ a \in Nat /\ b \in Nat
        BY <1>1, <2>1
      <4>2. PlacesCounted(OrderOf(relation, request.sort), r, a, b)
        BY ONLY <4>1, PlacesOfRow
      <4>. QED
        BY <4>2 DEF PlacesCounted, terms, row, rank, reach, many
    <3>. HIDE DEF row, rank, reach, many, terms
    <3>. QED
      BY <3>1
  <2>. HIDE DEF row, rank, reach, many, alike
\* Where the walk began and where it has come to, as places.
  <2>4. CASE forward
    <3>1. PICK first \in 0..offset :
            /\ IF first = 0 THEN walk.from = NoRow
                            ELSE first <= Total /\ walk.from = PlaceIn(terms, first)
            /\ Count(walk.seen, row) = Cardinality(Places(terms, row, first + 1, offset))
      BY <1>2, <2>1, <2>4 DEF SeenPlaces
    <3>2. /\ first \in Nat /\ first <= offset /\ offset + Limit \in Nat
          /\ offset <= offset + Limit
      BY <1>4, <3>1
    <3>3. Count(shown, row) = Cardinality(Places(terms, row, first + 1, offset + Limit))
      <4>1. Cardinality(Places(terms, row, first + 1, offset + Limit)) =
              Cardinality(Places(terms, row, first + 1, offset))
                + Cardinality(Places(terms, row, offset + 1, offset + Limit))
        BY ONLY <1>4, <3>2, PlacesJoin
      <4>. QED
        BY <1>6, <3>1, <4>1
    <3>4. InScope(row) => first <= rank
      <4>1. CASE first = 0
        BY <2>2, <4>1
      <4>2. CASE first # 0
        <5>1. first \in 1..Total /\ walk.from = PlaceIn(terms, first)
          BY <1>4, <3>1, <3>2, <4>2
        <5>. QED
          BY <1>3, <2>2, <2>4, <5>1
      <4>. QED
        BY <4>1, <4>2
    <3>5. Passed(row) => reach <= offset + Limit
      <4>1. CASE page.next.none
        BY <1>4, <1>5, <2>2, <4>1
      <4>2. ASSUME LastRow # NoRow, Precedes(terms, row, LastRow)
            PROVE  reach <= offset + Limit
        <5>. DEFINE n == Len(page.rows)
        <5>1. n # 0 /\ LastRow = page.rows[n] /\ n \in 1..n
          BY <1>5, <4>2 DEF LastRow
        <5>2. LastRow = PlaceIn(terms, offset + n) /\ offset + n \in 1..Total /\ n <= Limit
          BY <1>4, <1>5, <5>1
        <5>3. reach < offset + n
          BY <2>2, <4>2, <5>2
        <5>. QED
          BY <1>4, <1>5, <2>2, <5>2, <5>3
      <4>. QED
        BY <2>4, <4>1, <4>2
    <3>6. ~InScope(row) /\ row # walk.from => reach <= first
      <4>1. CASE first = 0
        BY <3>1, <4>1
      <4>2. CASE first # 0
        <5>1. first \in 1..Total /\ walk.from = PlaceIn(terms, first)
          BY <1>4, <3>1, <3>2, <4>2
        <5>2. ASSUME ~InScope(row), row # walk.from PROVE reach <= first
          <6>1. ~(first <= rank) /\ ~(rank < first /\ first <= reach)
            BY <2>2, <2>4, <5>1, <5>2
          <6>. QED
            BY <2>2, <3>2, <6>1
        <5>. QED
          BY <5>2
      <4>. QED
        BY <4>1, <4>2
    <3>. HIDE DEF InScope, Passed
    <3>. QED
      BY <2>1, <2>3, <3>2, <3>3, <3>4, <3>5, <3>6 DEF row
  <2>5. CASE ~forward
    <3>1. PICK last \in Nat :
            /\ offset + Limit <= last
            /\ IF Total <= last THEN walk.from = NoRow ELSE walk.from = PlaceIn(terms, last + 1)
            /\ Count(walk.seen, row) = Cardinality(Places(terms, row, offset + Limit + 1, last))
      BY <1>2, <2>1, <2>5 DEF SeenPlaces
    <3>2. offset + Limit \in Nat /\ offset <= offset + Limit
      BY <1>4
    <3>3. Count(shown, row) = Cardinality(Places(terms, row, offset + 1, last))
      <4>1. Cardinality(Places(terms, row, offset + 1, last)) =
              Cardinality(Places(terms, row, offset + 1, offset + Limit))
                + Cardinality(Places(terms, row, offset + Limit + 1, last))
        <5>1. /\ offset \in Nat /\ offset + Limit \in Nat /\ last \in Nat
              /\ offset <= offset + Limit /\ offset + Limit <= last
          BY <1>4, <3>1, <3>2
        <5>. QED
          BY ONLY <5>1, PlacesJoin
      <4>2. /\ Cardinality(Places(terms, row, offset + 1, offset + Limit)) \in Nat
            /\ Cardinality(Places(terms, row, offset + Limit + 1, last)) \in Nat
        BY PlacesFinite
      <4>. QED
        BY <1>6, <3>1, <4>1, <4>2
    <3>4. InScope(row) => reach <= last
      <4>1. CASE Total <= last
        BY <1>4, <2>2, <4>1
      <4>2. CASE ~(Total <= last)
        <5>1. last + 1 \in 1..Total /\ walk.from = PlaceIn(terms, last + 1)
          BY <1>4, <3>1, <4>2
        <5>2. InScope(row) => reach < last + 1
          BY <1>3, <2>2, <2>5, <5>1
        <5>. QED
          BY <2>2, <5>2
      <4>. QED
        BY <4>1, <4>2
    <3>5. Passed(row) => offset <= rank
      <4>1. CASE page.prev.none
        BY <1>5, <2>2, <4>1
      <4>2. ASSUME FirstRow # NoRow, Precedes(terms, FirstRow, row)
            PROVE  offset <= rank
        <5>1. Len(page.rows) # 0 /\ FirstRow = page.rows[1] /\ 1 \in 1..Len(page.rows)
          BY <1>5, <4>2 DEF FirstRow
        <5>2. FirstRow = PlaceIn(terms, offset + 1) /\ offset + 1 \in 1..Total
          BY <1>4, <1>5, <5>1
        <5>3. offset + 1 <= rank
          BY <2>2, <4>2, <5>2
        <5>. QED
          BY <1>4, <2>2, <5>3
      <4>. QED
        BY <2>5, <4>1, <4>2
    <3>6. ~InScope(row) /\ row # walk.from => last <= rank
      <4>1. CASE Total <= last
        BY <3>1, <4>1
      <4>2. CASE ~(Total <= last)
        <5>1. last + 1 \in 1..Total /\ walk.from = PlaceIn(terms, last + 1)
          BY <1>4, <3>1, <4>2
        <5>2. ASSUME ~InScope(row), row # walk.from PROVE last <= rank
          <6>1. ~(reach < last + 1) /\ ~(rank < last + 1 /\ last + 1 <= reach)
            BY <2>2, <2>5, <5>1, <5>2
          <6>. QED
            BY <2>2, <3>1, <6>1
        <5>. QED
          BY <5>2
      <4>. QED
        BY <4>1, <4>2
    <3>. HIDE DEF InScope, Passed
    <3>. QED
      BY <1>4, <2>1, <2>3, <3>1, <3>3, <3>4, <3>5, <3>6 DEF row
  <2>. QED
    BY <2>4, <2>5
<1>. QED
  BY <1>2, <1>7 DEF WalkShowsAll, RowOf, terms, forward, shown

\* What is true of a walk between any two steps.
WalkInv == Inv /\ TableInv /\ SortInv /\ KeysetInv /\ OffsetInv

LEMMA WalkInvBegins == Init => WalkInv
<1>. SUFFICES ASSUME Init PROVE WalkInv
  OBVIOUS
<1>1. Inv
  BY DEF Init, Inv, NoPage
<1>2. ~page.loaded /\ walk.direction = "next" /\ "seen" \in DOMAIN walk
  BY DEF Init, NoPage
<1>. QED
  BY <1>1, <1>2, TableInvBegins DEF WalkInv, SortInv, KeysetInv, OffsetInv

\* Whoever walks over the pages of a relation is shown every row that nobody has
\* touched since the walk began exactly once: with a key whatever others write
\* meanwhile, without one while nobody writes (FetchPage, keysetQuery,
\* bestEffortOrder).
THEOREM Walk == Spec => []WalkShowsAll
<1>1. Init => WalkInv
  BY WalkInvBegins
<1>2. WalkInv /\ Inv' /\ [Next]_vars => WalkInv'
  <2>. SUFFICES ASSUME WalkInv, Inv', [Next]_vars PROVE WalkInv'
    OBVIOUS
  <2>1. Inv /\ TableInv /\ SortInv /\ KeysetInv /\ OffsetInv
    BY DEF WalkInv
  <2>2. TableInv' /\ SortInv'
    BY <2>1, TableInvStays, SortInvStays
  <2>3. KeysetInv' /\ OffsetInv'
    BY <2>1, KeysetInvStays, OffsetInvStays
  <2>. QED
    BY <2>2, <2>3 DEF WalkInv
<1>3. WalkInv => WalkShowsAll
  <2>. SUFFICES ASSUME WalkInv PROVE WalkShowsAll
    OBVIOUS
  <2>1. CASE ~page.loaded \/ (relation.bestEffort /\ walk.began # writes)
    BY <2>1 DEF WalkShowsAll
  <2>2. CASE page.loaded /\ ~relation.bestEffort
    BY <2>2, KeysetShowsAll DEF WalkInv
  <2>3. CASE page.loaded /\ relation.bestEffort /\ walk.began = writes
    BY <2>3, OffsetShowsAll DEF WalkInv
  <2>. QED
    BY <2>1, <2>2, <2>3
<1>. QED
  BY <1>1, <1>2, <1>3, InvHolds, PTL DEF Spec
=================================================================================
