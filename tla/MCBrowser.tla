------------------------------- MODULE MCBrowser -------------------------------
EXTENDS Browser, TLC

CONSTANTS r1, r2, r3, r4, r5

MCRowIds == {r1, r2, r3, r4, r5}

Column(nullable, select, insert, update) ==
  [nullable |-> nullable, hasDefault |-> FALSE, generated |-> FALSE, identity |-> FALSE,
   canSelect |-> select, canInsert |-> insert, canUpdate |-> update, sortable |-> TRUE]
Unsortable(column) == [column EXCEPT !.sortable = FALSE]
Index(primary, columns) == [primary |-> primary, usable |-> TRUE, columns |-> columns]
Catalog(kind, columns, indexes) ==
  [kind |-> kind, columns |-> columns, indexes |-> indexes, canDelete |-> TRUE, system |-> TRUE]

Table(rows) ==
  [r \in MCRowIds |-> LET i == CHOOSE i \in 1..5 : r = <<r1, r2, r3, r4, r5>>[i]
                      IN IF i <= Len(rows) THEN rows[i] ELSE Absent]

\* A key, and a column that may be null.
Keyed ==
  [catalog |-> Catalog("table", <<Unsortable(Column(FALSE, TRUE, TRUE, TRUE)), Column(TRUE, TRUE, TRUE, TRUE)>>,
                       <<Index(TRUE, <<1>>)>>),
   rows |-> {<<1, 1>>, <<1, Null>>, <<2, 1>>, <<2, 2>>, <<3, 2>>, <<4, 1>>, <<4, Null>>, <<5, Null>>},
   tables |-> {Table(<<<<1, Null>>, <<2, 1>>, <<3, 2>>, <<4, Null>>, <<5, Null>>>>),
               Table(<<<<1, 1>>, <<2, 1>>, <<4, 1>>, <<5, Null>>>>)},
   writes |-> 2]

\* A key of two columns, in another order than the columns.
KeyOfTwo ==
  [catalog |-> Catalog("partitioned", <<Column(FALSE, TRUE, TRUE, TRUE), Column(FALSE, TRUE, TRUE, TRUE)>>,
                       <<Index(FALSE, <<2, 1>>)>>),
   rows |-> ((1..2) \X (1..3)) \ {<<1, 3>>},
   tables |-> {Table(<<<<1, 1>>, <<1, 2>>, <<2, 1>>, <<2, 2>>, <<2, 3>>>>)},
   writes |-> 1]

\* No key, a column that nobody may read, and rows that look alike.
Keyless ==
  [catalog |-> Catalog("view", <<Column(TRUE, TRUE, TRUE, TRUE), Column(TRUE, FALSE, TRUE, TRUE),
                                 Column(TRUE, TRUE, TRUE, TRUE)>>, <<>>),
   rows |-> {1, Null} \X {1, 2} \X {1, Null},
   tables |-> {Table(<<<<1, 1, 1>>, <<1, 2, 1>>, <<1, 2, Null>>, <<Null, 1, 1>>, <<1, 1, 1>>>>)},
   writes |-> 1]

\* Many catalogs, with empty tables.
Columns1 ==
  {[nullable |-> null, hasDefault |-> default \/ computed = "generated",
    generated |-> computed = "generated", identity |-> computed = "identity",
    canSelect |-> select, canInsert |-> insert, canUpdate |-> update, sortable |-> TRUE] :
     null, default, select, insert, update \in BOOLEAN,
     computed \in {"no", "generated", "identity"}}
Columns2 ==
  {c \in Columns1 : ~c.hasDefault /\ ~c.generated /\ ~c.identity /\ (c.nullable => c.canInsert)}
SomeIndexes ==
  {<<>>, <<Index(TRUE, <<1>>)>>, <<Index(FALSE, <<1, 2>>), Index(FALSE, <<2>>)>>,
   <<Index(FALSE, <<2>>), Index(TRUE, <<1, 2>>)>>,
   <<[Index(FALSE, <<1>>) EXCEPT !.usable = FALSE]>>}
OfCatalog(kind, columns, indexes, delete, system) ==
  [catalog |-> [kind |-> kind, columns |-> columns, indexes |-> indexes,
                canDelete |-> delete, system |-> system],
   rows |-> {}, tables |-> {Table(<<>>)}, writes |-> 0]
Catalogued ==
  {OfCatalog(kind, <<a, b>>, indexes, delete, system) :
     kind \in {"table", "view"}, a \in Columns1, b \in Columns2, indexes \in SomeIndexes,
     delete, system \in BOOLEAN}

\* As servers have them: key columns of a primary key are not null, and who may
\* read the system columns may read the table.
Possible(w) ==
  LET cat == w.catalog
  IN /\ \A i \in DOMAIN cat.indexes : cat.indexes[i].primary =>
          \A c \in Range(cat.indexes[i].columns) : ~cat.columns[c].nullable
     /\ \A c \in 1..2 : (cat.system => cat.columns[c].canSelect)
                         /\ (cat.columns[c].identity => ~cat.columns[c].nullable)
     /\ cat.kind = "view" => cat.canDelete /\ ~cat.system /\ cat.indexes = <<>>
MCWorlds == {Keyed, KeyOfTwo, Keyless} \cup {w \in Catalogued : Possible(w)}
================================================================================
