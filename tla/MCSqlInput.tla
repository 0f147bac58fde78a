----------------------------- MODULE MCSqlInput -----------------------------
(* SqlInput as TLC checks it.                                              *)
EXTENDS SqlInput

CONSTANTS a, b
Letters == {a, b}

Table(rows, columns) == [isRows |-> TRUE, rows |-> rows, columns |-> columns]
CommandTag == [isRows |-> FALSE, rows |-> 0, columns |-> 0]

\* One user writes longer texts, one writes different ones, and neither sees a
\* run end; another reads results: none, two pages of one column, or a command
\* and then a row of two columns.
Writer ==
  [characters |-> {a}, length |-> 2, results |-> {}, heights |-> {1}]
Rewriter ==
  [characters |-> Letters, length |-> 1, results |-> {}, heights |-> {1}]
Reader ==
  [characters |-> {a}, length |-> 1,
   results |-> {<<>>, <<Table(3, 1)>>, <<CommandTag, Table(1, 2)>>},
   heights |-> {1, 2}]
AllSessions == {Writer, Rewriter, Reader}
=============================================================================
