------------------------------ MODULE SqlInput ------------------------------
(***************************************************************************)
(* A SQL tab as its user operates it: the editor with its selection and    *)
(* its history of edits (internal/sqltab/editor.go), the clicks and drags  *)
(* (mouse.go), and the panes and the navigation in results (model.go).     *)
(* The keys mean one thing in the text mode and another outside of it, and *)
(* a run that ends leaves the text mode at a moment nobody chooses.        *)
(*                                                                         *)
(* What is run, and how, is SqlTab's; here a run is under way or it is     *)
(* not, and ends with any result.  Outputs are their numbers of rows and   *)
(* columns.  The text area is a library: a key that is not handled before  *)
(* moves its cursor anywhere, inserts a character at the cursor or removes *)
(* characters next to it.  Left out: line breaks and scrolling in the      *)
(* editor, horizontal scrolling, status texts, the clipboard.              *)
(***************************************************************************)
EXTENDS Integers, Sequences, FiniteSets

CONSTANTS
  Characters,      \* what texts are made of, none of them blank
  MaxLength,       \* the longest text of all
  MaxUndoHistory,  \* maxUndoHistory
  ResultPageSize,
  Sessions         \* what a session with the tab may be like, see session

Texts == UNION {[1..n -> Characters] : n \in 0..MaxLength}
Snapshots == [value : Texts, cursor : 0..MaxLength]
Selections == [anchor : 0..MaxLength, head : 0..MaxLength, active : BOOLEAN]

\* An output is a table of results, or a command tag or an error (not rows).
Outputs == [isRows : BOOLEAN, rows : Nat, columns : Nat]
ErrorOutput == [isRows |-> FALSE, rows |-> 0, columns |-> 0]
AllOutputs == Seq(Outputs)

ConstantsAssumption ==
  /\ MaxLength \in Nat
  /\ MaxUndoHistory \in Nat \ {0}
  /\ ResultPageSize \in Nat \ {0}
  /\ Sessions \subseteq [characters : SUBSET Characters, length : 0..MaxLength,
                        results : SUBSET AllOutputs,
                        heights : SUBSET (Nat \ {0})]
ASSUME ConstantsAssumption

VARIABLES
  session,        \* the characters typed, the longest text, the results runs end
                  \* with and the result rows a window shows; it never changes
  text, cursor,   \* the text area
  textMode,       \* keys go to the editor, which is focused
  pane,           \* the pane that keys act on otherwise
  selection, dragging,
  undo, redo,     \* stacks of snapshots, the newest last
  running, ran,   \* a run is awaited; there is one to repeat
  result,         \* the outputs shown
  activeOutput, resultPage, selectedRow, resultRowOffset, selectedColumn,
  selectedRows,   \* the rows marked for copying
  inspector,      \* the window over one cell is open
  height          \* visibleResultRowCount

editorVars == <<text, cursor, selection, undo, redo>>
modeVars == <<textMode, pane, dragging>>
runVars == <<running, ran, result>>
cellVars == <<activeOutput, resultPage, selectedRow, resultRowOffset, selectedColumn>>
resultVars == <<cellVars, selectedRows, inspector>>
vars == <<session, editorVars, modeVars, runVars, resultVars, height>>

Smaller(a, b) == IF a < b THEN a ELSE b
Larger(a, b) == IF a > b THEN a ELSE b
Within(low, high, n) == Smaller(high, Larger(low, n))
-----------------------------------------------------------------------------
(* The selection.  Its bounds are clamped to the text that is there.       *)

NoSelection == [anchor |-> 0, head |-> 0, active |-> FALSE]

SelectionStart == Within(0, Len(text), Smaller(selection.anchor, selection.head))
SelectionEnd == Within(0, Len(text), Larger(selection.anchor, selection.head))
HasSelection == selection.active /\ SelectionStart # SelectionEnd
SelectedText == SubSeq(text, SelectionStart + 1, SelectionEnd)

\* The head moves to a position, the anchor stays.
HeadAt(anchor, position) ==
  selection' = [anchor |-> anchor, head |-> position, active |-> anchor # position]
-----------------------------------------------------------------------------
(* The history of edits.                                                   *)

Now == [value |-> text, cursor |-> cursor]

LastOf(stack) ==
  IF Len(stack) > MaxUndoHistory
  THEN SubSeq(stack, Len(stack) - MaxUndoHistory + 1, Len(stack))
  ELSE stack

PushUndoKeepingRedo(snapshot) ==
  /\ undo' = LastOf(Append(undo, snapshot))
  /\ UNCHANGED redo
PushUndo(snapshot) ==
  /\ undo' = LastOf(Append(undo, snapshot))
  /\ redo' = <<>>

\* The text becomes another one, and the one before can be got back.
ChangeTo(value, position) ==
  /\ text' = value
  /\ cursor' = position
  /\ selection' = NoSelection
  /\ IF value # text THEN PushUndo(Now) ELSE UNCHANGED <<undo, redo>>

RestoreKeepingSelection(snapshot) ==
  /\ text' = snapshot.value
  /\ cursor' = Within(0, Len(snapshot.value), snapshot.cursor)
  /\ UNCHANGED selection
Restore(snapshot) ==
  /\ text' = snapshot.value
  /\ cursor' = Within(0, Len(snapshot.value), snapshot.cursor)
  /\ selection' = NoSelection

ReplaceSelection(insert) ==
  LET start == IF HasSelection THEN SelectionStart ELSE cursor
      end == IF HasSelection THEN SelectionEnd ELSE cursor
      value == SubSeq(text, 1, start) \o insert \o SubSeq(text, end + 1, Len(text))
  IN  /\ Len(value) <= session.length
      /\ ChangeTo(value, start + Len(insert))
-----------------------------------------------------------------------------
(* Keys in the text mode.                                                  *)

InEditor ==
  /\ textMode /\ ~inspector
  /\ UNCHANGED <<pane, dragging, runVars, resultVars, height>>

LeaveEditor ==
  /\ InEditor
  /\ textMode' = FALSE
  /\ selection' = [selection EXCEPT !.active = HasSelection]
  /\ UNCHANGED <<text, cursor, undo, redo>>

SelectAll ==
  /\ InEditor
  /\ selection' = [anchor |-> 0, head |-> Len(text), active |-> text # <<>>]
  /\ cursor' = Len(text)
  /\ UNCHANGED <<text, undo, redo, textMode>>

UndoEdit ==
  /\ InEditor /\ undo # <<>>
  /\ undo' = SubSeq(undo, 1, Len(undo) - 1)
  /\ redo' = Append(redo, Now)
  /\ Restore(undo[Len(undo)])
  /\ UNCHANGED textMode

RedoEdit ==
  /\ InEditor /\ redo # <<>>
  /\ redo' = SubSeq(redo, 1, Len(redo) - 1)
  /\ undo' = Append(undo, Now)
  /\ Restore(redo[Len(redo)])
  /\ UNCHANGED textMode

\* Cutting, and the keys that remove the selected text.
RemoveSelection ==
  /\ InEditor /\ HasSelection
  /\ ReplaceSelection(<<>>)
  /\ UNCHANGED textMode

\* Tab, and a paste, replace the selection or insert at the cursor.
Insert(content) ==
  /\ InEditor
  /\ ReplaceSelection(content)
  /\ UNCHANGED textMode

\* Enter, or a character, in place of the selected text.
TypeOverSelection(character) ==
  /\ InEditor /\ HasSelection
  /\ ReplaceSelection(<<character>>)
  /\ UNCHANGED textMode

SelectTo(position) ==
  /\ InEditor
  /\ HeadAt(IF selection.active THEN selection.anchor ELSE cursor, position)
  /\ cursor' = position
  /\ UNCHANGED <<text, undo, redo, textMode>>

\* The arrow keys give up the selection, the text area's own keys do not.
MoveCursor(position, plain) ==
  /\ InEditor
  /\ cursor' = position
  /\ selection' = IF plain THEN NoSelection ELSE selection
  /\ UNCHANGED <<text, undo, redo, textMode>>

\* A character typed without a selection, and the text area's keys that remove
\* a character, a word or a line before or after the cursor.
TextAreaEdits ==
  {[value |-> SubSeq(text, 1, cursor) \o <<c>> \o SubSeq(text, cursor + 1, Len(text)),
    cursor |-> cursor + 1] : c \in IF HasSelection THEN {} ELSE session.characters}
  \cup {[value |-> SubSeq(text, 1, i) \o SubSeq(text, cursor + 1, Len(text)),
         cursor |-> i] : i \in 0..(cursor - 1)}
  \cup {[value |-> SubSeq(text, 1, cursor) \o SubSeq(text, i + 1, Len(text)),
         cursor |-> cursor] : i \in (cursor + 1)..Len(text)}

EditText ==
  /\ InEditor
  /\ \E edit \in TextAreaEdits :
       Len(edit.value) <= session.length /\ ChangeTo(edit.value, edit.cursor)
  /\ UNCHANGED textMode
-----------------------------------------------------------------------------
(* Runs: started in every mode, ended in any.                              *)

Execute(all) ==
  /\ ~inspector /\ ~running
  /\ (IF HasSelection /\ ~all THEN SelectedText ELSE text) # <<>>
  /\ running' = TRUE /\ ran' = TRUE
  /\ UNCHANGED <<editorVars, modeVars, result, resultVars, height>>

Rerun ==
  /\ ~inspector /\ ~running /\ ran
  /\ running' = TRUE
  /\ UNCHANGED <<editorVars, modeVars, ran, result, resultVars, height>>

ResetResultNavigation ==
  /\ activeOutput' = 1 /\ resultPage' = 0 /\ selectedRow' = 0
  /\ resultRowOffset' = 0 /\ selectedColumn' = 0
  /\ selectedRows' = {} /\ inspector' = FALSE

ShowResultsWhileTyping ==
  /\ running /\ running' = FALSE
  /\ pane' = "results"
  /\ UNCHANGED <<editorVars, textMode, dragging, ran, height>>
ShowResults ==
  /\ running /\ running' = FALSE
  /\ pane' = "results" /\ textMode' = FALSE
  /\ UNCHANGED <<editorVars, dragging, ran, height>>

FinishRun(outputs) ==
  /\ ShowResults
  /\ result' = outputs
  /\ ResetResultNavigation

\* A cancelled run keeps what it has, or, if that is nothing, what was shown.
FinishCancelledRun(partial) ==
  /\ ShowResults
  /\ IF partial # <<>>
     THEN result' = partial /\ ResetResultNavigation
     ELSE UNCHANGED <<result, resultVars>>

FinishFailedRun(partial) ==
  /\ ShowResults
  /\ result' = Append(partial, ErrorOutput)
  /\ ResetResultNavigation
-----------------------------------------------------------------------------
(* Results: the output shown, its pages, and the cell that is selected.    *)

HasOutput == activeOutput \in 1..Len(result)
Output == result[activeOutput]
ShowsRows == HasOutput /\ Output.isRows

PageStart(page, rows) == Smaller(rows, page * ResultPageSize)
PageEnd(page, rows) == Smaller(rows, PageStart(page, rows) + ResultPageSize)

\* ensureResultRowVisible: the least scrolling that shows a row of a page.
OffsetFor(row, page, rows, h) ==
  LET start == PageStart(page, rows)
      end == PageEnd(page, rows)
      from == Larger(start, resultRowOffset)
      up == Smaller(from, row)
      down == IF row >= up + h THEN row - h + 1 ELSE up
  IN  IF end <= start THEN start ELSE Smaller(Larger(start, end - h), down)

SelectRow(row, page) ==
  /\ selectedRow' = row
  /\ resultPage' = page
  /\ resultRowOffset' = OffsetFor(row, page, Output.rows, height)

\* Keys outside of the text mode and of the inspector.
Navigating ==
  /\ ~textMode /\ ~inspector
  /\ UNCHANGED <<editorVars, dragging, runVars, height>>

EnterEditor ==
  /\ Navigating
  /\ textMode' = TRUE /\ pane' = "editor"
  /\ UNCHANGED resultVars

MoveRow(delta) ==
  IF ShowsRows /\ Output.rows > 0
  THEN /\ SelectRow(Smaller(PageEnd(resultPage, Output.rows) - 1,
                            Larger(PageStart(resultPage, Output.rows), selectedRow + delta)),
                    resultPage)
       /\ UNCHANGED <<activeOutput, selectedColumn, selectedRows, inspector>>
  ELSE UNCHANGED resultVars

Up ==
  /\ Navigating /\ pane = "results"
  /\ MoveRow(-1)
  /\ UNCHANGED <<textMode, pane>>

Down ==
  /\ Navigating /\ result # <<>>
  /\ pane' = "results"
  /\ MoveRow(1)
  /\ UNCHANGED textMode

MoveColumn(delta) ==
  /\ ShowsRows /\ Output.columns > 0
  /\ selectedColumn' = Within(0, Output.columns - 1, selectedColumn + delta)
  /\ UNCHANGED <<activeOutput, resultPage, selectedRow, resultRowOffset,
                 selectedRows, inspector>>

LeftRight(delta) ==
  /\ Navigating /\ pane = "results"
  /\ MoveColumn(delta)
  /\ UNCHANGED <<textMode, pane>>

MovePage(delta) ==
  /\ Navigating /\ ShowsRows
  /\ LET pages == Larger(1, (Output.rows + ResultPageSize - 1) \div ResultPageSize)
         target == Smaller(pages - 1, Larger(0, resultPage + delta))
     IN  /\ target # resultPage
         /\ resultPage' = target
         /\ selectedRow' = target * ResultPageSize
         /\ resultRowOffset' = target * ResultPageSize
  /\ UNCHANGED <<activeOutput, selectedColumn, selectedRows, inspector, textMode, pane>>

MoveOutput(delta) ==
  /\ Navigating /\ result # <<>>
  /\ activeOutput' = ((activeOutput - 1 + delta + Len(result)) % Len(result)) + 1
  /\ resultPage' = 0 /\ selectedRow' = 0 /\ resultRowOffset' = 0
  /\ selectedColumn' = 0 /\ selectedRows' = {}
  /\ UNCHANGED <<inspector, textMode, pane>>

Home ==
  /\ Navigating
  /\ selectedRow' = 0 /\ resultPage' = 0 /\ resultRowOffset' = 0
  /\ UNCHANGED <<activeOutput, selectedColumn, selectedRows, inspector, textMode, pane>>

End ==
  /\ Navigating /\ ShowsRows /\ Output.rows > 0
  /\ SelectRow(Output.rows - 1, (Output.rows - 1) \div ResultPageSize)
  /\ UNCHANGED <<activeOutput, selectedColumn, selectedRows, inspector, textMode, pane>>

ToggleSelectedRow ==
  /\ Navigating /\ ShowsRows /\ Output.rows > 0
  /\ selectedRows' = IF selectedRow \in selectedRows
                     THEN selectedRows \ {selectedRow}
                     ELSE selectedRows \cup {selectedRow}
  /\ UNCHANGED <<cellVars, inspector, textMode, pane>>

OpenInspector ==
  /\ Navigating /\ pane = "results"
  /\ ShowsRows /\ selectedRow < Output.rows /\ selectedColumn < Output.columns
  /\ inspector' = TRUE
  /\ UNCHANGED <<cellVars, selectedRows, textMode, pane>>

CloseInspector ==
  /\ inspector
  /\ inspector' = FALSE
  /\ UNCHANGED <<editorVars, modeVars, runVars, cellVars, selectedRows, height>>

\* The window changes its size: the selected cell is brought back into it.
SetSize(h) ==
  /\ height' = h
  /\ IF ShowsRows /\ Output.rows > 0
     THEN /\ selectedRow' = Within(0, Output.rows - 1, selectedRow)
          /\ selectedColumn' = Within(0, Larger(0, Output.columns - 1), selectedColumn)
          /\ resultRowOffset' = OffsetFor(selectedRow', resultPage, Output.rows, h)
     ELSE selectedRow' = 0 /\ selectedColumn' = 0 /\ UNCHANGED resultRowOffset
  /\ UNCHANGED <<editorVars, modeVars, runVars, activeOutput, resultPage,
                 selectedRows, inspector>>
-----------------------------------------------------------------------------
(* The mouse: it acts in every mode, though not under the inspector, which *)
(* stops clicks and takes the wheel but lets a drag go on.                 *)

ClickEditor(position, shift) ==
  /\ ~inspector
  /\ IF shift
     THEN HeadAt(IF selection.active THEN selection.anchor ELSE cursor, position)
     ELSE selection' = [anchor |-> position, head |-> position, active |-> FALSE]
  /\ cursor' = position
  /\ dragging' = TRUE /\ textMode' = TRUE /\ pane' = "editor"
  /\ UNCHANGED <<text, undo, redo, runVars, resultVars, height>>

Drag(position) ==
  /\ dragging
  /\ HeadAt(selection.anchor, position)
  /\ cursor' = position
  /\ UNCHANGED <<text, undo, redo, modeVars, runVars, resultVars, height>>

Release ==
  /\ dragging
  /\ dragging' = FALSE
  /\ UNCHANGED <<editorVars, textMode, pane, runVars, resultVars, height>>

ClickResult(row, column) ==
  /\ ~inspector /\ ShowsRows
  /\ row >= Larger(PageStart(resultPage, Output.rows), resultRowOffset)
  /\ row < Smaller(PageEnd(resultPage, Output.rows),
                   Larger(PageStart(resultPage, Output.rows), resultRowOffset) + height)
  /\ pane' = "results" /\ textMode' = FALSE
  /\ SelectRow(row, resultPage)
  /\ column \in 0..(Output.columns - 1) \cup {selectedColumn}
  /\ selectedColumn' = column
  /\ UNCHANGED <<editorVars, dragging, runVars, activeOutput, selectedRows,
                 inspector, height>>

Wheel ==
  /\ ~inspector
  /\ \/ \E delta \in {-3, 3} : MoveRow(delta)
     \/ \E delta \in {-1, 1} : MoveColumn(delta)
  /\ UNCHANGED <<editorVars, modeVars, runVars, height>>
-----------------------------------------------------------------------------
Init ==
  /\ text = <<>> /\ cursor = 0
  /\ textMode = TRUE /\ pane = "editor"
  /\ selection = NoSelection /\ dragging = FALSE
  /\ undo = <<>> /\ redo = <<>>
  /\ running = FALSE /\ ran = FALSE /\ result = <<>>
  /\ activeOutput = 1 /\ resultPage = 0 /\ selectedRow = 0
  /\ resultRowOffset = 0 /\ selectedColumn = 0
  /\ selectedRows = {} /\ inspector = FALSE
  /\ session \in Sessions /\ height \in session.heights

Contents == UNION {[1..n -> session.characters] : n \in 1..2}

EditorNext ==
  \/ LeaveEditor \/ SelectAll \/ UndoEdit \/ RedoEdit \/ RemoveSelection \/ EditText
  \/ \E content \in Contents : Insert(content)
  \/ \E character \in session.characters : TypeOverSelection(character)
  \/ \E position \in 0..Len(text) :
       \/ SelectTo(position)
       \/ \E plain \in BOOLEAN : MoveCursor(position, plain)

RunNext ==
  \/ \E all \in BOOLEAN : Execute(all)
  \/ Rerun
  \/ \E outputs \in session.results :
       FinishRun(outputs) \/ FinishCancelledRun(outputs) \/ FinishFailedRun(outputs)

ResultNext ==
  \/ EnterEditor \/ Up \/ Down \/ Home \/ End
  \/ ToggleSelectedRow \/ OpenInspector \/ CloseInspector
  \/ \E delta \in {-1, 1} : LeftRight(delta) \/ MovePage(delta) \/ MoveOutput(delta)
  \/ \E h \in session.heights : SetSize(h)

MouseNext ==
  \/ \E position \in 0..Len(text) :
       Drag(position) \/ \E shift \in BOOLEAN : ClickEditor(position, shift)
  \/ Release \/ Wheel
  \/ ShowsRows /\ \E row \in 0..(Output.rows - 1), column \in 0..Output.columns :
       ClickResult(row, column)

Next == (EditorNext \/ RunNext \/ ResultNext \/ MouseNext) /\ UNCHANGED session

Spec == Init /\ [][Next]_vars
-----------------------------------------------------------------------------
(* Properties.                                                             *)

\* Types, and more: the selection and the cursor are positions of the text that is there,
\* so that no clamping in selectionBounds ever cuts a selection short.
TypeOK ==
  /\ text \in Texts /\ cursor \in 0..Len(text)
  /\ selection \in Selections
  /\ selection.anchor <= Len(text) /\ selection.head <= Len(text)
  /\ selection.active => selection.anchor # selection.head
  /\ undo \in Seq(Snapshots) /\ redo \in Seq(Snapshots)
  /\ \A stack \in {undo, redo} : \A i \in 1..Len(stack) :
       stack[i].cursor <= Len(stack[i].value)
  /\ textMode \in BOOLEAN /\ dragging \in BOOLEAN /\ pane \in {"editor", "results"}
  /\ running \in BOOLEAN /\ ran \in BOOLEAN /\ result \in AllOutputs
  /\ activeOutput \in Nat \ {0} /\ resultPage \in Nat /\ selectedRow \in Nat
  /\ resultRowOffset \in Nat /\ selectedColumn \in Nat
  /\ selectedRows \subseteq Nat /\ inspector \in BOOLEAN
  /\ session \in Sessions /\ height \in session.heights

\* Undo and redo walk along one line of versions of bounded length, although the
\* two stacks trade snapshots and only one of them is ever cut (maxUndoHistory).
History == INSTANCE EditHistory WITH
  Limit <- MaxUndoHistory,
  versions <- [i \in 1..(Len(undo) + 1 + Len(redo)) |->
                 IF i <= Len(undo) THEN undo[i].value
                 ELSE IF i = Len(undo) + 1 THEN text
                 ELSE redo[Len(undo) + 2 + Len(redo) - i].value],
  at <- Len(undo) + 1

HistoryKept == History!Spec

CellShown ==
  /\ selectedRows # {} => ShowsRows
  /\ ShowsRows =>
       /\ selectedRows \subseteq 0..(Output.rows - 1)
       /\ Output.rows > 0 =>
            /\ selectedRow \in PageStart(resultPage, Output.rows)..(PageEnd(resultPage, Output.rows) - 1)
            /\ selectedRow \in resultRowOffset..(resultRowOffset + height - 1)
       /\ selectedColumn < Larger(1, Output.columns)
  /\ inspector => ShowsRows /\ Output.rows > 0

OneTarget == textMode => pane = "editor" /\ ~inspector

\* What a key acts on is what the user sees.  A key goes to the editor, to the
\* window over a cell or to the results, and a run that ends decides between them
\* at once (finishRun); and the cell that keys and copies act on exists, on the
\* page and in the window shown, whatever was paged, resized, clicked or replaced
\* before, the marked rows being rows of the output shown (SetSize, moveOutput).
InputIsShown == CellShown /\ OneTarget
=============================================================================
