-------------------------- MODULE CachedRowSetImpl --------------------------
(***************************************************************************)
(* The in-memory row set of                                                *)
(*   RowSetFactory/.../rowset/CachedRowSetImpl.java  with its rows         *)
(*   internal/Row.java, internal/BaseRow.java, internal/InsertRow.java     *)
(* as operators on a record: every method of the class that changes state  *)
(* is an operator from the record before the call to the record after it,  *)
(* and a CanX predicate states when the method does not throw.             *)
(*                                                                         *)
(* Rows are numbered from 1 as the cursor numbers them.  A deleted row is  *)
(* kept in the list (LibreOffice Base needs its place) and marked in the   *)
(* bit set deletedRows; showDeleted tells whether navigation sees it.      *)
(***************************************************************************)
EXTENDS Integers, Sequences, FiniteSets, FiniteSetsExt

CONSTANTS
    Column,     \* the columns of the result set
    Value,      \* what a column can hold, besides SQL NULL
    NULL,       \* SQL NULL (a Java null in the arrays of a row)
    Required    \* columns that are NOT NULL and not auto-increment

ASSUME NullAssumption == NULL \notin Value
ASSUME RequiredAssumption == Required \subseteq Column

Datum == Value \cup {NULL}
Values == [Column -> Datum]
NoValues == [k \in Column |-> NULL]

----------------------------------------------------------------------------
(* One row: Row.java.  The five booleans of the class are the members of   *)
(* flags, the bit set colsChanged is the set changed.                      *)

Flag == {"removed", "deleted", "updated", "created", "inserted"}
Row == [orig : Values, curr : Values,
        changed : SUBSET Column, flags : SUBSET Flag]

NewRow(vals) == [orig |-> vals, curr |-> NoValues, changed |-> {}, flags |-> {}]

\* What a reader of the column sees: the edited value once it was set.
ColumnObject(row, col) ==
    IF col \in row.changed THEN row.curr[col] ELSE row.orig[col]

SetColumnObject(row, col, val) ==
    [row EXCEPT !.curr[col] = val, !.changed = @ \cup {col}]

\* (mutant: the test of colsChanged is dropped)
SetUpdatedAlways(row) == [row EXCEPT !.flags = @ \cup {"updated"}]

\* Only a row with a changed column is marked updated.
SetUpdated(row) ==
    [row EXCEPT !.flags = IF row.changed # {} THEN @ \cup {"updated"}
                                              ELSE @ \ {"updated"}]

\* (mutant: all the marks of the row are dropped with its edits)
ClearUpdatedMarks(row) ==
    [row EXCEPT !.curr = NoValues, !.changed = {}, !.flags = {}]

\* clearUpdated: drop the edits.
ClearUpdated(row) ==
    [row EXCEPT !.curr = NoValues, !.changed = {}, !.flags = @ \ {"updated"}]

\* clearChanged: edits become original values (generated keys of an insert).
ClearChanged(row) ==
    [row EXCEPT !.orig = [k \in Column |-> IF row.curr[k] # NULL THEN row.curr[k]
                                                                 ELSE @[k]],
                !.changed = {}, !.flags = @ \ {"updated"}]

\* (mutant: the edits are dropped instead of kept)
MoveCurrentToOrigDropped(row) == ClearUpdated(row)

\* moveCurrentToOrig: a column edited to NULL loses its mark and keeps orig.
MoveCurrentToOrig(row) ==
    LET moved == {k \in row.changed : row.curr[k] # NULL}
    IN  [row EXCEPT !.orig = [k \in Column |-> IF k \in moved THEN row.curr[k] ELSE @[k]],
                    !.curr = [k \in Column |-> IF k \in moved THEN NULL ELSE @[k]],
                    !.changed = {}, !.flags = @ \ {"updated"}]

\* (mutant: clearCreated is missing)
MakeRowOriginalStillCreated(row) ==
    LET born  == IF "created" \in row.flags
                 THEN [ClearChanged(row) EXCEPT !.flags = @ \cup {"inserted"}] ELSE row
        moved == IF "updated" \in born.flags THEN MoveCurrentToOrig(born) ELSE born
    IN  IF "removed" \in moved.flags
        THEN [moved EXCEPT !.flags = (@ \cup {"deleted"}) \ {"removed"}]
        ELSE moved

\* makeRowOriginal, then the removed mark that setOriginal turns to deleted.
MakeRowOriginal(row) ==
    LET born  == IF "created" \in row.flags
                 THEN [ClearChanged(row) EXCEPT !.flags = (@ \cup {"inserted"}) \ {"created"}]
                 ELSE row
        moved == IF "updated" \in born.flags THEN MoveCurrentToOrig(born) ELSE born
    IN  IF "removed" \in moved.flags
        THEN [moved EXCEPT !.flags = (@ \cup {"deleted"}) \ {"removed"}]
        ELSE moved

----------------------------------------------------------------------------
(* The row set record.  currentRow is where moveToInsertRow left the       *)
(* cursor; insertRow is the buffer of InsertRow.java, whose values outlive *)
(* initInsertRow: only the marks in given are cleared.                     *)

InsertBuffer == [vals : Values, given : SUBSET Column]

Cache == [rvh : Seq(Row), cursorPos : Int, absolutePos : Int,
          deletedRows : SUBSET Nat, showDeleted : BOOLEAN,
          onInsertRow : BOOLEAN, currentRow : Int, insertRow : InsertBuffer]

\* populate: one row per row of the query, the cursor before the first.
Populate(rows, show) ==
    [rvh |-> [i \in 1..Len(rows) |-> NewRow(rows[i])],
     cursorPos |-> 0, absolutePos |-> 0, deletedRows |-> {}, showDeleted |-> show,
     onInsertRow |-> FALSE, currentRow |-> 0,
     insertRow |-> [vals |-> NoValues, given |-> {}]]

NumRows(c) == Len(c.rvh)

\* size(): numRows, or numRows - deletedRows.cardinality().
Size(c) == IF c.showDeleted THEN NumRows(c)
                            ELSE NumRows(c) - Cardinality(c.deletedRows)

IsEmpty(c) == Size(c) = 0

\* The rows a cursor may rest on.
Shown(c) == IF c.showDeleted THEN 1..NumRows(c) ELSE 1..NumRows(c) \ c.deletedRows

OnRow(c) == ~c.onInsertRow /\ c.cursorPos \in 1..NumRows(c)

\* checkCursor does not throw.
CheckCursor(c) == c.onInsertRow \/ c.cursorPos \in 1..NumRows(c)

\* absolutePos(): the deleted rows up to the cursor are not counted.
AbsolutePos(deleted, pos) == pos - Cardinality({d \in deleted : 1 <= d /\ d <= pos})

\* (mutant: a deleted row met only after stepping over another is not counted)
CursorPosOnePass(c, row) ==
    row + Cardinality({d \in c.deletedRows : d <= row})

\* cursorPos(row): starting at row, one further for every deleted row met on
\* the way, until the rows stepped over are exactly the deleted ones so far.
CursorPos(c, row) ==
    Min({i \in row..(row + Cardinality(c.deletedRows)) :
            AbsolutePos(c.deletedRows, i) = row})

BeforeFirst(c) == [c EXCEPT !.cursorPos = 0, !.absolutePos = 0]
\* (mutant: the row number after the last counts the deleted rows)
InternalAfterLastOfAll(c) ==
    [c EXCEPT !.cursorPos = NumRows(c) + 1, !.absolutePos = NumRows(c) + 1]

InternalAfterLast(c) == [c EXCEPT !.cursorPos = NumRows(c) + 1, !.absolutePos = Size(c) + 1]
AfterLast(c) == IF IsEmpty(c) THEN c ELSE InternalAfterLast(c)

\* next() and previous() check the cursor; first(), last() call the internal form.
CanStep(c) == c.cursorPos \in 0..(NumRows(c) + 1)

InternalNext(c) ==
    LET ahead == {i \in Shown(c) : i > c.cursorPos}
    IN  IF c.cursorPos > NumRows(c) THEN c
        ELSE IF ahead = {} THEN InternalAfterLast(c)
        ELSE [c EXCEPT !.cursorPos = Min(ahead), !.absolutePos = @ + 1]

InternalPrevious(c) ==
    LET behind == {i \in Shown(c) : i < c.cursorPos}
    IN  IF c.cursorPos <= 0 THEN c
        ELSE IF behind = {} THEN BeforeFirst(c)
        ELSE [c EXCEPT !.cursorPos = Max(behind), !.absolutePos = @ - 1]

First(c) == IF IsEmpty(c) THEN c ELSE InternalNext(BeforeFirst(c))
Last(c)  == IF IsEmpty(c) THEN c ELSE InternalPrevious(InternalAfterLast(c))

\* absolute(rows); a negative number counts from the end.
Absolute(c, rows) ==
    LET index == IF rows < 0 THEN Size(c) + rows + 1 ELSE rows
    IN  IF rows = 0 \/ index <= 0 THEN BeforeFirst(c)
        ELSE IF index > Size(c) THEN InternalAfterLast(c)
        ELSE [c EXCEPT !.cursorPos = IF c.showDeleted THEN index ELSE CursorPos(c, index),
                       !.absolutePos = index]

\* Whether absolute(rows) returns true.
Moved(c, rows) ==
    LET index == IF rows < 0 THEN Size(c) + rows + 1 ELSE rows
    IN  rows # 0 /\ index \in 1..Size(c)

CanRelative(c) == ~IsEmpty(c) /\ c.cursorPos # 0 /\ c.cursorPos # NumRows(c) + 1

\* (mutant: the test for the front end is dropped)
RelativeOffFront(c, rows) ==
    LET index == c.cursorPos + rows
    IN  IF index > NumRows(c) THEN InternalAfterLast(c)
        ELSE [c EXCEPT !.cursorPos = index, !.absolutePos = @ + rows]

RelativeWithDeleted(c, rows) ==
    LET index == c.cursorPos + rows
    IN  IF index > NumRows(c) THEN InternalAfterLast(c)
        ELSE IF index <= 0 THEN BeforeFirst(c)
        ELSE [c EXCEPT !.cursorPos = index, !.absolutePos = @ + rows]

\* |rows| steps over the rows that are left, off the end when they run out.
Between(c, i) == {j \in Shown(c) : \/ c.cursorPos < j /\ j <= i
                                   \/ i <= j /\ j < c.cursorPos}

RelativeWithoutDeleted(c, rows) ==
    LET hit == {i \in Shown(c) :
                   /\ c.cursorPos > 0
                   /\ IF rows < 0 THEN i < c.cursorPos /\ Cardinality(Between(c, i)) = -rows
                                  ELSE i > c.cursorPos /\ Cardinality(Between(c, i)) = rows}
    IN  IF hit # {} THEN [c EXCEPT !.cursorPos = Min(hit), !.absolutePos = @ + rows]
        ELSE IF rows > 0 /\ c.cursorPos > 0 THEN InternalAfterLast(c)
        ELSE BeforeFirst(c)

Relative(c, rows) ==
    IF rows = 0 THEN c
    ELSE IF c.showDeleted THEN RelativeWithDeleted(c, rows)
                          ELSE RelativeWithoutDeleted(c, rows)

\* getRow(): 0 when not on a row.
GetRow(c) ==
    IF IsEmpty(c) \/ c.cursorPos \notin 1..NumRows(c) THEN 0
    ELSE IF c.showDeleted THEN c.cursorPos ELSE c.absolutePos

\* isLast(): with rows deleted, compares the cursor with the number of rows left.
IsLast(c) == c.cursorPos = Size(c)

SetShowDeleted(c, value) ==
    IF c.showDeleted = value THEN c
    ELSE [c EXCEPT !.showDeleted = value,
                   !.absolutePos = IF value THEN c.cursorPos
                                   ELSE AbsolutePos(c.deletedRows, c.cursorPos)]

----------------------------------------------------------------------------
(* Edits. *)

\* updateNull, updateInt, ... updateObject: the buffer on the insert row,
\* else the row under the cursor.
UpdateColumn(c, col, val) ==
    IF c.onInsertRow
    THEN [c EXCEPT !.insertRow.vals[col] = val, !.insertRow.given = @ \cup {col}]
    ELSE [c EXCEPT !.rvh[c.cursorPos] = SetColumnObject(@, col, val)]

\* (mutant: the cursor is parked before it is saved)
MoveToInsertRowUnsaved(c) ==
    [c EXCEPT !.onInsertRow = TRUE, !.currentRow = -1, !.cursorPos = -1,
              !.insertRow.given = {}]

MoveToInsertRow(c) ==
    [c EXCEPT !.onInsertRow = TRUE, !.currentRow = c.cursorPos, !.cursorPos = -1,
              !.insertRow.given = {}]

MoveToCurrentRow(c) ==
    IF c.onInsertRow THEN [c EXCEPT !.onInsertRow = FALSE, !.cursorPos = c.currentRow] ELSE c

\* isCompleteRow: the required columns were given a value.
CanInsertRow(c) == c.onInsertRow /\ Required \subseteq c.insertRow.given

\* (mutant: the row is not marked as created)
InsertRowUnmarked(c) == [c EXCEPT !.rvh = Append(@, NewRow(c.insertRow.vals))]

\* insertRow: all the values of the buffer, given now or not; at the end, where
\* the comment in the method says, and not behind the current row as its javadoc
\* says.
InsertRow(c) ==
    [c EXCEPT !.rvh = Append(@, [NewRow(c.insertRow.vals) EXCEPT !.flags = {"created"}])]

UpdateRow(c) == [c EXCEPT !.rvh[c.cursorPos] = SetUpdated(@)]

DeleteRow(c) ==
    [c EXCEPT !.rvh[c.cursorPos].flags = @ \cup {"removed"},
              !.deletedRows = @ \cup {c.cursorPos}]

\* refreshRow: drop the edits of the row.
RefreshRow(c) == [c EXCEPT !.rvh[c.cursorPos] = ClearUpdated(@)]

\* cancelRowUpdates: drops the edits of a row that updateRow has marked.
CancelRowUpdates(c) ==
    IF "updated" \in c.rvh[c.cursorPos].flags THEN RefreshRow(c) ELSE c

\* (mutant: the bit stays set)
UndoDeleteMarkOnly(c) ==
    [c EXCEPT !.rvh[c.cursorPos].flags = @ \ {"removed"}]

CanUndoDelete(c) == OnRow(c) /\ c.showDeleted /\ "removed" \in c.rvh[c.cursorPos].flags
UndoDelete(c) ==
    [c EXCEPT !.rvh[c.cursorPos].flags = @ \ {"removed"},
              !.deletedRows = @ \ {c.cursorPos}]

\* undoInsert: wherever the cursor is, the last row goes.
CanUndoInsert(c) == OnRow(c) /\ c.rvh[c.cursorPos].flags \cap {"inserted", "created"} # {}
UndoInsert(c) == [c EXCEPT !.rvh = SubSeq(@, 1, NumRows(c) - 1)]

CanUndoUpdate(c) == OnRow(c) /\ "updated" \in c.rvh[c.cursorPos].flags
UndoUpdate(c) == RefreshRow(c)

\* setOriginal: what acceptChanges does once everything was written.
SetOriginal(c) == [c EXCEPT !.rvh = [i \in 1..NumRows(c) |-> MakeRowOriginal(c.rvh[i])]]

----------------------------------------------------------------------------
(* The rows the writer has to send, in the order it tests their marks.     *)

Pending(c) == {i \in 1..NumRows(c) : c.rvh[i].flags \cap {"removed", "created", "updated"} # {}}

Kind(row) == IF "removed" \in row.flags THEN "delete"
             ELSE IF "created" \in row.flags THEN "insert" ELSE "update"
=============================================================================
