------------------------- MODULE CachedRowSetProofs -------------------------
(***************************************************************************)
(* What holds of a CachedRowSetImpl for every set of columns and values,   *)
(* every number of rows and every order of calls.                          *)
(*                                                                         *)
(* Shape(c) is the inductive part all the theorems rest on: the record has *)
(* its type, the bits of deletedRows are finitely many, and the cursor,    *)
(* and on the insert row the place to go back to, stay near the list.      *)
(***************************************************************************)
EXTENDS CachedRowSet, RowSetBaseProofs

Shape(c) ==
    /\ c \in Cache
    /\ NumRows(c) <= MaxRows
    /\ c.deletedRows \subseteq 1..MaxRows
    /\ c.cursorPos \in -1..(NumRows(c) + 1)
    /\ c.onInsertRow => c.currentRow \in -1..(NumRows(c) + 1)

\* CursorInRange, of any record.
InRange(c) ==
    IF c.onInsertRow THEN c.currentRow \in 0..(NumRows(c) + 1)
                     ELSE c.cursorPos \in 0..(NumRows(c) + 1)

\* d is c with the cursor elsewhere.
Moves(c, d) ==
    /\ Shape(d)
    /\ d.rvh = c.rvh /\ d.deletedRows = c.deletedRows
    /\ d.onInsertRow = c.onInsertRow /\ d.currentRow = c.currentRow
    /\ InRange(c) => InRange(d)

----------------------------------------------------------------------------
(* How many rows there are to see. *)

\* A row set that has the shape is formed: size() is a number, at most numRows.
LEMMA DeletedFinite ==
    ASSUME NEW c, Shape(c)
    PROVE  /\ Formed(c)
           /\ IsFiniteSet(c.deletedRows)
           /\ Cardinality(c.deletedRows) \in Nat
           /\ NumRows(c) \in Nat
           /\ Size(c) \in Int
           /\ Size(c) <= NumRows(c)
<1>1. IsFiniteSet(c.deletedRows)
  <2>1. IsFiniteSet(1..MaxRows)
      BY BoundsAssumption, FS_Interval
  <2> QED BY <2>1, FS_Subset DEF Shape
<1>2. Formed(c)
    BY <1>1 DEF Formed, Shape
<1> QED BY <1>2, FormedFacts

----------------------------------------------------------------------------
(* Every call keeps the shape: first the ones that only move the cursor.   *)

\* A cursor put anywhere in the list or next to it keeps the shape.
LEMMA PlacedMoves ==
    ASSUME NEW c, Shape(c), NEW p \in 0..(NumRows(c) + 1), NEW a \in Int
    PROVE  Moves(c, [c EXCEPT !.cursorPos = p, !.absolutePos = a])
<1> DEFINE d == [c EXCEPT !.cursorPos = p, !.absolutePos = a]
<1>1. c \in Cache /\ p \in Int /\ p \in -1..(NumRows(c) + 1)
    BY DeletedFinite DEF Shape
<1>2. d \in Cache
    BY <1>1 DEF Cache
<1>3. /\ d.rvh = c.rvh /\ d.deletedRows = c.deletedRows /\ d.cursorPos = p
      /\ d.onInsertRow = c.onInsertRow /\ d.currentRow = c.currentRow
    BY <1>1 DEF Cache
<1> HIDE DEF d
<1>4. NumRows(d) = NumRows(c)
    BY <1>3 DEF NumRows
<1>5. Shape(d)
    BY <1>1, <1>2, <1>3, <1>4 DEF Shape
<1> QED BY <1>3, <1>4, <1>5 DEF d, Moves, InRange

\* So does a cursor that stays,
LEMMA StaysMoves ==
    ASSUME NEW c, Shape(c)
    PROVE  Moves(c, c)
BY DEF Moves

\* and one move after another.
LEMMA MovesMoves ==
    ASSUME NEW c, NEW d, NEW e, Moves(c, d), Moves(d, e)
    PROVE  Moves(c, e)
BY DEF Moves

\* beforeFirst and afterLast, in both forms.
LEMMA EndsMoves ==
    ASSUME NEW c, Shape(c)
    PROVE  Moves(c, BeforeFirst(c)) /\ Moves(c, InternalAfterLast(c)) /\ Moves(c, AfterLast(c))
<1>1. /\ 0 \in 0..(NumRows(c) + 1) /\ NumRows(c) + 1 \in 0..(NumRows(c) + 1)
      /\ 0 \in Int /\ Size(c) + 1 \in Int
    BY DeletedFinite
<1>2. Moves(c, BeforeFirst(c))
    BY <1>1, PlacedMoves DEF BeforeFirst
<1>3. Moves(c, InternalAfterLast(c))
    BY <1>1, PlacedMoves DEF InternalAfterLast
<1> QED BY <1>2, <1>3, StaysMoves DEF AfterLast

\* next stops on a row ahead or after the last one.
LEMMA InternalNextMoves ==
    ASSUME NEW c, Shape(c)
    PROVE  Moves(c, InternalNext(c))
<1> DEFINE ahead == {i \in Shown(c) : i > c.cursorPos}
<1>1. NumRows(c) \in Nat /\ c.absolutePos \in Int /\ ahead \subseteq 1..NumRows(c)
    BY DeletedFinite DEF Shape, Cache, Shown
<1>2. CASE ahead # {} /\ ~(c.cursorPos > NumRows(c))
  <2>1. ahead \in SUBSET Nat
      BY <1>1
  <2>2. Min(ahead) \in ahead
      BY <1>2, <2>1, MinOfNat
  <2>3. Min(ahead) \in 0..(NumRows(c) + 1)
      BY <1>1, <2>2
  <2> HIDE DEF ahead
  <2>4. c.absolutePos + 1 \in Int
      BY <1>1
  <2>5. Moves(c, [c EXCEPT !.cursorPos = Min(ahead), !.absolutePos = c.absolutePos + 1])
      BY <2>3, <2>4, PlacedMoves
  <2> QED BY <1>2, <2>5 DEF InternalNext, ahead
<1>3. CASE ahead = {} \/ c.cursorPos > NumRows(c)
    BY <1>3, EndsMoves, StaysMoves DEF InternalNext
<1> QED BY <1>2, <1>3

\* previous stops on a row behind or before the first one.
LEMMA InternalPreviousMoves ==
    ASSUME NEW c, Shape(c)
    PROVE  Moves(c, InternalPrevious(c))
<1> DEFINE behind == {i \in Shown(c) : i < c.cursorPos}
<1>1. NumRows(c) \in Nat /\ c.absolutePos \in Int /\ behind \subseteq 1..NumRows(c)
    BY DeletedFinite DEF Shape, Cache, Shown
<1>2. CASE behind # {} /\ ~(c.cursorPos <= 0)
  <2>1. behind \in SUBSET (0..NumRows(c))
      BY <1>1
  <2>2. Max(behind) \in behind
      BY <1>1, <1>2, <2>1, MaxOfBounded
  <2>3. Max(behind) \in 0..(NumRows(c) + 1)
    <3>1. Max(behind) \in 1..NumRows(c)
        BY <1>1, <2>2
    <3> QED BY <1>1, <3>1
  <2> HIDE DEF behind
  <2>4. c.absolutePos - 1 \in Int
      BY <1>1
  <2>5. Moves(c, [c EXCEPT !.cursorPos = Max(behind), !.absolutePos = c.absolutePos - 1])
      BY <2>3, <2>4, PlacedMoves
  <2> QED BY <1>2, <2>5 DEF InternalPrevious, behind
<1>3. CASE behind = {} \/ c.cursorPos <= 0
    BY <1>3, EndsMoves, StaysMoves DEF InternalPrevious
<1> QED BY <1>2, <1>3

\* first and last are next and previous from an end.
LEMMA FirstLastMoves ==
    ASSUME NEW c, Shape(c)
    PROVE  Moves(c, First(c)) /\ Moves(c, Last(c))
<1>1. Moves(c, InternalNext(BeforeFirst(c)))
  <2>1. Moves(BeforeFirst(c), InternalNext(BeforeFirst(c)))
      BY EndsMoves, InternalNextMoves DEF Moves
  <2> QED BY <2>1, EndsMoves, MovesMoves
<1>2. Moves(c, InternalPrevious(InternalAfterLast(c)))
  <2>1. Moves(InternalAfterLast(c), InternalPrevious(InternalAfterLast(c)))
      BY EndsMoves, InternalPreviousMoves DEF Moves
  <2> QED BY <2>1, EndsMoves, MovesMoves
<1> QED BY <1>1, <1>2, StaysMoves DEF First, Last

\* absolute(rows), whatever the number.
LEMMA AbsoluteMoves ==
    ASSUME NEW c, Shape(c), NEW rows \in Int
    PROVE  Moves(c, Absolute(c, rows))
<1> DEFINE index == IF rows < 0 THEN Size(c) + rows + 1 ELSE rows
           place == IF c.showDeleted THEN index ELSE CursorPos(c, index)
<1>1. index \in Int /\ Size(c) \in Int /\ NumRows(c) \in Nat /\ Size(c) <= NumRows(c)
    BY DeletedFinite
<1>2. CASE rows = 0 \/ index <= 0
    BY <1>2, EndsMoves, StaysMoves DEF Absolute
<1>3. CASE ~(rows = 0 \/ index <= 0) /\ index > Size(c)
    BY <1>3, EndsMoves, StaysMoves DEF Absolute
<1>4. CASE ~(rows = 0 \/ index <= 0) /\ ~(index > Size(c))
  <2>1. index \in 1..Size(c)
      BY <1>1, <1>4
  <2> HIDE DEF index
  <2>2. place \in 1..NumRows(c)
      BY <1>1, <2>1, DeletedFinite, CursorPosIsNthLeft
  <2>3. place \in 0..(NumRows(c) + 1)
      BY <1>1, <2>2
  <2> HIDE DEF place
  <2>4. Moves(c, [c EXCEPT !.cursorPos = place, !.absolutePos = index])
      BY <1>1, <2>3, PlacedMoves
  <2> QED BY <1>4, <2>4 DEF Absolute, place, index
<1> QED BY <1>2, <1>3, <1>4

\* relative(rows), deleted rows shown or not.
LEMMA RelativeMoves ==
    ASSUME NEW c, Shape(c), NEW rows \in Int
    PROVE  Moves(c, Relative(c, rows))
<1>1. NumRows(c) \in Nat /\ c.cursorPos \in Int /\ c.absolutePos + rows \in Int
    BY DeletedFinite DEF Shape, Cache
<1>2. Moves(c, RelativeWithDeleted(c, rows))
  <2> DEFINE index == c.cursorPos + rows
  <2>1. CASE index > NumRows(c) \/ index <= 0
      BY <2>1, EndsMoves, StaysMoves DEF RelativeWithDeleted
  <2>2. CASE ~(index > NumRows(c) \/ index <= 0)
    <3>1. index \in 0..(NumRows(c) + 1)
        BY <1>1, <2>2
    <3>2. Moves(c, [c EXCEPT !.cursorPos = index, !.absolutePos = c.absolutePos + rows])
        BY <1>1, <3>1, PlacedMoves
    <3> QED BY <2>2, <3>2 DEF RelativeWithDeleted
  <2> QED BY <2>1, <2>2
<1>3. Moves(c, RelativeWithoutDeleted(c, rows))
  <2> DEFINE hit == {i \in Shown(c) :
                   /\ c.cursorPos > 0
                   /\ IF rows < 0 THEN i < c.cursorPos /\ Cardinality(Between(c, i)) = -rows
                                  ELSE i > c.cursorPos /\ Cardinality(Between(c, i)) = rows}
  <2>1. hit \subseteq 1..NumRows(c)
      BY DEF Shown
  <2>2. CASE hit # {}
    <3>1. hit \in SUBSET Nat
        BY <1>1, <2>1
    <3> HIDE DEF hit
    <3>2. Min(hit) \in hit
        BY <2>2, <3>1, MinOfNat
    <3>3. Min(hit) \in 0..(NumRows(c) + 1)
      <4>1. Min(hit) \in 1..NumRows(c)
          BY <2>1, <3>2
      <4> QED BY <1>1, <4>1
    <3>4. Moves(c, [c EXCEPT !.cursorPos = Min(hit), !.absolutePos = c.absolutePos + rows])
        BY <1>1, <3>3, PlacedMoves
    <3> QED BY <2>2, <3>4 DEF RelativeWithoutDeleted, hit
  <2>3. CASE hit = {}
      BY <2>3, EndsMoves, StaysMoves DEF RelativeWithoutDeleted
  <2> QED BY <2>2, <2>3
<1> QED BY <1>2, <1>3, StaysMoves DEF Relative

\* setShowDeleted changes the number of the row, not the cursor.
LEMMA SetShowDeletedMoves ==
    ASSUME NEW c, Shape(c), NEW value \in BOOLEAN
    PROVE  Moves(c, SetShowDeleted(c, value))
<1> DEFINE a == IF value THEN c.cursorPos ELSE AbsolutePos(c.deletedRows, c.cursorPos)
           d == [c EXCEPT !.showDeleted = value, !.absolutePos = a]
<1>1. c \in Cache /\ c.cursorPos \in Int
    BY DEF Shape, Cache
<1>2. a \in Int
  <2> DEFINE D == {e \in c.deletedRows : 1 <= e /\ e <= c.cursorPos}
  <2>1. Cardinality(D) \in Nat
      BY DeletedFinite, FS_Subset, FS_CardinalityType
  <2> QED BY <1>1, <2>1 DEF AbsolutePos
<1> HIDE DEF a
<1>3. d \in Cache
    BY <1>1, <1>2 DEF Cache
<1>4. /\ d.rvh = c.rvh /\ d.deletedRows = c.deletedRows /\ d.cursorPos = c.cursorPos
      /\ d.onInsertRow = c.onInsertRow /\ d.currentRow = c.currentRow
    BY <1>1 DEF Cache
<1> HIDE DEF d
<1>5. NumRows(d) = NumRows(c)
    BY <1>4 DEF NumRows
<1>6. Moves(c, d)
    BY <1>3, <1>4, <1>5 DEF Moves, Shape, InRange
<1> QED BY <1>6, StaysMoves DEF SetShowDeleted, d, a

----------------------------------------------------------------------------
(* The edits keep the shape. *)

\* The row under the cursor is a row.
LEMMA CurrentRowType ==
    ASSUME NEW c, Shape(c), OnRow(c)
    PROVE  c.rvh[c.cursorPos] \in Row
<1>1. c.rvh \in Seq(Row) /\ c.cursorPos \in 1..Len(c.rvh)
    BY DEF Shape, Cache, OnRow, NumRows
<1> QED BY <1>1

\* Replacing the row under the cursor keeps the shape, whatever bits are deleted.
LEMMA EditedShape ==
    ASSUME NEW c, Shape(c), OnRow(c), NEW row \in Row,
           NEW deleted \in SUBSET (1..MaxRows)
    PROVE  /\ Shape([c EXCEPT !.rvh[c.cursorPos] = row])
           /\ Shape([c EXCEPT !.rvh[c.cursorPos] = row, !.deletedRows = deleted])
<1> DEFINE rows == [c.rvh EXCEPT ![c.cursorPos] = row]
<1>1. c \in Cache /\ c.rvh \in Seq(Row) /\ c.cursorPos \in 1..Len(c.rvh)
    BY DEF Shape, Cache, OnRow, NumRows
<1>2. rows \in Seq(Row) /\ Len(rows) = Len(c.rvh)
    BY <1>1
<1>3. deleted \in SUBSET Nat
    BY BoundsAssumption
<1> HIDE DEF rows
<1>4. ASSUME NEW d \in {[c EXCEPT !.rvh = rows], [c EXCEPT !.rvh = rows, !.deletedRows = deleted]}
      PROVE  Shape(d)
  <2>1. d \in Cache
      BY <1>1, <1>2, <1>3 DEF Cache
  <2>2. /\ d.rvh = rows /\ d.deletedRows \in {c.deletedRows, deleted}
        /\ d.cursorPos = c.cursorPos
        /\ d.onInsertRow = c.onInsertRow /\ d.currentRow = c.currentRow
      BY <1>1 DEF Cache
  <2> QED BY <1>2, <2>1, <2>2 DEF Shape, NumRows
<1> QED BY <1>4 DEF rows

\* The edits and the undos of the row under the cursor.
LEMMA EditsShape ==
    ASSUME NEW c, Shape(c), OnRow(c)
    PROVE  /\ Shape(UpdateRow(c)) /\ Shape(RefreshRow(c)) /\ Shape(CancelRowUpdates(c))
           /\ Shape(DeleteRow(c)) /\ Shape(UndoDelete(c)) /\ Shape(UndoUpdate(c))
<1> DEFINE row == c.rvh[c.cursorPos]
<1>1. row \in Row
    BY CurrentRowType
<1>2. Shape(UpdateRow(c))
  <2>1. SetUpdated(row) \in Row
      BY <1>1, RowTypes
  <2> QED BY <2>1, EditedShape DEF UpdateRow
<1>3. Shape(RefreshRow(c))
  <2>1. ClearUpdated(row) \in Row
      BY <1>1, RowTypes
  <2> QED BY <2>1, EditedShape DEF RefreshRow
<1>4. Shape(CancelRowUpdates(c)) /\ Shape(UndoUpdate(c))
    BY <1>3 DEF CancelRowUpdates, UndoUpdate
<1>5. c.deletedRows \in SUBSET (1..MaxRows) /\ c.cursorPos \in 1..MaxRows
    BY BoundsAssumption, DeletedFinite DEF Shape, OnRow
<1>6. Shape(DeleteRow(c))
  <2> DEFINE marked == [row EXCEPT !.flags = row.flags \cup {"removed"}]
             deleted == c.deletedRows \cup {c.cursorPos}
  <2>1. marked \in Row
      BY <1>1, RowTypes DEF Row, Flag
  <2>2. deleted \in SUBSET (1..MaxRows)
      BY <1>5
  <2>3. DeleteRow(c) = [c EXCEPT !.rvh[c.cursorPos] = marked, !.deletedRows = deleted]
      BY DEF DeleteRow, Shape, Cache
  <2> HIDE DEF marked, deleted
  <2>4. Shape([c EXCEPT !.rvh[c.cursorPos] = marked, !.deletedRows = deleted])
      BY <2>1, <2>2, EditedShape
  <2> QED BY <2>3, <2>4
<1>7. Shape(UndoDelete(c))
  <2> DEFINE marked == [row EXCEPT !.flags = row.flags \ {"removed"}]
             deleted == c.deletedRows \ {c.cursorPos}
  <2>1. marked \in Row
      BY <1>1, RowTypes DEF Row, Flag
  <2>2. deleted \in SUBSET (1..MaxRows)
      BY <1>5
  <2>3. UndoDelete(c) = [c EXCEPT !.rvh[c.cursorPos] = marked, !.deletedRows = deleted]
      BY DEF UndoDelete, Shape, Cache
  <2> HIDE DEF marked, deleted
  <2>4. Shape([c EXCEPT !.rvh[c.cursorPos] = marked, !.deletedRows = deleted])
      BY <2>1, <2>2, EditedShape
  <2> QED BY <2>3, <2>4
<1> QED BY <1>2, <1>3, <1>4, <1>6, <1>7

\* updateXXX, on the insert row or on a row.
LEMMA UpdateColumnShape ==
    ASSUME NEW c, Shape(c), CheckCursor(c), NEW col \in Column, NEW val \in Datum
    PROVE  Shape(UpdateColumn(c, col, val))
<1>1. CASE ~c.onInsertRow
  <2> DEFINE row == SetColumnObject(c.rvh[c.cursorPos], col, val)
  <2>1. OnRow(c)
      BY <1>1 DEF CheckCursor, OnRow
  <2>2. row \in Row
      BY <2>1, CurrentRowType, RowTypes
  <2>3. UpdateColumn(c, col, val) = [c EXCEPT !.rvh[c.cursorPos] = row]
      BY <1>1 DEF UpdateColumn, Shape, Cache
  <2> HIDE DEF row
  <2>4. Shape([c EXCEPT !.rvh[c.cursorPos] = row])
      BY <2>1, <2>2, EditedShape
  <2> QED BY <2>3, <2>4
<1>2. CASE c.onInsertRow
  <2> DEFINE buffer == [c.insertRow EXCEPT !.vals = [c.insertRow.vals EXCEPT ![col] = val],
                                           !.given = c.insertRow.given \cup {col}]
  <2>1. buffer \in InsertBuffer
      BY DEF Shape, Cache, InsertBuffer, Values
  <2>2. UpdateColumn(c, col, val) = [c EXCEPT !.insertRow = buffer]
      BY <1>2 DEF UpdateColumn, Shape, Cache, InsertBuffer
  <2> HIDE DEF buffer
  <2>3. [c EXCEPT !.insertRow = buffer] \in Cache
      BY <2>1 DEF Shape, Cache
  <2>4. Shape([c EXCEPT !.insertRow = buffer])
      BY <2>3 DEF Shape, NumRows, Cache
  <2> QED BY <2>2, <2>4
<1> QED BY <1>1, <1>2

\* moveToInsertRow parks the cursor at -1, moveToCurrentRow brings it back.
LEMMA InsertRowMovesShape ==
    ASSUME NEW c, Shape(c)
    PROVE  Shape(MoveToInsertRow(c)) /\ Shape(MoveToCurrentRow(c))
<1>1. Shape(MoveToInsertRow(c))
  <2> DEFINE buffer == [c.insertRow EXCEPT !.given = {}]
             d == [c EXCEPT !.onInsertRow = TRUE, !.currentRow = c.cursorPos,
                            !.cursorPos = -1, !.insertRow = buffer]
  <2>1. buffer \in InsertBuffer /\ c.cursorPos \in Int /\ -1 \in Int
      /\ c \in Cache /\ NumRows(c) \in Nat
      BY DeletedFinite DEF Shape, Cache, InsertBuffer
  <2>2. MoveToInsertRow(c) = d
      BY DEF MoveToInsertRow, Shape, Cache
  <2> HIDE DEF buffer
  <2>3. d \in Cache
      BY <2>1 DEF Cache
  <2>4. /\ d.rvh = c.rvh /\ d.deletedRows = c.deletedRows /\ d.cursorPos = -1
        /\ d.onInsertRow = TRUE /\ d.currentRow = c.cursorPos
      BY <2>1 DEF Cache
  <2> HIDE DEF d
  <2>5. NumRows(d) = NumRows(c)
      BY <2>4 DEF NumRows
  <2>6. -1 \in -1..(NumRows(c) + 1)
      BY <2>1
  <2>7. Shape(d)
      BY <2>3, <2>4, <2>5, <2>6 DEF Shape
  <2> QED BY <2>2, <2>7
<1>2. Shape(MoveToCurrentRow(c))
  <2> DEFINE d == [c EXCEPT !.onInsertRow = FALSE, !.cursorPos = c.currentRow]
  <2>1. CASE c.onInsertRow
    <3>1. d \in Cache
        BY DEF Shape, Cache
    <3>2. /\ d.rvh = c.rvh /\ d.deletedRows = c.deletedRows /\ d.cursorPos = c.currentRow
          /\ d.onInsertRow = FALSE
        BY DEF Shape, Cache
    <3> HIDE DEF d
    <3>3. Shape(d)
        BY <2>1, <3>1, <3>2 DEF Shape, NumRows
    <3> QED BY <2>1, <3>3 DEF MoveToCurrentRow, d
  <2> QED BY <2>1 DEF MoveToCurrentRow
<1> QED BY <1>1, <1>2

\* insertRow makes the list one row longer.
LEMMA InsertRowShape ==
    ASSUME NEW c, Shape(c), CanInsertRow(c), NumRows(c) < MaxRows
    PROVE  Shape(InsertRow(c))
<1> DEFINE row == [NewRow(c.insertRow.vals) EXCEPT !.flags = {"created"}]
           rows == Append(c.rvh, row)
           d == [c EXCEPT !.rvh = rows]
<1>1. row \in Row
    BY NewRowType DEF Shape, Cache, InsertBuffer, Flag
<1>2. c.rvh \in Seq(Row) /\ c \in Cache
    BY DEF Shape, Cache
<1> HIDE DEF row
<1>3. rows \in Seq(Row) /\ Len(rows) = Len(c.rvh) + 1 /\ Len(c.rvh) \in Nat
    BY <1>1, <1>2
<1> HIDE DEF rows
<1>4. d \in Cache
    BY <1>2, <1>3 DEF Cache
<1>5. /\ d.rvh = rows /\ d.deletedRows = c.deletedRows /\ d.cursorPos = c.cursorPos
      /\ d.onInsertRow = c.onInsertRow /\ d.currentRow = c.currentRow
    BY <1>2 DEF Cache
<1>6. InsertRow(c) = d
    BY DEF InsertRow, rows, row
<1> HIDE DEF d
<1>7. Shape(d)
    BY <1>3, <1>4, <1>5, BoundsAssumption DEF Shape, NumRows
<1> QED BY <1>6, <1>7

\* undoInsert makes it one row shorter: the cursor was on a row, so it is at
\* most one place off the end afterwards.
LEMMA UndoInsertShape ==
    ASSUME NEW c, Shape(c), OnRow(c)
    PROVE  Shape(UndoInsert(c))
<1> DEFINE rows == SubSeq(c.rvh, 1, NumRows(c) - 1)
           d == [c EXCEPT !.rvh = rows]
<1>1. /\ c.rvh \in Seq(Row) /\ c \in Cache
      /\ Len(c.rvh) \in Nat /\ NumRows(c) = Len(c.rvh) /\ c.cursorPos \in 1..Len(c.rvh)
    BY DEF Shape, Cache, OnRow, NumRows
<1>2. rows \in Seq(Row) /\ Len(rows) = NumRows(c) - 1
    BY <1>1
<1> HIDE DEF rows
<1>3. d \in Cache
    BY <1>1, <1>2 DEF Cache
<1>4. /\ d.rvh = rows /\ d.deletedRows = c.deletedRows /\ d.cursorPos = c.cursorPos
      /\ d.onInsertRow = c.onInsertRow
    BY <1>1 DEF Cache
<1>5. UndoInsert(c) = d
    BY DEF UndoInsert, rows
<1> HIDE DEF d
<1>6. NumRows(d) = NumRows(c) - 1 /\ ~d.onInsertRow
    BY <1>2, <1>4 DEF NumRows, OnRow
<1>7. Shape(d)
    BY <1>1, <1>3, <1>4, <1>6, BoundsAssumption DEF Shape
<1> QED BY <1>5, <1>7

\* setOriginal goes over every row.
LEMMA SetOriginalShape ==
    ASSUME NEW c, Shape(c)
    PROVE  Shape(SetOriginal(c))
<1> DEFINE rows == [i \in 1..NumRows(c) |-> MakeRowOriginal(c.rvh[i])]
           d == [c EXCEPT !.rvh = rows]
<1>1. c.rvh \in Seq(Row) /\ c \in Cache /\ Len(c.rvh) \in Nat /\ NumRows(c) = Len(c.rvh)
    BY DEF Shape, Cache, NumRows
<1>2. rows \in Seq(Row) /\ Len(rows) = NumRows(c)
  <2>1. \A i \in 1..NumRows(c) : MakeRowOriginal(c.rvh[i]) \in Row
      BY <1>1, MakeRowOriginalType
  <2> QED BY <1>1, <2>1
<1> HIDE DEF rows
<1>3. d \in Cache
    BY <1>1, <1>2 DEF Cache
<1>4. /\ d.rvh = rows /\ d.deletedRows = c.deletedRows /\ d.cursorPos = c.cursorPos
      /\ d.onInsertRow = c.onInsertRow /\ d.currentRow = c.currentRow
    BY <1>1 DEF Cache
<1>5. SetOriginal(c) = d
    BY DEF SetOriginal, rows
<1> HIDE DEF d
<1>6. NumRows(d) = NumRows(c)
    BY <1>2, <1>4 DEF NumRows
<1>7. Shape(d)
    BY <1>3, <1>4, <1>6 DEF Shape
<1> QED BY <1>5, <1>7

----------------------------------------------------------------------------
(* Type correctness. *)

\* populate establishes the shape.
LEMMA InitShape == Init => Shape(crs)
<1> SUFFICES ASSUME NEW n \in 0..MaxInit, NEW rows \in [1..n -> Values],
                    NEW show \in BOOLEAN, crs = Populate(rows, show)
             PROVE  Shape(crs)
    BY DEF Init
<1> DEFINE list == [i \in 1..Len(rows) |-> NewRow(rows[i])]
<1>1. n \in Nat /\ n <= MaxRows /\ Len(rows) = n /\ rows \in Seq(Values)
    BY BoundsAssumption
<1>2. list \in Seq(Row) /\ Len(list) = n
  <2>1. \A i \in 1..n : NewRow(rows[i]) \in Row
      BY NewRowType
  <2> QED BY <1>1, <2>1
<1>3. [vals |-> NoValues, given |-> {}] \in InsertBuffer
    BY DEF InsertBuffer, NoValues, Values, Datum
<1>4. crs = [rvh |-> list, cursorPos |-> 0, absolutePos |-> 0, deletedRows |-> {},
             showDeleted |-> show, onInsertRow |-> FALSE, currentRow |-> 0,
             insertRow |-> [vals |-> NoValues, given |-> {}]]
    BY DEF Populate
<1> HIDE DEF list
<1>5. crs \in Cache
    BY <1>2, <1>3, <1>4 DEF Cache
<1>6. NumRows(crs) = n /\ crs.deletedRows = {} /\ crs.cursorPos = 0 /\ ~crs.onInsertRow
    BY <1>2, <1>4 DEF NumRows
<1> QED BY <1>1, <1>5, <1>6 DEF Shape

\* Every navigation call moves the cursor only.
LEMMA NavigateMoves ==
    ASSUME Shape(crs), Navigate \/ \E value \in BOOLEAN : Reshow(value)
    PROVE  Moves(crs, crs')
<1>1. CASE NextRow \/ PreviousRow
    BY <1>1, InternalNextMoves, InternalPreviousMoves DEF NextRow, PreviousRow
<1>2. CASE GoFirst \/ GoLast
    BY <1>2, FirstLastMoves DEF GoFirst, GoLast
<1>3. CASE GoBeforeFirst \/ GoAfterLast
    BY <1>3, EndsMoves DEF GoBeforeFirst, GoAfterLast
<1>4. ASSUME NEW n \in -MaxRows..(MaxRows + 1), GoAbsolute(n) \/ GoRelative(n)
      PROVE  Moves(crs, crs')
  <2>1. n \in Int
      BY BoundsAssumption
  <2> QED BY <1>4, <2>1, AbsoluteMoves, RelativeMoves DEF GoAbsolute, GoRelative
<1>5. ASSUME NEW value \in BOOLEAN, Reshow(value)
      PROVE  Moves(crs, crs')
    BY <1>5, SetShowDeletedMoves DEF Reshow
<1> QED BY <1>1, <1>2, <1>3, <1>4, <1>5 DEF Navigate

\* Every call keeps the shape.
LEMMA NextShape == Shape(crs) /\ [Next]_crs => Shape(crs)'
<1> SUFFICES ASSUME Shape(crs), [Next]_crs PROVE Shape(crs')
    BY DEF Shape
<1>1. CASE Navigate \/ \E value \in BOOLEAN : Reshow(value)
    BY <1>1, NavigateMoves DEF Moves
<1>2. CASE Edit
  <2>1. CASE EnterInsertRow \/ LeaveInsertRow
      BY <2>1, InsertRowMovesShape DEF EnterInsertRow, LeaveInsertRow
  <2>2. CASE Insert
      BY <2>2, InsertRowShape DEF Insert
  <2>3. CASE Update \/ Delete \/ Refresh \/ Cancel
      BY <2>3, EditsShape DEF Update, Delete, Refresh, Cancel
  <2>4. CASE UnDelete \/ UnUpdate
      BY <2>4, EditsShape DEF UnDelete, UnUpdate, CanUndoDelete, CanUndoUpdate
  <2>5. CASE UnInsert
      BY <2>5, UndoInsertShape DEF UnInsert, CanUndoInsert
  <2>6. CASE Accept
      BY <2>6, SetOriginalShape DEF Accept
  <2>7. ASSUME NEW col \in Column, NEW val \in Datum, EditColumn(col, val)
        PROVE  Shape(crs')
      BY <2>7, UpdateColumnShape DEF EditColumn
  <2> QED BY <1>2, <2>1, <2>2, <2>3, <2>4, <2>5, <2>6, <2>7 DEF Edit
<1>3. CASE UNCHANGED crs
    BY <1>3 DEF Shape
<1> QED BY <1>1, <1>2, <1>3 DEF Next

(* The inductive invariant: the row set is well typed, the cursor is in    *)
(* the list, next to it or at -1, and the bits of deletedRows are rows the *)
(* list has had, for any sequence of calls.                                *)
THEOREM ShapeInvariant == Spec => []Shape(crs)
BY InitShape, NextShape, PTL DEF Spec

(* The cursor never leaves the list by more than one place, -1 being the   *)
(* mark of the insert row, for any client, careful or not.                 *)
THEOREM TypeCorrect == Spec => []TypeOK
<1>1. Shape(crs) => TypeOK
    BY DEF Shape, TypeOK
<1> QED BY <1>1, ShapeInvariant, PTL

----------------------------------------------------------------------------
(* What an edit does to the marks of the rows. *)

Born(row) == row.flags \cap {"created", "inserted"} # {}
Gone(row) == row.flags \cap {"removed", "deleted"} # {}
Sound(row) == "updated" \in row.flags => row.changed # {}

\* A row is not deleted twice, nor before its insert is accepted.
Once(row) ==
    ~({"removed", "deleted"} \subseteq row.flags) /\ ("created" \in row.flags => ~Gone(row))

\* The row after has the insert and delete marks of the row before.
SameMarks(before, after) ==
    /\ (Born(after) <=> Born(before)) /\ (Gone(after) <=> Gone(before))
    /\ Sound(before) => Sound(after)
    /\ Once(before) => Once(after)

\* The edits of a column leave the insert and delete marks alone.
LEMMA EditMarks ==
    ASSUME NEW row \in Row
    PROVE  /\ SameMarks(row, SetUpdated(row))
           /\ SameMarks(row, ClearUpdated(row))
           /\ \A col \in Column, val \in Datum : SameMarks(row, SetColumnObject(row, col, val))
<1>1. SameMarks(row, SetUpdated(row))
    BY DEF SameMarks, Once, Born, Gone, Sound, SetUpdated, Row
<1>2. SameMarks(row, ClearUpdated(row))
    BY DEF SameMarks, Once, Born, Gone, Sound, ClearUpdated, Row
<1>3. ASSUME NEW col \in Column, NEW val \in Datum
      PROVE  SameMarks(row, SetColumnObject(row, col, val))
    BY DEF SameMarks, Once, Born, Gone, Sound, SetColumnObject, Row
<1> QED BY <1>1, <1>2, <1>3

\* makeRowOriginal keeps a row inserted, or deleted, what it was before.
LEMMA OriginalMarks ==
    ASSUME NEW row \in Row
    PROVE  SameMarks(row, MakeRowOriginal(row))
<1> DEFINE born == IF "created" \in row.flags
                   THEN [ClearChanged(row) EXCEPT !.flags = (@ \cup {"inserted"}) \ {"created"}]
                   ELSE row
           moved == IF "updated" \in born.flags THEN MoveCurrentToOrig(born) ELSE born
           last == IF "removed" \in moved.flags
                   THEN [moved EXCEPT !.flags = (@ \cup {"deleted"}) \ {"removed"}]
                   ELSE moved
<1>1. born \in Row /\ SameMarks(row, born)
  <2>1. ClearChanged(row) \in Row /\ ClearChanged(row).flags = row.flags \ {"updated"}
      BY RowTypes DEF ClearChanged, Row
  <2> HIDE DEF ClearChanged
  <2>2. (ClearChanged(row).flags \cup {"inserted"}) \ {"created"} \in SUBSET Flag
      BY <2>1 DEF Row, Flag
  <2>3. born \in Row
      BY <2>1, <2>2, RowTypes
  <2>4. born.flags = IF "created" \in row.flags
                     THEN (row.flags \cup {"inserted"}) \ {"created", "updated"} ELSE row.flags
      BY <2>1 DEF Row
  <2>5. "created" \notin row.flags => born = row
      OBVIOUS
  <2> HIDE DEF born
  <2> QED BY <2>3, <2>4, <2>5 DEF SameMarks, Once, Born, Gone, Sound
<1> HIDE DEF born
<1>2. moved \in Row /\ SameMarks(row, moved)
  <2>1. MoveCurrentToOrig(born) \in Row
        /\ MoveCurrentToOrig(born).flags = born.flags \ {"updated"}
      BY <1>1, RowTypes DEF MoveCurrentToOrig, Row
  <2>2. SameMarks(born, MoveCurrentToOrig(born))
      BY <2>1 DEF SameMarks, Once, Born, Gone, Sound
  <2> QED BY <1>1, <2>1, <2>2 DEF SameMarks
<1> HIDE DEF moved
<1>3. SameMarks(moved, last)
  <2>1. last.flags = (IF "removed" \in moved.flags
                      THEN (moved.flags \cup {"deleted"}) \ {"removed"} ELSE moved.flags)
        /\ last.changed = moved.changed
      BY <1>2 DEF Row
  <2> HIDE DEF last
  <2> QED BY <2>1 DEF SameMarks, Once, Born, Gone, Sound
<1>4. MakeRowOriginal(row) = last
    BY DEF MakeRowOriginal, last, moved, born
<1> QED BY <1>2, <1>3, <1>4 DEF SameMarks

\* The ways an edit changes the rows and the bits of deletedRows.
MarksKept(c, d) ==
    /\ NumRows(d) = NumRows(c) /\ d.deletedRows = c.deletedRows
    /\ \A i \in 1..NumRows(c) : SameMarks(c.rvh[i], d.rvh[i])

RowAdded(c, d) ==
    /\ d.deletedRows = c.deletedRows /\ c.onInsertRow
    /\ \E row \in Row : d.rvh = Append(c.rvh, row) /\ row.flags = {"created"}

LastDropped(c, d) ==
    /\ d.deletedRows = c.deletedRows /\ OnRow(c)
    /\ NumRows(d) = NumRows(c) - 1
    /\ \A i \in 1..NumRows(d) : d.rvh[i] = c.rvh[i]

MarkSet(c, d, fs, deleted) ==
    /\ OnRow(c) /\ d.deletedRows = deleted
    /\ d.rvh = [c.rvh EXCEPT ![c.cursorPos] = [c.rvh[c.cursorPos] EXCEPT !.flags = fs]]

\* Replacing the row under the cursor by one with the same marks.
LEMMA RowSetKeepsMarks ==
    ASSUME NEW c, Shape(c), OnRow(c), NEW row, SameMarks(c.rvh[c.cursorPos], row)
    PROVE  MarksKept(c, [c EXCEPT !.rvh[c.cursorPos] = row])
<1> DEFINE d == [c EXCEPT !.rvh[c.cursorPos] = row]
<1>1. c \in Cache /\ c.rvh \in Seq(Row) /\ c.cursorPos \in 1..Len(c.rvh)
    BY DEF Shape, Cache, OnRow, NumRows
<1>2. d.rvh = [c.rvh EXCEPT ![c.cursorPos] = row] /\ d.deletedRows = c.deletedRows
    BY <1>1 DEF Cache
<1> HIDE DEF d
<1>3. Len(d.rvh) = Len(c.rvh)
    BY <1>1, <1>2
<1>4. \A r \in Row : SameMarks(r, r)
    BY DEF SameMarks
<1>5. \A i \in 1..Len(c.rvh) : SameMarks(c.rvh[i], d.rvh[i])
    BY <1>1, <1>2, <1>4
<1> QED BY <1>2, <1>3, <1>5 DEF MarksKept, NumRows, d

\* Nothing about the rows changed.
LEMMA StayKeepsMarks ==
    ASSUME NEW c, NEW d, d.rvh = c.rvh, d.deletedRows = c.deletedRows
    PROVE  MarksKept(c, d)
BY DEF MarksKept, NumRows, SameMarks

\* Every edit keeps the marks, or adds a row, drops the last one, or sets the
\* delete mark of the row under the cursor.
LEMMA EditCases ==
    ASSUME Shape(crs), Edit
    PROVE  \/ MarksKept(crs, crs')
           \/ Insert /\ RowAdded(crs, crs')
           \/ UnInsert /\ LastDropped(crs, crs')
           \/ Delete /\ MarkSet(crs, crs', Here.flags \cup {"removed"},
                               crs.deletedRows \cup {crs.cursorPos})
           \/ UnDelete /\ MarkSet(crs, crs', Here.flags \ {"removed"},
                                 crs.deletedRows \ {crs.cursorPos})
<1>0. crs \in Cache
    BY DEF Shape
<1>1. CASE EnterInsertRow \/ LeaveInsertRow
  <2>1. crs'.rvh = crs.rvh /\ crs'.deletedRows = crs.deletedRows
      BY <1>0, <1>1 DEF EnterInsertRow, LeaveInsertRow, MoveToInsertRow, MoveToCurrentRow, Cache
  <2> QED BY <2>1, StayKeepsMarks
<1>2. CASE Insert
  <2> DEFINE row == [NewRow(crs.insertRow.vals) EXCEPT !.flags = {"created"}]
  <2>1. row \in Row /\ row.flags = {"created"}
      BY <1>0, NewRowType DEF Cache, InsertBuffer, Flag, NewRow
  <2>2. crs'.rvh = Append(crs.rvh, row) /\ crs'.deletedRows = crs.deletedRows /\ crs.onInsertRow
      BY <1>0, <1>2 DEF Insert, InsertRow, CanInsertRow, Cache
  <2> HIDE DEF row
  <2> QED BY <1>2, <2>1, <2>2 DEF RowAdded
<1>3. CASE Update \/ Refresh \/ Cancel \/ UnUpdate
  <2>1. OnRow(crs)
      BY <1>3 DEF Update, Refresh, Cancel, UnUpdate, CanUndoUpdate
  <2>2. Here \in Row
      BY <2>1, CurrentRowType DEF Here
  <2>3. MarksKept(crs, UpdateRow(crs))
      BY <2>1, <2>2, EditMarks, RowSetKeepsMarks DEF UpdateRow, Here
  <2>4. MarksKept(crs, RefreshRow(crs))
      BY <2>1, <2>2, EditMarks, RowSetKeepsMarks DEF RefreshRow, Here
  <2>5. MarksKept(crs, CancelRowUpdates(crs)) /\ MarksKept(crs, UndoUpdate(crs))
      BY <2>4, StayKeepsMarks DEF CancelRowUpdates, UndoUpdate
  <2> QED BY <1>3, <2>3, <2>4, <2>5 DEF Update, Refresh, Cancel, UnUpdate
<1>4. CASE Delete
  <2>1. MarkSet(crs, crs', Here.flags \cup {"removed"}, crs.deletedRows \cup {crs.cursorPos})
      BY <1>0, <1>4 DEF Delete, DeleteRow, MarkSet, Here, Cache
  <2> QED BY <1>4, <2>1
<1>5. CASE UnDelete
  <2>1. MarkSet(crs, crs', Here.flags \ {"removed"}, crs.deletedRows \ {crs.cursorPos})
      BY <1>0, <1>5 DEF UnDelete, UndoDelete, CanUndoDelete, MarkSet, Here, Cache
  <2> QED BY <1>5, <2>1
<1>6. CASE UnInsert
  <2>1. /\ crs.rvh \in Seq(Row) /\ crs.cursorPos \in 1..Len(crs.rvh) /\ OnRow(crs)
        /\ crs'.rvh = SubSeq(crs.rvh, 1, Len(crs.rvh) - 1)
        /\ crs'.deletedRows = crs.deletedRows
      BY <1>0, <1>6 DEF UnInsert, UndoInsert, CanUndoInsert, OnRow, NumRows, Cache
  <2>2. /\ Len(crs'.rvh) = Len(crs.rvh) - 1
        /\ \A i \in 1..(Len(crs.rvh) - 1) : crs'.rvh[i] = crs.rvh[i]
      BY <2>1
  <2> QED BY <1>6, <2>1, <2>2 DEF LastDropped, NumRows
<1>7. CASE Accept
  <2>1. /\ crs.rvh \in Seq(Row) /\ Len(crs.rvh) \in Nat
        /\ crs'.rvh = [i \in 1..Len(crs.rvh) |-> MakeRowOriginal(crs.rvh[i])]
        /\ crs'.deletedRows = crs.deletedRows
      BY <1>0, <1>7 DEF Accept, SetOriginal, NumRows, Cache
  <2>2. Len(crs'.rvh) = Len(crs.rvh)
      BY <2>1
  <2>3. \A i \in 1..Len(crs.rvh) : SameMarks(crs.rvh[i], crs'.rvh[i])
      BY <2>1, OriginalMarks
  <2> QED BY <2>1, <2>2, <2>3 DEF MarksKept, NumRows
<1>8. ASSUME NEW col \in Column, NEW val \in Datum, EditColumn(col, val)
      PROVE  MarksKept(crs, crs')
  <2>1. CASE crs.onInsertRow
    <3>1. crs'.rvh = crs.rvh /\ crs'.deletedRows = crs.deletedRows
        BY <1>0, <1>8, <2>1 DEF EditColumn, UpdateColumn, Cache
    <3> QED BY <3>1, StayKeepsMarks
  <2>2. CASE ~crs.onInsertRow
    <3>1. OnRow(crs)
        BY <1>8, <2>2 DEF EditColumn, CheckCursor, OnRow
    <3>2. SameMarks(Here, SetColumnObject(Here, col, val))
        BY <3>1, CurrentRowType, EditMarks DEF Here
    <3>3. crs' = [crs EXCEPT !.rvh[crs.cursorPos] = SetColumnObject(Here, col, val)]
        BY <1>8, <2>2 DEF EditColumn, UpdateColumn, Here
    <3> QED BY <3>1, <3>2, <3>3, RowSetKeepsMarks DEF Here
  <2> QED BY <2>1, <2>2
<1> QED BY <1>1, <1>2, <1>3, <1>4, <1>5, <1>6, <1>7, <1>8 DEF Edit

----------------------------------------------------------------------------
(* The invariants about the marks, for any client. *)

\* The rows of a row set that has the shape.
LEMMA RowsTyped ==
    ASSUME NEW c, Shape(c)
    PROVE  /\ c.rvh \in Seq(Row) /\ NumRows(c) = Len(c.rvh) /\ NumRows(c) \in Nat
           /\ \A i \in 1..NumRows(c) : c.rvh[i] \in Row
<1>1. c.rvh \in Seq(Row)
    BY DEF Shape, Cache
<1> QED BY <1>1 DEF NumRows

\* The marks of every row after a step, from those of the row before.
LEMMA MarkSetRows ==
    ASSUME NEW c, NEW d, NEW fs \in SUBSET Flag, NEW deleted, Shape(c), MarkSet(c, d, fs, deleted)
    PROVE  /\ NumRows(d) = NumRows(c) /\ d.deletedRows = deleted
           /\ c.cursorPos \in 1..NumRows(c)
           /\ d.rvh[c.cursorPos].flags = fs
           /\ d.rvh[c.cursorPos].changed = c.rvh[c.cursorPos].changed
           /\ \A i \in 1..NumRows(c) : i # c.cursorPos => d.rvh[i] = c.rvh[i]
<1>1. c.rvh \in Seq(Row) /\ c.cursorPos \in 1..Len(c.rvh) /\ c.rvh[c.cursorPos] \in Row
    BY RowsTyped DEF MarkSet, OnRow, NumRows
<1>2. /\ d.rvh[c.cursorPos] = [c.rvh[c.cursorPos] EXCEPT !.flags = fs]
      /\ \A i \in 1..Len(c.rvh) : i # c.cursorPos => d.rvh[i] = c.rvh[i]
      /\ Len(d.rvh) = Len(c.rvh)
    BY <1>1 DEF MarkSet
<1> QED BY <1>1, <1>2 DEF MarkSet, NumRows, Row

\* The rows after insertRow.
LEMMA RowAddedRows ==
    ASSUME NEW c, NEW d, Shape(c), RowAdded(c, d)
    PROVE  /\ NumRows(d) = NumRows(c) + 1
           /\ \A i \in 1..NumRows(c) : d.rvh[i] = c.rvh[i]
           /\ d.rvh[NumRows(c) + 1].flags = {"created"}
BY RowsTyped DEF RowAdded, NumRows

AllSound(c) == \A i \in 1..NumRows(c) : Sound(c.rvh[i])
BornAreTail(c) == \A i, j \in 1..NumRows(c) : i < j /\ Born(c.rvh[i]) => Born(c.rvh[j])

\* Every call keeps updated rows with an edit and inserted rows at the end.
LEMMA MarksStep ==
    ASSUME Shape(crs), [Next]_crs
    PROVE  /\ AllSound(crs) => AllSound(crs')
           /\ BornAreTail(crs) => BornAreTail(crs')
<1>0. /\ NumRows(crs) \in Nat
      /\ \A i \in 1..NumRows(crs) : crs.rvh[i] \in Row
    BY RowsTyped
<1>1. CASE MarksKept(crs, crs')
    BY <1>1 DEF MarksKept, SameMarks, AllSound, BornAreTail
<1>2. CASE RowAdded(crs, crs')
  <2>1. /\ NumRows(crs') = NumRows(crs) + 1
        /\ \A i \in 1..NumRows(crs) : crs'.rvh[i] = crs.rvh[i]
        /\ crs'.rvh[NumRows(crs) + 1].flags = {"created"}
      BY <1>2, RowAddedRows
  <2>2. Born(crs'.rvh[NumRows(crs) + 1]) /\ Sound(crs'.rvh[NumRows(crs) + 1])
      BY <2>1 DEF Born, Sound
  <2> QED BY <1>0, <2>1, <2>2 DEF AllSound, BornAreTail
<1>3. CASE LastDropped(crs, crs')
    BY <1>0, <1>3 DEF LastDropped, AllSound, BornAreTail
<1>4. ASSUME NEW fs \in {Here.flags \cup {"removed"}, Here.flags \ {"removed"}}, NEW deleted,
             MarkSet(crs, crs', fs, deleted)
      PROVE  (AllSound(crs) => AllSound(crs')) /\ (BornAreTail(crs) => BornAreTail(crs'))
  <2>1. OnRow(crs) /\ Here \in Row
      BY <1>4, CurrentRowType DEF MarkSet, Here
  <2>2. fs \in SUBSET Flag
      BY <2>1 DEF Row, Flag
  <2>3. /\ NumRows(crs') = NumRows(crs)
        /\ crs'.rvh[crs.cursorPos].flags = fs
        /\ crs'.rvh[crs.cursorPos].changed = crs.rvh[crs.cursorPos].changed
        /\ \A i \in 1..NumRows(crs) : i # crs.cursorPos => crs'.rvh[i] = crs.rvh[i]
    <3>1. Shape(crs) /\ MarkSet(crs, crs', fs, deleted) /\ fs \in SUBSET Flag
        BY <1>4, <2>2
    <3> HIDE DEF Here
    <3> QED BY <3>1, MarkSetRows
  <2>4. \A i \in 1..NumRows(crs) :
            /\ Sound(crs.rvh[i]) => Sound(crs'.rvh[i])
            /\ Born(crs.rvh[i]) <=> Born(crs'.rvh[i])
      BY <2>3 DEF Sound, Born, Here
  <2> QED BY <2>3, <2>4 DEF AllSound, BornAreTail
<1>5. CASE Edit
    BY <1>1, <1>2, <1>3, <1>4, <1>5, EditCases
<1>6. CASE Navigate \/ \E value \in BOOLEAN : Reshow(value)
    BY <1>1, <1>6, NavigateMoves, StayKeepsMarks DEF Moves
<1>7. CASE UNCHANGED crs
    BY <1>1, <1>7, StayKeepsMarks
<1> QED BY <1>5, <1>6, <1>7 DEF Next

\* No row of the query has a mark.
LEMMA InitMarks ==
    ASSUME Init
    PROVE  /\ \A i \in 1..NumRows(crs) : crs.rvh[i].flags = {}
           /\ crs.deletedRows = {} /\ crs.cursorPos = 0 /\ ~crs.onInsertRow
<1> SUFFICES ASSUME NEW n \in 0..MaxInit, NEW rows \in [1..n -> Values],
                    NEW show \in BOOLEAN, crs = Populate(rows, show)
             PROVE  /\ \A i \in 1..NumRows(crs) : crs.rvh[i].flags = {}
                    /\ crs.deletedRows = {} /\ crs.cursorPos = 0 /\ ~crs.onInsertRow
    BY DEF Init
<1>1. n \in Nat /\ Len(rows) = n
    BY BoundsAssumption
<1>2. crs.rvh = [i \in 1..n |-> NewRow(rows[i])]
    BY <1>1 DEF Populate
<1>3. NumRows(crs) = n
    BY <1>1, <1>2 DEF NumRows
<1>4. \A i \in 1..n : crs.rvh[i].flags = {}
    BY <1>2 DEF NewRow
<1> QED BY <1>3, <1>4 DEF Populate

(* The writer never prepares an UPDATE for a row without an edited column. *)
THEOREM UpdatedRowsHaveEditsInvariant == Spec => []UpdatedRowsHaveEdits
<1>1. AllSound(crs) <=> UpdatedRowsHaveEdits
    BY DEF AllSound, Sound, UpdatedRowsHaveEdits
<1>2. Init => Shape(crs) /\ AllSound(crs)
    BY InitShape, InitMarks DEF AllSound, Sound
<1>3. Shape(crs) /\ AllSound(crs) /\ [Next]_crs => (Shape(crs) /\ AllSound(crs))'
    BY NextShape, MarksStep DEF AllSound, NumRows
<1> QED BY <1>1, <1>2, <1>3, PTL DEF Spec

(* Rows inserted since the query stay behind the rows of the query, so     *)
(* that undoInsert, which drops the last row, never drops one of these,    *)
(* and not behind the current row, as the javadoc of insertRow says.       *)
THEOREM InsertedRowsAreTailInvariant == Spec => []InsertedRowsAreTail
<1>1. BornAreTail(crs) <=> InsertedRowsAreTail
    BY DEF BornAreTail, Born, InsertedRowsAreTail
<1>2. Init => Shape(crs) /\ BornAreTail(crs)
    BY InitShape, InitMarks DEF BornAreTail, Born
<1>3. Shape(crs) /\ BornAreTail(crs) /\ [Next]_crs => (Shape(crs) /\ BornAreTail(crs))'
    BY NextShape, MarksStep DEF BornAreTail, NumRows
<1> QED BY <1>1, <1>2, <1>3, PTL DEF Spec

----------------------------------------------------------------------------
(* The invariants that need a careful client. *)

\* No edit of a careful client takes the cursor off the list.
LEMMA EditStaysInRange ==
    ASSUME Careful, Shape(crs), InRange(crs), Edit
    PROVE  InRange(crs')
<1>0. crs \in Cache /\ NumRows(crs) \in Nat
    BY RowsTyped DEF Shape
<1>1. CASE EnterInsertRow
  <2>1. /\ ~crs.onInsertRow /\ crs'.onInsertRow
        /\ crs'.currentRow = crs.cursorPos /\ crs'.rvh = crs.rvh
      BY <1>0, <1>1 DEF EnterInsertRow, MoveToInsertRow, Cache
  <2> QED BY <2>1 DEF InRange, NumRows
<1>2. CASE LeaveInsertRow
  <2>1. CASE crs.onInsertRow
    <3>1. ~crs'.onInsertRow /\ crs'.cursorPos = crs.currentRow /\ crs'.rvh = crs.rvh
        BY <1>0, <1>2, <2>1 DEF LeaveInsertRow, MoveToCurrentRow, Cache
    <3> QED BY <2>1, <3>1 DEF InRange, NumRows
  <2> QED BY <1>2, <2>1 DEF LeaveInsertRow, MoveToCurrentRow
<1>3. ASSUME crs'.cursorPos = crs.cursorPos, crs'.onInsertRow = crs.onInsertRow,
             crs'.currentRow = crs.currentRow, NumRows(crs') \in Nat,
             NumRows(crs') >= NumRows(crs)
      PROVE  InRange(crs')
    BY <1>0, <1>3 DEF InRange
<1>4. CASE Insert
  <2>1. /\ crs'.cursorPos = crs.cursorPos /\ crs'.onInsertRow = crs.onInsertRow
        /\ crs'.currentRow = crs.currentRow
      BY <1>0, <1>4 DEF Insert, InsertRow, Cache
  <2>2. NumRows(crs') = NumRows(crs) + 1
    <3>1. crs'.rvh = Append(crs.rvh, [NewRow(crs.insertRow.vals) EXCEPT !.flags = {"created"}])
        BY <1>0, <1>4 DEF Insert, InsertRow, Cache
    <3> QED BY <3>1, RowsTyped DEF NumRows
  <2> QED BY <1>0, <1>3, <2>1, <2>2
<1>5. CASE UnInsert
  <2>1. /\ OnRow(crs) /\ crs'.cursorPos = crs.cursorPos /\ crs'.onInsertRow = crs.onInsertRow
        /\ crs'.rvh = SubSeq(crs.rvh, 1, NumRows(crs) - 1)
      BY <1>0, <1>5 DEF UnInsert, UndoInsert, CanUndoInsert, Cache
  <2>2. NumRows(crs') = NumRows(crs) - 1
      BY <1>0, <2>1, RowsTyped DEF NumRows, OnRow
  <2> QED BY <1>0, <2>1, <2>2 DEF InRange, OnRow
<1>6. ASSUME Update \/ Delete \/ Refresh \/ Cancel \/ UnDelete \/ UnUpdate \/ Accept
             \/ \E col \in Column, val \in Datum : EditColumn(col, val)
      PROVE  InRange(crs')
  <2>1. /\ crs'.cursorPos = crs.cursorPos /\ crs'.onInsertRow = crs.onInsertRow
        /\ crs'.currentRow = crs.currentRow
      BY <1>0, <1>6 DEF Update, Delete, Refresh, Cancel, UnDelete, UnUpdate, Accept, EditColumn,
            UpdateRow, DeleteRow, RefreshRow, CancelRowUpdates, UndoDelete, UndoUpdate,
            SetOriginal, UpdateColumn, Cache
  <2>2. NumRows(crs') = NumRows(crs)
    <3>1. CASE crs'.rvh = crs.rvh
        BY <3>1 DEF NumRows
    <3>2. ASSUME NEW r, crs'.rvh = [crs.rvh EXCEPT ![crs.cursorPos] = r]
          PROVE  NumRows(crs') = NumRows(crs)
        BY <3>2, RowsTyped DEF NumRows
    <3>3. CASE crs'.rvh = [i \in 1..NumRows(crs) |-> MakeRowOriginal(crs.rvh[i])]
        BY <1>0, <3>3 DEF NumRows
    <3>4. CASE Accept
        BY <1>0, <3>3, <3>4 DEF Accept, SetOriginal, Cache
    <3>5. CASE Update \/ Refresh \/ Cancel \/ UnUpdate
        BY <1>0, <3>1, <3>2, <3>5 DEF Update, Refresh, Cancel, UnUpdate,
            UpdateRow, RefreshRow, CancelRowUpdates, UndoUpdate, Cache
    <3>6. CASE Delete \/ UnDelete
        BY <1>0, <3>2, <3>6 DEF Delete, UnDelete, DeleteRow, UndoDelete, Cache
    <3>7. ASSUME NEW col \in Column, NEW val \in Datum, EditColumn(col, val)
          PROVE  NumRows(crs') = NumRows(crs)
        BY <1>0, <3>1, <3>2, <3>7 DEF EditColumn, UpdateColumn, Cache
    <3> QED BY <1>6, <3>4, <3>5, <3>6, <3>7
  <2> QED BY <1>0, <1>3, <2>1, <2>2
<1> QED BY <1>1, <1>2, <1>4, <1>5, <1>6 DEF Edit

(* A careful client always stands in the list or one place off its ends,   *)
(* and moveToCurrentRow takes it back to such a place.                     *)
THEOREM CursorStaysInRange ==
    ASSUME Careful
    PROVE  Spec => []CursorInRange
<1>1. InRange(crs) <=> CursorInRange
    BY DEF InRange, CursorInRange
<1>2. Init => Shape(crs) /\ InRange(crs)
    BY InitShape, InitMarks, RowsTyped DEF InRange
<1>3. Shape(crs) /\ InRange(crs) /\ [Next]_crs => (Shape(crs) /\ InRange(crs))'
  <2> SUFFICES ASSUME Shape(crs), InRange(crs), [Next]_crs PROVE InRange(crs')
      BY NextShape DEF InRange, NumRows
  <2>1. CASE Edit
      BY <2>1, EditStaysInRange
  <2>2. CASE Navigate \/ \E value \in BOOLEAN : Reshow(value)
      BY <2>2, NavigateMoves DEF Moves
  <2>3. CASE UNCHANGED crs
      BY <2>3
  <2> QED BY <2>1, <2>2, <2>3 DEF Next
<1> QED BY <1>1, <1>2, <1>3, PTL DEF Spec

Marked(c) ==
    /\ c.deletedRows = {i \in 1..NumRows(c) : Gone(c.rvh[i])}
    /\ \A i \in 1..NumRows(c) : Once(c.rvh[i])

\* Every call of a careful client keeps bits and marks in step.
LEMMA MarkedStep ==
    ASSUME Careful, Shape(crs), Marked(crs), [Next]_crs
    PROVE  Marked(crs')
<1>0. /\ NumRows(crs) \in Nat
      /\ \A i \in 1..NumRows(crs) : crs.rvh[i] \in Row
    BY RowsTyped
<1>1. CASE MarksKept(crs, crs')
    BY <1>1 DEF MarksKept, SameMarks, Marked
<1>2. CASE RowAdded(crs, crs')
  <2>1. /\ NumRows(crs') = NumRows(crs) + 1 /\ crs'.deletedRows = crs.deletedRows
        /\ \A i \in 1..NumRows(crs) : crs'.rvh[i] = crs.rvh[i]
        /\ crs'.rvh[NumRows(crs) + 1].flags = {"created"}
      BY <1>2, RowAddedRows, ZenonT(30) DEF RowAdded
  <2>2. ~Gone(crs'.rvh[NumRows(crs) + 1]) /\ Once(crs'.rvh[NumRows(crs) + 1])
      BY <2>1 DEF Gone, Once
  <2> QED BY <1>0, <2>1, <2>2 DEF Marked
<1>3. CASE UnInsert /\ LastDropped(crs, crs')
  <2>1. ~Gone(crs.rvh[NumRows(crs)]) /\ crs.cursorPos = NumRows(crs) /\ OnRow(crs)
      BY <1>3 DEF UnInsert, CanUndoInsert, OnRow, Here, Marked, Once
  <2> QED BY <1>0, <1>3, <2>1 DEF LastDropped, Marked, OnRow
<1>4. CASE Delete /\ MarkSet(crs, crs', Here.flags \cup {"removed"},
                              crs.deletedRows \cup {crs.cursorPos})
  <2>1. OnRow(crs) /\ Here \in Row /\ Here.flags \cap {"removed", "deleted", "created"} = {}
      BY <1>4, CurrentRowType DEF Delete, Here
  <2>2. Here.flags \cup {"removed"} \in SUBSET Flag
      BY <2>1 DEF Row, Flag
  <2>3. /\ NumRows(crs') = NumRows(crs) /\ crs.cursorPos \in 1..NumRows(crs)
        /\ crs'.deletedRows = crs.deletedRows \cup {crs.cursorPos}
        /\ crs'.rvh[crs.cursorPos].flags = Here.flags \cup {"removed"}
        /\ \A i \in 1..NumRows(crs) : i # crs.cursorPos => crs'.rvh[i] = crs.rvh[i]
    <3> DEFINE fs == Here.flags \cup {"removed"}
               deleted == crs.deletedRows \cup {crs.cursorPos}
    <3>1. Shape(crs) /\ MarkSet(crs, crs', fs, deleted) /\ fs \in SUBSET Flag
        BY <1>4, <2>2
    <3> HIDE DEF fs, deleted
    <3>2. /\ NumRows(crs') = NumRows(crs) /\ crs.cursorPos \in 1..NumRows(crs)
          /\ crs'.deletedRows = deleted /\ crs'.rvh[crs.cursorPos].flags = fs
          /\ \A i \in 1..NumRows(crs) : i # crs.cursorPos => crs'.rvh[i] = crs.rvh[i]
        BY <3>1, MarkSetRows
    <3> QED BY <3>2 DEF fs, deleted
  <2>4. Gone(crs'.rvh[crs.cursorPos]) /\ Once(crs'.rvh[crs.cursorPos])
      BY <2>1, <2>3 DEF Gone, Once
  <2> QED BY <2>3, <2>4 DEF Marked
<1>5. CASE UnDelete /\ MarkSet(crs, crs', Here.flags \ {"removed"},
                                crs.deletedRows \ {crs.cursorPos})
  <2>1. OnRow(crs) /\ Here \in Row /\ "removed" \in Here.flags
      BY <1>5, CurrentRowType DEF UnDelete, CanUndoDelete, Here
  <2>2. Here.flags \ {"removed"} \in SUBSET Flag
      BY <2>1 DEF Row, Flag
  <2>3. /\ NumRows(crs') = NumRows(crs) /\ crs.cursorPos \in 1..NumRows(crs)
        /\ crs'.deletedRows = crs.deletedRows \ {crs.cursorPos}
        /\ crs'.rvh[crs.cursorPos].flags = Here.flags \ {"removed"}
        /\ \A i \in 1..NumRows(crs) : i # crs.cursorPos => crs'.rvh[i] = crs.rvh[i]
    <3> DEFINE fs == Here.flags \ {"removed"}
               deleted == crs.deletedRows \ {crs.cursorPos}
    <3>1. Shape(crs) /\ MarkSet(crs, crs', fs, deleted) /\ fs \in SUBSET Flag
        BY <1>5, <2>2
    <3> HIDE DEF fs, deleted
    <3>2. /\ NumRows(crs') = NumRows(crs) /\ crs.cursorPos \in 1..NumRows(crs)
          /\ crs'.deletedRows = deleted /\ crs'.rvh[crs.cursorPos].flags = fs
          /\ \A i \in 1..NumRows(crs) : i # crs.cursorPos => crs'.rvh[i] = crs.rvh[i]
        BY <3>1, MarkSetRows
    <3> QED BY <3>2 DEF fs, deleted
  <2>4. Once(Here)
      BY <2>3 DEF Marked, Here
  <2>5. ~Gone(crs'.rvh[crs.cursorPos]) /\ Once(crs'.rvh[crs.cursorPos])
      BY <2>1, <2>3, <2>4 DEF Gone, Once
  <2> QED BY <2>3, <2>5 DEF Marked
<1>6. CASE Edit
    BY <1>1, <1>2, <1>3, <1>4, <1>5, <1>6, EditCases
<1>7. CASE Navigate \/ \E value \in BOOLEAN : Reshow(value)
    BY <1>1, <1>7, NavigateMoves, StayKeepsMarks DEF Moves
<1>8. CASE UNCHANGED crs
    BY <1>1, <1>8, StayKeepsMarks
<1> QED BY <1>6, <1>7, <1>8 DEF Next

(* For a careful client the bits navigation skips are the rows whose       *)
(* delete is pending or done, and no others.                               *)
THEOREM DeletedRowsMarkedInvariant ==
    ASSUME Careful
    PROVE  Spec => []DeletedRowsMarked
<1>1. Marked(crs) => DeletedRowsMarked
    BY DEF Marked, Gone, DeletedRowsMarked
<1>2. Init => Shape(crs) /\ Marked(crs)
    BY InitShape, InitMarks DEF Marked, Once, Gone
<1>3. Shape(crs) /\ Marked(crs) /\ [Next]_crs => (Shape(crs) /\ Marked(crs))'
    BY NextShape, MarkedStep DEF Marked, NumRows
<1> QED BY <1>1, <1>2, <1>3, PTL DEF Spec
----------------------------------------------------------------------------
(* Navigation moves as in a list from which the deleted rows are gone, for *)
(* every number of rows, whichever of them are deleted and wherever the    *)
(* cursor is.  The argument is about one record: Countable(c) says that    *)
(* its bits of deletedRows are rows of its list.  RankAt counts the rows   *)
(* that are left up to a place; next and previous go one up or down in     *)
(* that count, absolute and relative to a given count.                     *)

Countable(c) == Shape(c) /\ c.deletedRows \subseteq 1..NumRows(c)

\* Left(c) is size().
LEMMA ShownFacts ==
    ASSUME NEW c, Countable(c)
    PROVE  /\ WellCounted(c) /\ NumRows(c) \in Nat
           /\ Shown(c) \subseteq 1..NumRows(c) /\ Shown(c) \in SUBSET Nat
           /\ IsFiniteSet(Shown(c))
           /\ Left(c) \in Nat /\ Left(c) = Size(c) /\ Left(c) <= NumRows(c)
<1>1. WellCounted(c)
    BY DeletedFinite DEF Countable, WellCounted
<1> QED BY <1>1, LeftRows DEF Left

\* So a count goes from 0 to Left(c).
LEMMA RankFacts ==
    ASSUME NEW c, Countable(c), NEW i \in Int
    PROVE  /\ IsFiniteSet(UpTo(c, i)) /\ RankAt(c, i) \in Nat /\ RankAt(c, i) <= Left(c)
           /\ i <= 0 => RankAt(c, i) = 0
           /\ i >= NumRows(c) => RankAt(c, i) = Left(c)
           /\ i \in Shown(c) => RankAt(c, i) >= 1 /\ RankAt(c, i) = RankAt(c, i - 1) + 1
           /\ i \notin Shown(c) => RankAt(c, i) = RankAt(c, i - 1)
<1>1. WellCounted(c) /\ Left(c) = Size(c)
    BY ShownFacts
<1> QED BY <1>1, CountFacts

----------------------------------------------------------------------------
(* Where the calls land. *)

\* d is c with the cursor at p and a as the number of the row.
Placed(c, d, p, a) ==
    /\ Moves(c, d) /\ d.cursorPos = p /\ d.absolutePos = a /\ d.showDeleted = c.showDeleted

\* What the calls do to the record is this.
LEMMA PutIsPlaced ==
    ASSUME NEW c, Countable(c), NEW p \in 0..(NumRows(c) + 1), NEW a \in Int
    PROVE  Placed(c, [c EXCEPT !.cursorPos = p, !.absolutePos = a], p, a)
<1>1. c \in Cache
    BY DEF Countable, Shape
<1>2. Moves(c, [c EXCEPT !.cursorPos = p, !.absolutePos = a])
    BY PlacedMoves DEF Countable
<1> QED BY <1>1, <1>2 DEF Placed, Cache

\* The rows that are left stay, and the count is that of the place.
LEMMA PlacedFacts ==
    ASSUME NEW c, Countable(c), NEW d, NEW p, NEW a, Placed(c, d, p, a)
    PROVE  /\ Countable(d) /\ NumRows(d) = NumRows(c) /\ Shown(d) = Shown(c) /\ Left(d) = Left(c)
           /\ d.cursorPos = p /\ d.absolutePos = a /\ d.showDeleted = c.showDeleted
           /\ Rank(d) = RankAt(c, p)
<1>1. NumRows(d) = NumRows(c) /\ Countable(d)
    BY DEF Placed, Moves, NumRows, Countable
<1>2. Shown(d) = Shown(c)
    BY <1>1 DEF Shown, Placed, Moves
<1>3. Left(d) = Left(c) /\ Rank(d) = RankAt(c, p)
    BY <1>2 DEF Left, Rank, RankAt, UpTo, Placed
<1> QED BY <1>1, <1>2, <1>3 DEF Placed

\* A cursor off an end, or on the row whose count is asked for, has landed.
LEMMA PlacedLands ==
    ASSUME NEW c, Countable(c), NEW d, NEW p \in Int, NEW a, Placed(c, d, p, a), NEW q \in Int,
           \/ q < 1 /\ p = 0
           \/ q > Left(c) /\ q >= 1 /\ p = NumRows(c) + 1
           \/ p \in Shown(c) /\ RankAt(c, p) = q
    PROVE  Lands(d, q)
<1>1. /\ d.cursorPos = p /\ NumRows(d) = NumRows(c) /\ Shown(d) = Shown(c)
      /\ Left(d) = Left(c) /\ Rank(d) = RankAt(c, p)
    BY PlacedFacts
<1>2. Left(c) \in Nat
    BY ShownFacts
<1>3. p \in Shown(c) /\ RankAt(c, p) = q => q >= 1 /\ q <= Left(c)
    BY RankFacts
<1> QED BY <1>1, <1>2, <1>3 DEF Lands

\* The ends: before the first row and after the last one.
LEMMA EndsPlaced ==
    ASSUME NEW c, Countable(c)
    PROVE  /\ Placed(c, BeforeFirst(c), 0, 0)
           /\ Placed(c, InternalAfterLast(c), NumRows(c) + 1, Left(c) + 1)
<1>1. /\ 0 \in 0..(NumRows(c) + 1) /\ NumRows(c) + 1 \in 0..(NumRows(c) + 1)
      /\ 0 \in Int /\ Size(c) + 1 \in Int /\ Left(c) = Size(c)
    BY ShownFacts
<1>2. Placed(c, [c EXCEPT !.cursorPos = 0, !.absolutePos = 0], 0, 0)
    BY <1>1, PutIsPlaced
<1>3. Placed(c, [c EXCEPT !.cursorPos = NumRows(c) + 1, !.absolutePos = Size(c) + 1],
             NumRows(c) + 1, Size(c) + 1)
    BY <1>1, PutIsPlaced
<1> QED BY <1>1, <1>2, <1>3 DEF BeforeFirst, InternalAfterLast

\* They are where a count below 1, or above Left(c), leads.
LEMMA EndsLand ==
    ASSUME NEW c, Countable(c), NEW q \in Int
    PROVE  /\ q < 1 => Lands(BeforeFirst(c), q)
           /\ q > Left(c) /\ q >= 1 => Lands(InternalAfterLast(c), q)
<1>1. NumRows(c) + 1 \in Int
    BY ShownFacts
<1>2. ASSUME q < 1 PROVE Lands(BeforeFirst(c), q)
    BY <1>2, EndsPlaced, PlacedLands
<1>3. ASSUME q > Left(c), q >= 1 PROVE Lands(InternalAfterLast(c), q)
    BY <1>1, <1>3, EndsPlaced, PlacedLands
<1> QED BY <1>2, <1>3

\* next goes one row up in the count, and so does the number of the row unless
\* the rows run out.
LEMMA NextLands ==
    ASSUME NEW c, Countable(c), CanStep(c)
    PROVE  /\ Lands(InternalNext(c), RankAt(c, c.cursorPos) + 1)
           /\ RankAt(c, c.cursorPos) < Left(c) =>
                /\ InternalNext(c).absolutePos = c.absolutePos + 1
                /\ Rank(InternalNext(c)) = RankAt(c, c.cursorPos) + 1
<1> DEFINE ahead == {i \in Shown(c) : i > c.cursorPos}
           p == c.cursorPos
<1>1. /\ NumRows(c) \in Nat /\ p \in 0..(NumRows(c) + 1) /\ c.absolutePos \in Int /\ p \in Int
      /\ Shown(c) \subseteq 1..NumRows(c) /\ Left(c) \in Nat
    BY ShownFacts DEF CanStep, Countable, Shape, Cache
<1>2. RankAt(c, p) \in Nat /\ RankAt(c, p) + 1 \in Int /\ RankAt(c, p) + 1 >= 1
    BY <1>1, RankFacts
<1>3. CASE p > NumRows(c)
  <2>1. RankAt(c, p) = Left(c) /\ p = NumRows(c) + 1 /\ InternalNext(c) = c
      BY <1>1, <1>3, RankFacts DEF InternalNext
  <2>2. Lands(c, RankAt(c, p) + 1)
      BY <1>1, <1>2, <2>1 DEF Lands
  <2> QED BY <1>1, <2>1, <2>2
<1>4. CASE ~(p > NumRows(c)) /\ ahead = {}
  <2>1. RankAt(c, p) = RankAt(c, NumRows(c))
      BY <1>1, <1>4, ShownFacts, CountGrowth
  <2>2. RankAt(c, NumRows(c)) = Left(c)
      BY <1>1, RankFacts
  <2>3. InternalNext(c) = InternalAfterLast(c)
      BY <1>4 DEF InternalNext
  <2>4. Lands(InternalAfterLast(c), RankAt(c, p) + 1)
      BY <1>1, <1>2, <2>1, <2>2, EndsLand
  <2> QED BY <1>1, <2>1, <2>2, <2>3, <2>4
<1>5. CASE ~(p > NumRows(c)) /\ ahead # {}
  <2>1. PICK m : m = Min(ahead)
      OBVIOUS
  <2>2. m \in Shown(c) /\ p < m /\ \A x \in Shown(c) : p < x => m <= x
    <3>1. ahead \in SUBSET Nat
        BY <1>1
    <3>2. m \in ahead /\ \A y \in ahead : m <= y
        BY <1>5, <2>1, <3>1, MinOfNat
    <3> QED BY <1>1, <3>2
  <2>3. m \in 0..(NumRows(c) + 1) /\ m \in Int /\ m - 1 \in Int /\ p <= m - 1
      BY <1>1, <2>2
  <2>4. RankAt(c, m) = RankAt(c, m - 1) + 1
      BY <2>2, <2>3, RankFacts
  <2>5. RankAt(c, p) = RankAt(c, m - 1)
    <3>1. \A x \in Shown(c) : ~(p < x /\ x <= m - 1)
        BY <1>1, <2>2, <2>3
    <3> QED BY <1>1, <2>3, <3>1, ShownFacts, CountGrowth
  <2>6. c.absolutePos + 1 \in Int /\ RankAt(c, m) = RankAt(c, p) + 1
      BY <1>1, <2>4, <2>5
  <2>7. InternalNext(c) = [c EXCEPT !.cursorPos = m, !.absolutePos = @ + 1]
      BY <1>5, <2>1 DEF InternalNext
  <2>8. Placed(c, [c EXCEPT !.cursorPos = m, !.absolutePos = c.absolutePos + 1],
               m, c.absolutePos + 1)
      BY <2>3, <2>6, PutIsPlaced
  <2>9. Placed(c, InternalNext(c), m, c.absolutePos + 1)
      BY <2>7, <2>8
  <2> QED BY <1>2, <2>2, <2>3, <2>6, <2>9, PlacedLands, PlacedFacts
<1> QED BY <1>3, <1>4, <1>5

\* previous goes one row down, or to the row before when the cursor is on none.
LEMMA PreviousLands ==
    ASSUME NEW c, Countable(c), CanStep(c)
    PROVE  /\ Lands(InternalPrevious(c), Back(c, 1))
           /\ Back(c, 1) >= 1 => /\ InternalPrevious(c).absolutePos = c.absolutePos - 1
                                /\ Rank(InternalPrevious(c)) = Back(c, 1)
<1> DEFINE behind == {i \in Shown(c) : i < c.cursorPos}
           p == c.cursorPos
<1>1. /\ NumRows(c) \in Nat /\ p \in 0..(NumRows(c) + 1) /\ c.absolutePos \in Int
      /\ p \in Int /\ p - 1 \in Int
      /\ Shown(c) \subseteq 1..NumRows(c) /\ Left(c) \in Nat
    BY ShownFacts DEF CanStep, Countable, Shape, Cache
<1>2. Back(c, 1) = RankAt(c, p - 1) /\ RankAt(c, p - 1) \in Nat
  <2>1. Rank(c) = RankAt(c, p)
      BY DEF Rank, RankAt, UpTo
  <2>2. /\ p \in Shown(c) => RankAt(c, p) = RankAt(c, p - 1) + 1
        /\ p \notin Shown(c) => RankAt(c, p) = RankAt(c, p - 1)
      BY <1>1, RankFacts
  <2>3. RankAt(c, p - 1) \in Nat /\ RankAt(c, p) \in Nat
      BY <1>1, RankFacts
  <2> QED BY <2>1, <2>2, <2>3 DEF Back
<1>3. CASE p <= 0
  <2>1. RankAt(c, p - 1) = 0 /\ p = 0 /\ InternalPrevious(c) = c
      BY <1>1, <1>3, RankFacts DEF InternalPrevious
  <2> QED BY <1>2, <2>1 DEF Lands
<1>4. CASE ~(p <= 0) /\ behind = {}
  <2>1. 0 <= p - 1 /\ \A x \in Shown(c) : ~(0 < x /\ x <= p - 1)
      BY <1>1, <1>4
  <2>2. RankAt(c, 0) = RankAt(c, p - 1) /\ RankAt(c, 0) = 0
      BY <1>1, <2>1, ShownFacts, CountGrowth, RankFacts
  <2>3. InternalPrevious(c) = BeforeFirst(c)
      BY <1>4 DEF InternalPrevious
  <2>4. Lands(BeforeFirst(c), RankAt(c, p - 1))
      BY <1>2, <2>2, EndsLand
  <2> QED BY <1>2, <2>2, <2>3, <2>4
<1>5. CASE ~(p <= 0) /\ behind # {}
  <2>1. PICK m : m = Max(behind)
      OBVIOUS
  <2>2. m \in Shown(c) /\ m < p /\ \A x \in Shown(c) : x < p => x <= m
    <3>1. behind \in SUBSET (0..NumRows(c))
        BY <1>1
    <3>2. m \in behind /\ \A y \in behind : y <= m
        BY <1>1, <1>5, <2>1, <3>1, MaxOfBounded
    <3> QED BY <1>1, <3>2
  <2>3. m \in 0..(NumRows(c) + 1) /\ m \in Int /\ m <= p - 1
      BY <1>1, <2>2
  <2>4. RankAt(c, m) = RankAt(c, p - 1)
    <3>1. \A x \in Shown(c) : ~(m < x /\ x <= p - 1)
        BY <1>1, <2>2, <2>3
    <3> QED BY <1>1, <2>3, <3>1, ShownFacts, CountGrowth
  <2>5. c.absolutePos - 1 \in Int
      BY <1>1
  <2>6. InternalPrevious(c) = [c EXCEPT !.cursorPos = m, !.absolutePos = @ - 1]
      BY <1>5, <2>1 DEF InternalPrevious
  <2>7. Placed(c, [c EXCEPT !.cursorPos = m, !.absolutePos = c.absolutePos - 1],
               m, c.absolutePos - 1)
      BY <2>3, <2>5, PutIsPlaced
  <2>8. Placed(c, InternalPrevious(c), m, c.absolutePos - 1)
      BY <2>6, <2>7
  <2> QED BY <1>2, <2>2, <2>3, <2>4, <2>8, PlacedLands, PlacedFacts
<1> QED BY <1>3, <1>4, <1>5

\* first and last are the steps from the ends, where the number of the row is
\* set: it is right after them.
LEMMA FirstLands ==
    ASSUME NEW c, Countable(c), Left(c) > 0
    PROVE  Lands(First(c), 1) /\ First(c).absolutePos = Rank(First(c))
<1>1. Placed(c, BeforeFirst(c), 0, 0)
    BY EndsPlaced
<1>2. PICK d : d = BeforeFirst(c)
    OBVIOUS
<1>3. /\ Countable(d) /\ d.cursorPos = 0 /\ d.absolutePos = 0 /\ Shown(d) = Shown(c)
      /\ Left(d) = Left(c) /\ NumRows(d) = NumRows(c)
    BY <1>1, <1>2, PlacedFacts
<1>4. CanStep(d) /\ RankAt(d, 0) = 0
    BY <1>3, ShownFacts, RankFacts DEF CanStep
<1>5. First(c) = InternalNext(d)
  <2>1. ~IsEmpty(c)
      BY ShownFacts DEF IsEmpty
  <2> QED BY <1>2, <2>1 DEF First
<1>6. /\ Lands(InternalNext(d), 0 + 1) /\ InternalNext(d).absolutePos = 0 + 1
      /\ Rank(InternalNext(d)) = 0 + 1
    BY <1>3, <1>4, NextLands
<1> QED BY <1>5, <1>6

\* A row set with rows left ends on the last of them.
LEMMA LastLands ==
    ASSUME NEW c, Countable(c), Left(c) > 0
    PROVE  Lands(Last(c), Left(c)) /\ Last(c).absolutePos = Rank(Last(c))
<1> DEFINE N == NumRows(c)
<1>1. N \in Nat /\ Left(c) \in Nat /\ Shown(c) \subseteq 1..N /\ Left(c) = Size(c) /\ N + 1 \in Int
    BY ShownFacts
<1>2. Placed(c, InternalAfterLast(c), N + 1, Left(c) + 1)
    BY EndsPlaced
<1>3. PICK d : d = InternalAfterLast(c)
    OBVIOUS
<1>4. /\ Countable(d) /\ d.cursorPos = N + 1 /\ d.absolutePos = Left(c) + 1 /\ Shown(d) = Shown(c)
      /\ Left(d) = Left(c) /\ NumRows(d) = N /\ Rank(d) = RankAt(c, N + 1)
    BY <1>2, <1>3, PlacedFacts
<1>5. CanStep(d) /\ RankAt(c, N + 1) = Left(c) /\ N + 1 \notin Shown(d)
    BY <1>1, <1>4, RankFacts DEF CanStep
<1>6. Back(d, 1) = Left(c)
    BY <1>1, <1>4, <1>5 DEF Back
<1>7. Last(c) = InternalPrevious(d)
  <2>1. ~IsEmpty(c)
      BY <1>1 DEF IsEmpty
  <2> QED BY <1>3, <2>1 DEF Last
<1>8. /\ Lands(InternalPrevious(d), Back(d, 1))
      /\ InternalPrevious(d).absolutePos = d.absolutePos - 1
      /\ Rank(InternalPrevious(d)) = Back(d, 1)
    BY <1>1, <1>4, <1>5, <1>6, PreviousLands
<1> QED BY <1>1, <1>4, <1>6, <1>7, <1>8
----------------------------------------------------------------------------
(* The calls that are given a count. *)

\* While the deleted rows are shown the count of a place is the place.
LEMMA RankOfAll ==
    ASSUME NEW c, Countable(c), c.showDeleted, NEW i \in 0..NumRows(c)
    PROVE  RankAt(c, i) = i
<1>1. NumRows(c) \in Nat /\ i \in Nat
    BY ShownFacts
<1>2. UpTo(c, i) = 1..i
    BY <1>1 DEF UpTo, Shown
<1> QED BY <1>1, <1>2, FS_Interval DEF RankAt

\* Else it is what absolutePos() computes.
LEMMA RankOfLeft ==
    ASSUME NEW c, Countable(c), ~c.showDeleted, NEW i \in 0..NumRows(c)
    PROVE  RankAt(c, i) = AbsolutePos(c.deletedRows, i)
<1> DEFINE D == {d \in c.deletedRows : 1 <= d /\ d <= i}
<1>1. /\ NumRows(c) \in Nat /\ i \in Nat /\ i \in Int /\ c.deletedRows \subseteq 1..NumRows(c)
      /\ Shown(c) = 1..NumRows(c) \ c.deletedRows
  <2>1. NumRows(c) \in Nat
      BY ShownFacts
  <2>2. Shown(c) = 1..NumRows(c) \ c.deletedRows
      BY Zenon DEF Shown
  <2> QED BY <2>1, <2>2 DEF Countable
<1>2. IsFiniteSet(D) /\ Cardinality(D) \in Nat /\ IsFiniteSet(UpTo(c, i)) /\ RankAt(c, i) \in Nat
  <2>1. IsFiniteSet(c.deletedRows)
      BY DeletedFinite DEF Countable
  <2>2. IsFiniteSet(D)
      BY <2>1, FS_Subset
  <2> QED BY <1>1, <2>2, FS_CardinalityType, RankFacts
<1>3. UpTo(c, i) \cup D = 1..i /\ UpTo(c, i) \cap D = {}
    BY <1>1 DEF UpTo
<1>4. Cardinality(UpTo(c, i) \cup D) = Cardinality(UpTo(c, i)) + Cardinality(D) - Cardinality(UpTo(c, i) \cap D)
    BY <1>2, FS_Union
<1>5. Cardinality(1..i) = i
    BY <1>1, FS_Interval
<1>6. Cardinality(UpTo(c, i) \cap D) = 0
  <2>1. Cardinality({}) = 0
      BY FS_EmptySet
  <2> QED BY <1>3, <2>1, Zenon
<1>7. AbsolutePos(c.deletedRows, i) = i - Cardinality(D)
    BY DEF AbsolutePos
<1> HIDE DEF D
<1>8. i = RankAt(c, i) + Cardinality(D) - 0
    BY <1>3, <1>4, <1>5, <1>6, Zenon DEF RankAt
<1> QED BY <1>1, <1>2, <1>7, <1>8

\* absolute(rows) lands on the row whose count is given, from either end.
LEMMA AbsoluteLands ==
    ASSUME NEW c, Countable(c), NEW n \in Int
    PROVE  /\ Lands(Absolute(c, n), IF n < 0 THEN Left(c) + n + 1 ELSE n)
           /\ Moved(c, n) => Absolute(c, n).absolutePos = Rank(Absolute(c, n))
<1> DEFINE index == IF n < 0 THEN Size(c) + n + 1 ELSE n
<1>1. /\ NumRows(c) \in Nat /\ Shown(c) \subseteq 1..NumRows(c)
      /\ Left(c) \in Nat /\ Left(c) = Size(c) /\ Left(c) <= NumRows(c) /\ index \in Int
      /\ index = IF n < 0 THEN Left(c) + n + 1 ELSE n
    BY ShownFacts
<1>2. Moved(c, n) => n # 0 /\ index >= 1 /\ index <= Size(c)
    BY <1>1 DEF Moved
<1>3. CASE n = 0 \/ index <= 0
  <2>1. Absolute(c, n) = BeforeFirst(c)
      BY <1>3 DEF Absolute
  <2>2. index < 1
      BY <1>1, <1>3
  <2> QED BY <1>1, <1>2, <2>1, <2>2, EndsLand
<1>4. CASE ~(n = 0 \/ index <= 0) /\ index > Size(c)
  <2>1. Absolute(c, n) = InternalAfterLast(c)
      BY <1>4 DEF Absolute
  <2> QED BY <1>1, <1>2, <1>4, <2>1, EndsLand
<1>5. CASE ~(n = 0 \/ index <= 0) /\ ~(index > Size(c))
  <2>1. PICK p : p = IF c.showDeleted THEN index ELSE CursorPos(c, index)
      OBVIOUS
  <2>2. index \in 1..Size(c) /\ index \in 0..NumRows(c)
      BY <1>1, <1>5
  <2>3. p \in Shown(c) /\ RankAt(c, p) = index
    <3>1. CASE c.showDeleted
        BY <2>1, <2>2, <3>1, RankOfAll DEF Shown
    <3>2. CASE ~c.showDeleted
      <4>1. /\ p \in 1..NumRows(c) /\ p \notin c.deletedRows
            /\ AbsolutePos(c.deletedRows, p) = index
          BY <2>1, <2>2, <3>2, DeletedFinite, CursorPosIsNthLeft DEF Countable
      <4>2. p \in 0..NumRows(c)
          BY <1>1, <4>1
      <4> QED BY <3>2, <4>1, <4>2, RankOfLeft DEF Shown
    <3> QED BY <3>1, <3>2
  <2>4. p \in 0..(NumRows(c) + 1) /\ p \in Int
      BY <1>1, <2>3
  <2>5. Absolute(c, n) = [c EXCEPT !.cursorPos = p, !.absolutePos = index]
      BY <1>5, <2>1 DEF Absolute
  <2>6. Placed(c, [c EXCEPT !.cursorPos = p, !.absolutePos = index], p, index)
      BY <1>1, <2>4, PutIsPlaced
  <2>7. Placed(c, Absolute(c, n), p, index)
      BY <2>5, <2>6
  <2> QED BY <1>1, <2>3, <2>4, <2>7, PlacedLands, PlacedFacts
<1> QED BY <1>3, <1>4, <1>5

\* Where n rows back is, as a count.
LEMMA BackFacts ==
    ASSUME NEW c, Countable(c), c.cursorPos \in Int, NEW n \in Int
    PROVE  Back(c, n) = RankAt(c, c.cursorPos - 1) - n + 1 /\ Rank(c) = RankAt(c, c.cursorPos)
<1>1. Rank(c) = RankAt(c, c.cursorPos)
    BY DEF Rank, RankAt, UpTo
<1>2. /\ c.cursorPos \in Shown(c) => RankAt(c, c.cursorPos) = RankAt(c, c.cursorPos - 1) + 1
      /\ c.cursorPos \notin Shown(c) => RankAt(c, c.cursorPos) = RankAt(c, c.cursorPos - 1)
      /\ RankAt(c, c.cursorPos) \in Nat
    BY RankFacts
<1>3. RankAt(c, c.cursorPos - 1) \in Nat
    BY RankFacts
<1> QED BY <1>1, <1>2, <1>3 DEF Back

\* relative(rows) while the deleted rows are shown.
LEMMA RelativeShownLands ==
    ASSUME NEW c, Countable(c), c.showDeleted, c.cursorPos \in 1..NumRows(c), NEW n \in Nat, n >= 1
    PROVE  /\ Lands(RelativeWithDeleted(c, n), Rank(c) + n)
           /\ Lands(RelativeWithDeleted(c, -n), Back(c, n))
<1> DEFINE N == NumRows(c)
           p == c.cursorPos
<1>1. /\ N \in Nat /\ p \in Int /\ p >= 1 /\ p <= N /\ Shown(c) = 1..N /\ c.absolutePos \in Int
      /\ n \in Int
  <2>1. N \in Nat /\ c.absolutePos \in Int
      BY ShownFacts DEF Countable, Shape, Cache
  <2> QED BY <2>1 DEF Shown
<1>2. ASSUME NEW i \in 0..N PROVE RankAt(c, i) = i
    BY <1>2, RankOfAll
<1>3. Left(c) = N
  <2>1. RankAt(c, N) = Left(c)
      BY <1>1, RankFacts
  <2> QED BY <1>1, <1>2, <2>1
<1>4. Rank(c) = p /\ Back(c, n) = p - n
    BY <1>1, <1>2, BackFacts
<1>5. ASSUME NEW k \in Int, k # 0
      PROVE  Lands(RelativeWithDeleted(c, k), p + k)
  <2>1. CASE p + k > N
    <3>1. RelativeWithDeleted(c, k) = InternalAfterLast(c)
        BY <2>1 DEF RelativeWithDeleted
    <3> QED BY <1>1, <1>3, <2>1, <3>1, EndsLand
  <2>2. CASE ~(p + k > N) /\ p + k <= 0
    <3>1. RelativeWithDeleted(c, k) = BeforeFirst(c)
        BY <2>2 DEF RelativeWithDeleted
    <3> QED BY <1>1, <2>2, <3>1, EndsLand
  <2>3. CASE ~(p + k > N) /\ ~(p + k <= 0)
    <3>1. RelativeWithDeleted(c, k) = [c EXCEPT !.cursorPos = p + k, !.absolutePos = @ + k]
        BY <2>3 DEF RelativeWithDeleted
    <3>2. p + k \in 0..(N + 1) /\ p + k \in 0..N /\ p + k \in 1..N /\ c.absolutePos + k \in Int
        BY <1>1, <1>5, <2>3
    <3>3. Placed(c, [c EXCEPT !.cursorPos = p + k, !.absolutePos = c.absolutePos + k],
                 p + k, c.absolutePos + k)
        BY <3>2, PutIsPlaced
    <3>4. Placed(c, RelativeWithDeleted(c, k), p + k, c.absolutePos + k)
        BY <3>1, <3>3
    <3>5. RankAt(c, p + k) = p + k /\ p + k \in Shown(c) /\ p + k \in Int
        BY <1>1, <1>2, <1>5, <3>2
    <3> QED BY <3>4, <3>5, PlacedLands
  <2> QED BY <2>1, <2>2, <2>3
<1>6. n # 0 /\ -n \in Int /\ -n # 0 /\ p + (-n) = p - n
    BY <1>1
<1> QED BY <1>1, <1>4, <1>5, <1>6

\* relative(rows) over the rows that are left, forwards
LEMMA RelativeAheadLands ==
    ASSUME NEW c, Countable(c), c.cursorPos \in 1..NumRows(c), NEW n \in Nat, n >= 1
    PROVE  Lands(RelativeWithoutDeleted(c, n), Rank(c) + n)
<1>1. /\ WellCounted(c) /\ NumRows(c) \in Nat /\ c.cursorPos \in Int /\ c.absolutePos \in Int
      /\ Shown(c) \subseteq 1..NumRows(c) /\ Left(c) \in Nat /\ Left(c) = Size(c)
    BY ShownFacts DEF Countable, Shape, Cache
<1>2. PICK q : q = Rank(c) + n
    OBVIOUS
<1>3. q = RankAt(c, c.cursorPos) + n /\ q \in Int /\ q >= 1
    BY <1>1, <1>2, RankFacts, BackFacts
<1>4. \/ q > Size(c) /\ RelativeWithoutDeleted(c, n) = InternalAfterLast(c)
      \/ \E m \in Shown(c) : /\ RankAt(c, m) = q
                             /\ RelativeWithoutDeleted(c, n) =
                                  [c EXCEPT !.cursorPos = m, !.absolutePos = @ + n]
    BY <1>1, <1>3, RelativeForward
<1>5. CASE q > Size(c) /\ RelativeWithoutDeleted(c, n) = InternalAfterLast(c)
    BY <1>1, <1>2, <1>3, <1>5, EndsLand
<1>6. CASE \E m \in Shown(c) : /\ RankAt(c, m) = q
                               /\ RelativeWithoutDeleted(c, n) =
                                    [c EXCEPT !.cursorPos = m, !.absolutePos = @ + n]
  <2>1. PICK m \in Shown(c) : /\ RankAt(c, m) = q
                              /\ RelativeWithoutDeleted(c, n) =
                                   [c EXCEPT !.cursorPos = m, !.absolutePos = @ + n]
      BY <1>6
  <2>2. m \in 0..(NumRows(c) + 1) /\ m \in Int /\ c.absolutePos + n \in Int
      BY <1>1
  <2>3. Placed(c, [c EXCEPT !.cursorPos = m, !.absolutePos = c.absolutePos + n],
               m, c.absolutePos + n)
      BY <2>2, PutIsPlaced
  <2>4. Placed(c, RelativeWithoutDeleted(c, n), m, c.absolutePos + n)
      BY <2>1, <2>3
  <2> QED BY <1>2, <1>3, <2>1, <2>2, <2>4, PlacedLands
<1> QED BY <1>4, <1>5, <1>6

\* and backwards.
LEMMA RelativeBehindLands ==
    ASSUME NEW c, Countable(c), c.cursorPos \in 1..NumRows(c), NEW n \in Nat, n >= 1
    PROVE  Lands(RelativeWithoutDeleted(c, -n), Back(c, n))
<1>1. /\ WellCounted(c) /\ NumRows(c) \in Nat /\ c.cursorPos \in Int /\ c.cursorPos - 1 \in Int
      /\ c.absolutePos \in Int /\ n \in Int
      /\ Shown(c) \subseteq 1..NumRows(c) /\ Left(c) \in Nat
    BY ShownFacts DEF Countable, Shape, Cache
<1>2. PICK q : q = Back(c, n)
    OBVIOUS
<1>3. q = RankAt(c, c.cursorPos - 1) - n + 1 /\ q \in Int
    BY <1>1, <1>2, RankFacts, BackFacts
<1>4. \/ q < 1 /\ RelativeWithoutDeleted(c, -n) = BeforeFirst(c)
      \/ \E m \in Shown(c) : /\ RankAt(c, m) = q
                             /\ RelativeWithoutDeleted(c, -n) =
                                  [c EXCEPT !.cursorPos = m, !.absolutePos = @ + (-n)]
    BY <1>1, <1>3, RelativeBackward
<1>5. CASE q < 1 /\ RelativeWithoutDeleted(c, -n) = BeforeFirst(c)
    BY <1>2, <1>3, <1>5, EndsLand
<1>6. CASE \E m \in Shown(c) : /\ RankAt(c, m) = q
                               /\ RelativeWithoutDeleted(c, -n) =
                                    [c EXCEPT !.cursorPos = m, !.absolutePos = @ + (-n)]
  <2>1. PICK m \in Shown(c) : /\ RankAt(c, m) = q
                              /\ RelativeWithoutDeleted(c, -n) =
                                   [c EXCEPT !.cursorPos = m, !.absolutePos = @ + (-n)]
      BY <1>6
  <2>2. m \in 0..(NumRows(c) + 1) /\ m \in Int /\ c.absolutePos + (-n) \in Int
      BY <1>1
  <2>3. Placed(c, [c EXCEPT !.cursorPos = m, !.absolutePos = c.absolutePos + (-n)],
               m, c.absolutePos + (-n))
      BY <2>2, PutIsPlaced
  <2>4. Placed(c, RelativeWithoutDeleted(c, -n), m, c.absolutePos + (-n))
      BY <2>1, <2>3
  <2> QED BY <1>2, <1>3, <2>1, <2>2, <2>4, PlacedLands
<1> QED BY <1>4, <1>5, <1>6

----------------------------------------------------------------------------
(* The theorems. *)

\* In the states a careful client can be in, every call lands where it should.
LEMMA StateNavigates ==
    ASSUME Shape(crs), CursorInRange, DeletedRowsMarked
    PROVE  NavigationSkipsDeleted /\ RowNumberResynced
<1>1. Countable(crs)
    BY DEF Countable, DeletedRowsMarked
<1>2. crs.cursorPos \in Int /\ NumRows(crs) \in Nat /\ MaxRows \in Nat
    BY <1>1, ShownFacts, BoundsAssumption DEF Countable, Shape, Cache
<1>3. Rank(crs) = RankAt(crs, crs.cursorPos)
    BY <1>1, <1>2, BackFacts
<1>4. CanStep(crs) => /\ Lands(InternalNext(crs), Rank(crs) + 1)
                      /\ Lands(InternalPrevious(crs), Back(crs, 1))
    BY <1>1, <1>3, NextLands, PreviousLands
<1>5. Left(crs) > 0 =>
        /\ Lands(First(crs), 1) /\ First(crs).absolutePos = Rank(First(crs))
        /\ Lands(Last(crs), Left(crs)) /\ Last(crs).absolutePos = Rank(Last(crs))
    BY <1>1, FirstLands, LastLands
<1>6. ASSUME NEW n \in Int
      PROVE  /\ Lands(Absolute(crs, n), IF n < 0 THEN Left(crs) + n + 1 ELSE n)
             /\ Moved(crs, n) => Absolute(crs, n).absolutePos = Rank(Absolute(crs, n))
    BY <1>1, AbsoluteLands
<1>7. ASSUME CanRelative(crs), ~crs.onInsertRow, NEW n \in 1..MaxRows
      PROVE  /\ Lands(Relative(crs, n), Rank(crs) + n)
             /\ Lands(Relative(crs, -n), Back(crs, n))
  <2>1. crs.cursorPos \in 1..NumRows(crs)
      BY <1>2, <1>7 DEF CursorInRange, CanRelative
  <2>2. n \in Nat /\ n >= 1 /\ n # 0 /\ -n # 0
      BY <1>2
  <2>3. CASE crs.showDeleted
      BY <1>1, <2>1, <2>2, <2>3, RelativeShownLands DEF Relative
  <2>4. CASE ~crs.showDeleted
      BY <1>1, <2>1, <2>2, <2>4, RelativeAheadLands, RelativeBehindLands DEF Relative
  <2> QED BY <2>3, <2>4
<1>8. BeforeFirst(crs).absolutePos = Rank(BeforeFirst(crs))
  <2>1. Placed(crs, BeforeFirst(crs), 0, 0) /\ RankAt(crs, 0) = 0
      BY <1>1, EndsPlaced, RankFacts
  <2> QED BY <1>1, <2>1, PlacedFacts
<1>9. NavigationSkipsDeleted
  <2>1. \A n \in -MaxRows..(MaxRows + 1) : n \in Int
      OBVIOUS
  <2> QED BY <1>4, <1>5, <1>6, <1>7, <2>1 DEF NavigationSkipsDeleted
<1>10. RowNumberResynced
  <2>1. \A n \in -MaxRows..MaxRows : n \in Int
      OBVIOUS
  <2> QED BY <1>5, <1>6, <1>8, <2>1 DEF RowNumberResynced
<1> QED BY <1>9, <1>10

(* Deleted rows are kept in the list and skipped, and still every          *)
(* navigation call of a careful client moves as in a list without them.    *)
THEOREM NavigationSkipsDeletedInvariant ==
    ASSUME Careful
    PROVE  Spec => []NavigationSkipsDeleted
<1>1. Shape(crs) /\ CursorInRange /\ DeletedRowsMarked => NavigationSkipsDeleted
    BY StateNavigates
<1> QED BY <1>1, ShapeInvariant, CursorStaysInRange, DeletedRowsMarkedInvariant, PTL

(* However far the number of the row fell behind, first, last, absolute    *)
(* and beforeFirst set it to the number of rows left up to the cursor.     *)
THEOREM RowNumberResyncedInvariant ==
    ASSUME Careful
    PROVE  Spec => []RowNumberResynced
<1>1. Shape(crs) /\ CursorInRange /\ DeletedRowsMarked => RowNumberResynced
    BY StateNavigates
<1> QED BY <1>1, ShapeInvariant, CursorStaysInRange, DeletedRowsMarkedInvariant, PTL
=============================================================================
