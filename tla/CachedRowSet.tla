---------------------------- MODULE CachedRowSet ----------------------------
(***************************************************************************)
(* One CachedRowSetImpl and the client that drives it through the methods  *)
(* of javax.sql.rowset.CachedRowSet.  Each action is one call; a call that *)
(* throws changes nothing and is no action.                                *)
(*                                                                         *)
(* acceptChanges is one action here, with every row accepted: how it talks *)
(* to the database is RowSetSync.                                          *)
(***************************************************************************)
EXTENDS CachedRowSetImpl

CONSTANTS
    Careful,    \* TRUE: the client keeps to the use the driver makes of the class
    MaxInit,    \* bound: rows the query returns
    MaxRows,    \* bound: rows the row set may grow to
    MaxEdited   \* bound: rows with an edited column at one time

ASSUME CarefulAssumption == Careful \in BOOLEAN
ASSUME BoundsAssumption ==
    MaxInit \in Nat /\ MaxRows \in Nat /\ MaxInit <= MaxRows /\ MaxEdited \in Nat

VARIABLE crs

Init ==
    \E n \in 0..MaxInit : \E rows \in [1..n -> Values], show \in BOOLEAN :
        crs = Populate(rows, show)

Here == crs.rvh[crs.cursorPos]

----------------------------------------------------------------------------
(* Navigation.  No call looks at onInsertRow, but next and previous refuse *)
(* the place -1.  relative accepts it and then counts from -1; a careful   *)
(* client does not call it there.                                          *)

NextRow == CanStep(crs) /\ crs' = InternalNext(crs)
PreviousRow == CanStep(crs) /\ crs' = InternalPrevious(crs)
GoFirst == crs' = First(crs)
GoLast == crs' = Last(crs)
GoBeforeFirst == crs' = BeforeFirst(crs)
GoAfterLast == crs' = AfterLast(crs)
GoAbsolute(n) == crs' = Absolute(crs, n)
GoRelative(n) ==
    /\ CanRelative(crs)
    /\ Careful => ~crs.onInsertRow
    /\ crs' = Relative(crs, n)
Reshow(value) == crs' = SetShowDeleted(crs, value)

Navigate ==
    \/ NextRow \/ PreviousRow \/ GoFirst \/ GoLast \/ GoBeforeFirst \/ GoAfterLast
    \/ \E n \in -MaxRows..(MaxRows + 1) : GoAbsolute(n) \/ GoRelative(n)

----------------------------------------------------------------------------
(* Edits.  A careful client, as RowSetBase is, leaves the insert row       *)
(* before it enters it again, deletes a row once and only when its insert  *)
(* was accepted, and undoes the pending insert that is last.               *)

EnterInsertRow ==
    /\ Careful => ~crs.onInsertRow
    /\ crs' = MoveToInsertRow(crs)

LeaveInsertRow == crs' = MoveToCurrentRow(crs)

EditColumn(col, val) ==
    /\ CheckCursor(crs)
    /\ crs' = UpdateColumn(crs, col, val)
    /\ Cardinality({i \in 1..NumRows(crs) : crs.rvh[i].changed # {}}') <= MaxEdited

Insert ==
    /\ CanInsertRow(crs)
    /\ NumRows(crs) < MaxRows
    /\ crs' = InsertRow(crs)

Update == OnRow(crs) /\ crs' = UpdateRow(crs)

Delete ==
    /\ OnRow(crs)
    /\ Careful => Here.flags \cap {"removed", "deleted", "created"} = {}
    /\ crs' = DeleteRow(crs)

Refresh == OnRow(crs) /\ crs' = RefreshRow(crs)
Cancel == OnRow(crs) /\ crs' = CancelRowUpdates(crs)

UnDelete == CanUndoDelete(crs) /\ crs' = UndoDelete(crs)

UnInsert ==
    /\ CanUndoInsert(crs)
    /\ Careful => crs.cursorPos = NumRows(crs) /\ "created" \in Here.flags
    /\ crs' = UndoInsert(crs)

UnUpdate == CanUndoUpdate(crs) /\ crs' = UndoUpdate(crs)

Accept == ~crs.onInsertRow /\ crs' = SetOriginal(crs)

Edit ==
    \/ EnterInsertRow \/ LeaveInsertRow \/ Insert \/ Update \/ Delete \/ Refresh \/ Cancel
    \/ UnDelete \/ UnInsert \/ UnUpdate \/ Accept
    \/ \E col \in Column, val \in Datum : EditColumn(col, val)

Next == Navigate \/ Edit \/ \E value \in BOOLEAN : Reshow(value)

Spec == Init /\ [][Next]_crs

----------------------------------------------------------------------------
(* What the class promises.                                                *)

(* The record has its shape and the cursor stays in the list, off one end  *)
(* or at -1, where moveToInsertRow parks it.                               *)
TypeOK ==
    /\ crs \in Cache
    /\ NumRows(crs) <= MaxRows
    /\ crs.cursorPos \in -1..(NumRows(crs) + 1)

(* Navigation calls that move the cursor by place test it against the      *)
(* length of the list only; so off the insert row the cursor must be       *)
(* in 0..numRows+1, and the place moveToCurrentRow goes back to as well.   *)
CursorInRange ==
    IF crs.onInsertRow THEN crs.currentRow \in 0..(NumRows(crs) + 1)
                       ELSE crs.cursorPos \in 0..(NumRows(crs) + 1)

(* The bit set deletedRows, which navigation reads, and the marks of the   *)
(* rows, which the writer reads, name the same rows.                       *)
DeletedRowsMarked ==
    crs.deletedRows = {i \in 1..NumRows(crs) :
                          crs.rvh[i].flags \cap {"removed", "deleted"} # {}}

(* Rows inserted since the query stand after the rows of the query, which  *)
(* is why undoInsert may remove the last row and never loses a row of the  *)
(* query.  The javadoc of insertRow (CachedRowSetImpl.java:5349) has them  *)
(* inserted behind the current row: undoInsert relies on the contrary.     *)
InsertedRowsAreTail ==
    \A i, j \in 1..NumRows(crs) :
        /\ i < j
        /\ crs.rvh[i].flags \cap {"created", "inserted"} # {}
        => crs.rvh[j].flags \cap {"created", "inserted"} # {}

(* A row the writer will update has an edited column to send: an UPDATE    *)
(* with an empty SET is never prepared.                                    *)
UpdatedRowsHaveEdits ==
    \A i \in 1..NumRows(crs) :
        "updated" \in crs.rvh[i].flags => crs.rvh[i].changed # {}

(* The rows a client sees, counted as a list that has no other rows.       *)
Left(c) == Cardinality(Shown(c))
Rank(c) == Cardinality({i \in Shown(c) : i <= c.cursorPos})
Lands(c, p) ==
    IF p < 1 THEN c.cursorPos = 0
    ELSE IF p > Left(c) THEN c.cursorPos = NumRows(c) + 1
    ELSE c.cursorPos \in Shown(c) /\ Rank(c) = p

\* Where n rows back is: from a deleted row or the end, the row before is 1 back.
Back(c, n) == IF c.cursorPos \in Shown(c) THEN Rank(c) - n ELSE Rank(c) - n + 1

(* Wherever the client stands, a navigation call moves as it would in a    *)
(* list from which the deleted rows are really gone, although they are     *)
(* kept and skipped.                                                       *)
NavigationSkipsDeleted ==
    /\ CanStep(crs) => /\ Lands(InternalNext(crs), Rank(crs) + 1)
                       /\ Lands(InternalPrevious(crs), Back(crs, 1))
    /\ Left(crs) > 0 => /\ Lands(First(crs), 1)
                        /\ Lands(Last(crs), Left(crs))
    /\ \A n \in -MaxRows..(MaxRows + 1) :
          Lands(Absolute(crs, n), IF n < 0 THEN Left(crs) + n + 1 ELSE n)
    /\ CanRelative(crs) /\ ~crs.onInsertRow =>
          \A n \in 1..MaxRows : /\ Lands(Relative(crs, n), Rank(crs) + n)
                               /\ Lands(Relative(crs, -n), Back(crs, n))

(* deleteRow lets absolutePos, the row number getRow answers, fall behind; *)
(* first, last, absolute and beforeFirst set it right again.               *)
RowNumberResynced ==
    LET Right(c) == c.absolutePos = Rank(c)
    IN  /\ Right(BeforeFirst(crs))
        /\ Left(crs) > 0 => Right(First(crs)) /\ Right(Last(crs))
        /\ \A n \in -MaxRows..MaxRows : Moved(crs, n) => Right(Absolute(crs, n))

(* What the javadoc of undoInsert says: it removes the current row.  The   *)
(* code removes the last one, which is the current one only while no       *)
(* other insert is pending after it.                                       *)
UndoInsertRemovesCurrent ==
    [][UnInsert => \A i \in crs.cursorPos..NumRows(crs)' :
                       crs'.rvh[i] = crs.rvh[i + 1]]_crs
=============================================================================
