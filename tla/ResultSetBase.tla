--------------------------- MODULE ResultSetBase ---------------------------
(***************************************************************************)
(* The calls of XResultSetUpdate and XRowUpdate that both row sets of the  *)
(* driver have from sdbc/ResultSetBase.java and sdbc/RowSetBase.java, over *)
(* a CachedRowSetImpl.  What a call writes the database accepts, or it     *)
(* refuses all of it (ok is FALSE).  That it accepts one row and refuses   *)
(* another is left to RowSetSync.  RowSetMain and CachedRowSetMain add     *)
(* navigation and bookmarks, each in its own way.                          *)
(*                                                                         *)
(* The result set has one column, which tells the rows apart: each row of  *)
(* the query and each row ever inserted has a value of its own.  An edit   *)
(* leaves the row its value, since only the marks of the row matter here.  *)
(***************************************************************************)
EXTENDS RowSetBase

CONSTANTS
    Id,         \* the column
    MaxInit,    \* bound: rows the query returns
    MaxRows,    \* bound: rows the row set may grow to
    MaxInserts, \* bound: calls of insertRow
    MaxWaiting, \* bound: inserted rows not yet accepted
    MaxEdited   \* bound: rows with an edited column at one time

ASSUME IdAssumption == Column = {Id} /\ Required = {Id} /\ Value = 1..(MaxInit + MaxInserts)
ASSUME BoundsAssumption ==
    {MaxInit, MaxRows, MaxInserts, MaxWaiting, MaxEdited} \subseteq Nat /\ MaxInit <= MaxRows

VARIABLES
    crs,            \* mResult
    mOnInsert,      \* the UNO side believes to be on the insert row
    mRowInserted,   \* RowSetBase: an insert waits to be accepted
    issued          \* history: the ids given out so far

baseVars == <<crs, mOnInsert, mRowInserted, issued>>

IdOf(row) == ColumnObject(row, Id)
Here == crs.rvh[crs.cursorPos]
Waiting(c) == {i \in 1..NumRows(c) : "created" \in c.rvh[i].flags}

InitBase(show) ==
    /\ \E n \in 0..MaxInit :
          /\ crs = Populate([i \in 1..n |-> [k \in Column |-> i]], show)
          /\ issued = n
    /\ mOnInsert = FALSE
    /\ mRowInserted = FALSE

----------------------------------------------------------------------------
(* first, last, absolute, relative, beforeFirst, afterLast forget the      *)
(* insert row (resetOnInsertRow), the row set below does not; next and     *)
(* previous leave the flag alone.                                          *)
Go(c) == crs' = c /\ mOnInsert' = FALSE /\ UNCHANGED <<mRowInserted, issued>>
Step(c) == crs' = c /\ UNCHANGED <<mOnInsert, mRowInserted, issued>>

----------------------------------------------------------------------------
(* XRowUpdate and XResultSetUpdate. *)

\* updateXXX: a fresh row on the insert row of the row set below, else the
\* row under the cursor.
UpdateXXX ==
    /\ CheckCursor(crs)
    /\ crs.onInsertRow => issued < MaxInit + MaxInserts
    /\ Step(UpdateColumn(crs, Id, IF crs.onInsertRow THEN issued + 1 ELSE IdOf(Here)))
    /\ Cardinality({i \in 1..NumRows(crs) : crs.rvh[i].changed # {}}') <= MaxEdited

BaseMoveToInsertRow ==
    /\ crs' = MoveToInsertRow(crs)
    /\ mOnInsert' = TRUE
    /\ UNCHANGED <<mRowInserted, issued>>

\* internalMoveToCurrentRow; cancelRowUpdates on the insert row does no more.
InternalMoveToCurrentRow == Go(MoveToCurrentRow(crs))

\* (mutant: insertRow is the one of ResultSetBase)
BaseInsertRowUnnoted ==
    /\ mOnInsert
    /\ CanInsertRow(crs)
    /\ NumRows(crs) < MaxRows /\ Cardinality(Waiting(crs)) < MaxWaiting
    /\ crs' = InsertRow(crs)
    /\ issued' = issued + 1
    /\ UNCHANGED <<mOnInsert, mRowInserted>>

BaseInsertRow ==
    /\ mOnInsert
    /\ CanInsertRow(crs)
    /\ NumRows(crs) < MaxRows /\ Cardinality(Waiting(crs)) < MaxWaiting
    /\ crs' = InsertRow(crs)
    /\ mRowInserted' = TRUE
    /\ issued' = issued + 1
    /\ UNCHANGED mOnInsert

Accepted(c, ok) == AcceptChanges(c, IF ok THEN {} ELSE Pending(c))

\* (mutant: last() is missing)
AcceptInsertInPlace(c, ok) == Accepted(c, ok)

\* acceptInsert: accept, then last() of ResultSetBase.
AcceptInsert(c, ok) == Last(Accepted(c, ok))

\* moveToCurrentRow: back to the row, and an insert made meanwhile is accepted.
BaseMoveToCurrentRow(ok) ==
    LET c == MoveToCurrentRow(crs)
    IN  /\ crs' = IF mRowInserted THEN AcceptInsert(c, ok) ELSE c
        /\ mOnInsert' = FALSE
        /\ mRowInserted' = FALSE
        /\ UNCHANGED issued

\* updateRow does not look at mOnInsert; the row set below refuses it on its
\* insert row.
BaseUpdateRow(ok) == OnRow(crs) /\ Step(Accepted(UpdateRow(crs), ok))

\* A client deletes a row once.
BaseDeleteRow(ok) ==
    /\ ~mOnInsert
    /\ OnRow(crs)
    /\ crs.cursorPos \notin crs.deletedRows
    /\ Step(Accepted(DeleteRow(crs), ok))

\* cancelRowUpdates off the insert row.
BaseCancelRowUpdates == ~mOnInsert /\ OnRow(crs) /\ Step(CancelRowUpdates(crs))

----------------------------------------------------------------------------
BaseTypeOK ==
    /\ crs \in Cache
    /\ mOnInsert \in BOOLEAN /\ mRowInserted \in BOOLEAN
    /\ issued \in 0..(MaxInit + MaxInserts)
    /\ NumRows(crs) <= MaxRows
=============================================================================
