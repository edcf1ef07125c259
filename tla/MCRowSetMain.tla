---------------------------- MODULE MCRowSetMain ----------------------------
(* RowSetMain on a few rows.  The row number of the row set below is dead  *)
(* here but for getRow, which no action reads with deleted rows hidden; so *)
(* are the buffer before it is given a value and, off the insert row, the  *)
(* place to come back to.                                                  *)
EXTENDS RowSetMain

CONSTANT id

MCColumn == {id}
MCValue == 1..(MaxInit + MaxInserts)
MCBuffer == IF crs.onInsertRow /\ crs.insertRow.given # {} THEN crs.insertRow.vals[id] ELSE 0
MCCache == [crs EXCEPT !.absolutePos = 0, !.insertRow = MCBuffer,
                       !.currentRow = IF crs.onInsertRow THEN @ ELSE 0]
MCView == <<MCCache, mOnInsert, mRowInserted, issued, held>>
=============================================================================
