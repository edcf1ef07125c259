------------------------- MODULE MCCachedRowSetMain -------------------------
(* CachedRowSetMain on a few rows.  The row number of the row set below is *)
(* dead: its rows are all shown.  So are the buffer of the insert row      *)
(* before it is given a value and, off it, the place to come back to.      *)
EXTENDS CachedRowSetMain

CONSTANT id

MCColumn == {id}
MCValue == 1..(MaxInit + MaxInserts)
MCBuffer == IF crs.onInsertRow /\ crs.insertRow.given # {} THEN crs.insertRow.vals[id] ELSE 0
MCCache == [crs EXCEPT !.absolutePos = 0, !.insertRow = MCBuffer,
                       !.currentRow = IF crs.onInsertRow THEN @ ELSE 0]
MCView == <<MCCache, mOnInsert, mRowInserted, issued, own, held, placed>>
=============================================================================
