--------------------------- MODULE MCCachedRowSet ---------------------------
(* CachedRowSet on one column that can only hold NULL: no property here    *)
(* looks at what a row contains, and the cursor and the marks never depend *)
(* on it.                                                                  *)
EXTENDS CachedRowSet

CONSTANT c1

MCColumn == {c1}
MCValue == {}
\* Off the insert row, currentRow and the marks of the insert buffer are dead:
\* moveToInsertRow sets both before anything reads them.
MCView == IF crs.onInsertRow THEN crs
          ELSE [crs EXCEPT !.currentRow = 0, !.insertRow.given = {}]

MCRequired == {c1}
=============================================================================
