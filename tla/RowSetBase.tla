----------------------------- MODULE RowSetBase -----------------------------
(***************************************************************************)
(* What sdbc/RowSetBase.java makes of a CachedRowSetImpl: every updateRow  *)
(* and deleteRow is accepted at once, and a row the database refuses is    *)
(* undone.  failed is the set of rows the database refuses, as the         *)
(* SyncResolver reports them; how they come about is RowSetSync.           *)
(***************************************************************************)
EXTENDS CachedRowSetImpl

\* (mutant: an update in conflict keeps its mark)
UndoConflictOfInsertOrDelete(c, i) ==
    LET at == [c EXCEPT !.cursorPos = i, !.showDeleted = TRUE]
        undone == CASE Kind(c.rvh[i]) = "update" -> at
                    [] Kind(c.rvh[i]) = "delete" -> UndoDelete(at)
                    [] Kind(c.rvh[i]) = "insert" -> UndoInsert(at)
    IN  [undone EXCEPT !.cursorPos = c.cursorPos, !.showDeleted = c.showDeleted]

\* One conflict, at row i.  The resolver moves the cursor there, deleted rows
\* shown; its cursor and showDeleted are put back when all is undone.
UndoConflict(c, i) ==
    LET at == [c EXCEPT !.cursorPos = i, !.showDeleted = TRUE]
        undone == CASE Kind(c.rvh[i]) = "update" -> UndoUpdate(at)
                    [] Kind(c.rvh[i]) = "delete" -> UndoDelete(at)
                    [] Kind(c.rvh[i]) = "insert" -> UndoInsert(at)
    IN  [undone EXCEPT !.cursorPos = c.cursorPos, !.showDeleted = c.showDeleted]

\* resolver.close(), then setShowDeleted(false) where it was false.
CloseResolver(c) ==
    IF c.showDeleted THEN c
    ELSE [c EXCEPT !.absolutePos = AbsolutePos(c.deletedRows, c.cursorPos)]

\* The conflicts in the order of the rows, as long as there is such a row.
UndoConflicts(c, failed) ==
    LET undone[n \in 0..NumRows(c)] ==
            IF n = 0 THEN c
            ELSE IF n \in failed /\ n <= NumRows(undone[n - 1])
                 THEN UndoConflict(undone[n - 1], n)
                 ELSE undone[n - 1]
    IN  undone[NumRows(c)]

\* acceptChanges: everything becomes original, or what failed is undone.  On
\* the insert row it throws before anything is written.
AcceptChanges(c, failed) ==
    IF c.onInsertRow THEN c
    ELSE IF failed = {} THEN SetOriginal(c)
    ELSE CloseResolver(UndoConflicts(c, failed))

\* updateCachedRowSet: the row shows the record as it was stored, generated
\* keys included.
UpdateKeys(c, i, vals) ==
    [c EXCEPT !.rvh[i].curr = vals, !.rvh[i].changed = Column]

\* The rows of vals show what was stored, the others wait as they are.
StoredRows(c, vals) ==
    [c EXCEPT !.rvh = [i \in 1..NumRows(c) |->
                          IF i \in DOMAIN vals THEN UpdateKeys(c, i, vals[i]).rvh[i] ELSE @[i]]]

\* Whatever the database generates and refuses.
Outcomes(c) ==
    LET created == {i \in Pending(c) : Kind(c.rvh[i]) = "insert"}
        stored  == UNION {[new -> Values] : new \in SUBSET created}
    IN  {AcceptChanges(StoredRows(c, vals), failed) :
           vals \in stored, failed \in SUBSET Pending(c)}
=============================================================================
