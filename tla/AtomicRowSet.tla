---------------------------- MODULE AtomicRowSet ----------------------------
(***************************************************************************)
(* What the user of a RowSetBase is promised: the row set as it is between *)
(* two calls.  A call that writes is one step, and its outcome is that     *)
(* each row waiting to be written was accepted or undone as a whole, in    *)
(* one of the ways of AcceptChanges.  RowSetSync implements it.            *)
(***************************************************************************)
EXTENDS RowSetBase

CONSTANT Writable   \* what the client writes in a column

VARIABLE crs

Init == \E n \in Nat : \E rows \in [1..n -> Values], show \in BOOLEAN :
            crs = Populate(rows, show)

\* The client goes to the nth row; everything else it does starts there.
Read == \E n \in 0..(Size(crs) + 1) : crs' = Absolute(crs, n)

Update ==
    \E n \in 1..Size(crs), col \in Column, val \in Writable :
        crs' \in Outcomes(UpdateRow(UpdateColumn(Absolute(crs, n), col, val)))

Delete == \E n \in 1..Size(crs) : crs' \in Outcomes(DeleteRow(Absolute(crs, n)))

\* insertRow: the row waits in the row set.
Insert ==
    \E vals \in Values, given \in SUBSET Column :
        LET buffer == [vals |-> vals, given |-> given]
        IN  crs' = MoveToCurrentRow(InsertRow([MoveToInsertRow(crs) EXCEPT !.insertRow = buffer]))

\* moveToCurrentRow after it: acceptInsert.
AcceptInsert == \E c \in Outcomes(crs) : crs' = Last(c)

Next == Read \/ Update \/ Delete \/ Insert \/ AcceptInsert

Spec == Init /\ [][Next]_crs
=============================================================================
