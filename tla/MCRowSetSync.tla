---------------------------- MODULE MCRowSetSync ----------------------------
(* RowSetSync on a table of two columns, one of them the primary key, or   *)
(* of the key alone.                                                       *)
EXTENDS RowSetSync

CONSTANTS k, v, x, y

MCColumn == {k, v}
MCKeyOnly == {k}
MCKey == {k}
MCValue == {x, y}
MCRequired == {}
MCNullOnly == {NULL}

\* What nothing reads before it is set again: the insert buffer, the edits of
\* columns not marked as changed (but for a row still to be inserted), the
\* window of a check that is over.
Live(row) == IF "created" \in row.flags THEN row
             ELSE [row EXCEPT !.curr = [c \in Column |-> IF c \in row.changed THEN @[c] ELSE NULL]]
Seen(c) == [c EXCEPT !.insertRow = 0, !.currentRow = 0,
                     !.rvh = [i \in 1..Len(@) |-> Live(@[i])]]
\* Where the cursor was before a call that begins by moving it is dead, too.
Before(w) == IF w = Idle THEN w
             ELSE IF w.last THEN [w EXCEPT !.was = Seen(@)]
             ELSE [w EXCEPT !.was = [Seen(@) EXCEPT !.cursorPos = 0, !.absolutePos = 0]]
MCView == <<Seen(crs), table, db, Before(wr),
            [hist EXCEPT !.window = IF wr.pc = "write" THEN @ ELSE {}]>>
=============================================================================
