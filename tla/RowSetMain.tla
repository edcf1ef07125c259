----------------------------- MODULE RowSetMain -----------------------------
(***************************************************************************)
(* sdbc/RowSetMain.java, the row set of the driver when no deleted row is  *)
(* to be seen: navigation is that of the row set below.  A bookmark is the *)
(* place of a row among all rows, deleted ones included, so that it stays  *)
(* good when rows before it are deleted: every use of one shows the        *)
(* deleted rows for a moment.                                              *)
(*                                                                         *)
(* The client holds one bookmark, as Base does for the row it edits.       *)
(***************************************************************************)
EXTENDS ResultSetBase

VARIABLE held   \* the bookmark the client holds and the row it was taken on

vars == <<crs, mOnInsert, mRowInserted, issued, held>>

VOID == 0       \* Any.VOID, the bookmark of no row

Init == InitBase(FALSE) /\ held = [mark |-> VOID, id |-> 0]

----------------------------------------------------------------------------
(* Bookmarks.  The client does not use VOID as one: the conversion throws  *)
(* while deleted rows are shown, and they would be shown from then on.     *)

\* (mutant: the place is counted without the deleted rows)
MarkOfLeft(c) == GetRow(c)

\* (mutant: the cursor is taken as it is, off the list too)
MarkAnywhere(c) == c.cursorPos

Mark(c) == GetRow(SetShowDeleted(c, TRUE))

\* getBookmark leaves the insert row, and does not accept the insert: the
\* mRowInserted it reads is a field of its own that nothing sets.
GetBookmark ==
    LET c == IF mOnInsert THEN MoveToCurrentRow(crs) ELSE crs
    IN  /\ Go(SetShowDeleted(SetShowDeleted(c, TRUE), c.showDeleted))
        /\ held' = [mark |-> Mark(c),
                    id |-> IF c.cursorPos \in 1..NumRows(c) THEN IdOf(c.rvh[c.cursorPos]) ELSE 0]

\* internalMoveToBookmark
ToMark(c, mark) == SetShowDeleted(Absolute(SetShowDeleted(c, TRUE), mark), c.showDeleted)
Located(c, mark) == Moved(SetShowDeleted(c, TRUE), mark)

AtMarkOrEnd(c, mark) ==
    IF Located(c, mark) THEN ToMark(c, mark) ELSE AfterLast(ToMark(c, mark))

\* moveToBookmark goes to the row set below, and leaves mOnInsert alone when
\* the bookmark is found.
MoveToBookmark(mark) ==
    /\ crs' = AtMarkOrEnd(crs, mark)
    /\ mOnInsert' = (mOnInsert /\ Located(crs, mark))
    /\ UNCHANGED <<mRowInserted, issued, held>>

\* (mutant: a place before the first row is left there)
FromMarkOffFront(c, mark, count) == Relative(ToMark(c, mark), count)

\* relative(count) from the bookmark, after the last row when that fails.  It
\* throws when every row is deleted, and the cursor stays at the bookmark.
FromMark(c, mark, count) ==
    LET at == ToMark(c, mark)
        to == Relative(at, count)
    IN  IF ~CanRelative(at) THEN at
        ELSE IF OnRow([to EXCEPT !.onInsertRow = FALSE]) THEN to ELSE AfterLast(to)

MoveRelativeToBookmark(mark, count) ==
    /\ Go(IF Located(crs, mark) THEN FromMark(crs, mark, count) ELSE AtMarkOrEnd(crs, mark))
    /\ UNCHANGED held

\* (mutant: a bookmark is taken for an index from 0)
DeleteRowsFromZero(mark, ok) ==
    LET c == Absolute(crs, mark + 1)
    IN  /\ Step(IF Moved(crs, mark + 1) /\ ~mOnInsert /\ OnRow(c)
                THEN Accepted(DeleteRow(c), ok) ELSE c)
        /\ UNCHANGED held

\* deleteRows, which does this for each of its bookmarks: absolute of the row
\* set below counts the rows that are left, and mOnInsert stays.
DeleteRows(mark, ok) ==
    LET c == Absolute(crs, mark)
    IN  /\ Step(IF Moved(crs, mark) /\ ~mOnInsert /\ OnRow(c)
                THEN Accepted(DeleteRow(c), ok) ELSE c)
        /\ UNCHANGED held

----------------------------------------------------------------------------
(* Navigation is inherited. *)
Navigate ==
    /\ \/ CanStep(crs) /\ (Step(InternalNext(crs)) \/ Step(InternalPrevious(crs)))
       \/ Go(First(crs)) \/ Go(Last(crs)) \/ Go(BeforeFirst(crs)) \/ Go(AfterLast(crs))
       \/ \E n \in 1..MaxRows : Go(Absolute(crs, n))
       \/ \E n \in {-1, 1} : Go(IF CanRelative(crs) THEN Relative(crs, n) ELSE crs)
    /\ UNCHANGED held

Edit ==
    /\ \/ UpdateXXX \/ BaseMoveToInsertRow \/ BaseInsertRow \/ BaseCancelRowUpdates
       \/ mOnInsert /\ InternalMoveToCurrentRow
       \/ \E ok \in BOOLEAN : BaseMoveToCurrentRow(ok) \/ BaseUpdateRow(ok) \/ BaseDeleteRow(ok)
    /\ UNCHANGED held

Next ==
    \/ Navigate \/ Edit \/ GetBookmark
    \/ /\ held.mark # VOID
       /\ \/ MoveToBookmark(held.mark)
          \/ \E n \in {-1, 0, 1} : MoveRelativeToBookmark(held.mark, n)
          \/ \E ok \in BOOLEAN : DeleteRows(held.mark, ok)

Spec == Init /\ [][Next]_vars

----------------------------------------------------------------------------
TypeOK == BaseTypeOK /\ held \in [mark : 0..MaxRows, id : 0..(MaxInit + MaxInserts)]

(* A bookmark finds the row it was taken on as long as the row set has it, *)
(* whatever was deleted, inserted, refused or undone since.                *)
BookmarkFindsRow ==
    LET c == AtMarkOrEnd(crs, held.mark)
    IN  (\E i \in 1..NumRows(crs) : IdOf(crs.rvh[i]) = held.id)
        => c.cursorPos \in 1..NumRows(c) /\ IdOf(c.rvh[c.cursorPos]) = held.id

(* From the bookmark of a row that is left, moveRelativeToBookmark counts  *)
(* the rows that are left, and a place that is not there is after the last *)
(* row, at either end.                                                     *)
RelativeCountsLeftRows ==
    \A n \in -1..1 :
        LET c    == FromMark(crs, held.mark, n)
            rank == Cardinality({i \in Shown(crs) : i <= held.mark}) + n
        IN  held.mark \in Shown(crs) =>
              IF rank \in 1..Size(crs)
              THEN c.cursorPos \in Shown(c) /\ Cardinality({i \in Shown(c) : i <= c.cursorPos}) = rank
              ELSE c.cursorPos = NumRows(c) + 1

(* A row that waits to be inserted is one the next moveToCurrentRow will   *)
(* accept: the flag of RowSetBase is not lost, whichever way the client    *)
(* left the insert row.                                                    *)
WaitingInsertRemembered == Waiting(crs) # {} => mRowInserted

(* Where the UNO side believes to be on the insert row the row set below   *)
(* is there as well, so insertRow and cancelRowUpdates do what they say.   *)
(* The converse does not hold: navigation forgets the insert row above.    *)
InsertRowKnown == mOnInsert => crs.onInsertRow

(* The two flags of the UNO side tell what the row set below is doing.     *)
FlagsAgree == WaitingInsertRemembered /\ InsertRowKnown

(* moveToCurrentRow accepts the insert and goes to the new row, the last;  *)
(* when it was refused the row is gone.                                    *)
AcceptedInsertIsCurrent ==
    [][(\E ok \in BOOLEAN : BaseMoveToCurrentRow(ok)) /\ Waiting(crs) # {} =>
          /\ Waiting(crs)' = {}
          /\ (\E i \in 1..NumRows(crs)' : IdOf(crs'.rvh[i]) = issued)
             => OnRow(crs)' /\ IdOf(Here)' = issued /\ "inserted" \in Here'.flags]_vars

(* deleteRows counts the rows left where a bookmark counts all rows: it    *)
(* deletes the row of the bookmark while no row up to it is deleted.       *)
DeleteRowsHitsBookmark ==
    [][(\E ok \in BOOLEAN : DeleteRows(held.mark, ok)) /\ (\A d \in crs.deletedRows : d > held.mark)
       => crs'.deletedRows \ crs.deletedRows \subseteq {held.mark}]_vars
=============================================================================
