-------------------------- MODULE CachedRowSetMain --------------------------
(***************************************************************************)
(* sdbc/CachedRowSetMain.java, the row set of the driver when the option   *)
(* to use a CachedRowSet is set.  The row set below always shows its       *)
(* deleted rows, and this class hides them: it counts the rows and marks   *)
(* the deleted ones a second time, and keeps a row number of its own.      *)
(*                                                                         *)
(* Not every call keeps the two cursors together.  A careful client, after *)
(* a delete, after the insert row, after first and last and after          *)
(* moveRelativeToBookmark, goes to its row by number or by bookmark before *)
(* it steps, deletes or takes a bookmark (placed is TRUE when it has), and *)
(* it leaves the insert row before it moves.                               *)
(***************************************************************************)
EXTENDS ResultSetBase

VARIABLES
    numRows, deletedRows, absolutePos,
    held,       \* the bookmark the client holds and the row it was taken on
    placed      \* history: the client has gone to its row by number or bookmark

own == <<numRows, deletedRows, absolutePos>>
vars == <<crs, mOnInsert, mRowInserted, issued, own, held, placed>>

VOID == 0

Init ==
    /\ InitBase(TRUE)
    /\ numRows = NumRows(crs)
    /\ deletedRows = {}
    /\ absolutePos = 0
    /\ held = [mark |-> VOID, id |-> 0]
    /\ placed = TRUE

----------------------------------------------------------------------------
(* The bookkeeping of the class, the same as in CachedRowSetImpl but for   *)
(* what absolutePos makes of places that are no row or a deleted one.      *)

OwnSize == numRows - Cardinality(deletedRows)
\* (mutant: after the last row deleted rows are counted)
AfterLastOfAll == numRows + 1
AfterLastPos == OwnSize + 1
Cursor(row) == CursorPos([deletedRows |-> deletedRows], row)
OwnCursor == Cursor(absolutePos)

PosOf(index) ==
    IF index <= 0 THEN index
    ELSE IF index > numRows THEN IF OwnSize = 0 THEN index ELSE AfterLastPos
    ELSE IF index \in deletedRows THEN 0 ELSE AbsolutePos(deletedRows, index)

To(c, pos) == Go(c) /\ absolutePos' = pos /\ UNCHANGED <<numRows, deletedRows>>
Stay == UNCHANGED <<baseVars, own>>

----------------------------------------------------------------------------
(* Navigation. *)

ToBeforeFirst == To(BeforeFirst(crs), 0)
ToAfterLast == IF OwnSize = 0 THEN Stay ELSE To(AfterLast(crs), AfterLastPos)

\* first and last are those of the row set below, deleted rows or not.
ToFirst == To(First(crs), IF IsEmpty(crs) THEN absolutePos ELSE 1)
ToLast == To(Last(crs), IF IsEmpty(crs) THEN absolutePos ELSE OwnSize)

\* (mutant: no row is skipped)
StopNextDoor(d) == 1

\* How many steps of the row set below the loop of next (d is 1) or previous
\* (-1) takes: until off the list, or until the bits say a row is left; a
\* negative place in the bits is an exception.
Stop(d) ==
    Min({n \in 1..(NumRows(crs) + 1) :
            \/ crs.cursorPos + d * n \notin 1..NumRows(crs)
            \/ OwnCursor + d * n < 0
            \/ OwnCursor + d * n \notin deletedRows})

StepRow(d) ==
    LET at == crs.cursorPos + d * Stop(d)
    IN  /\ CanStep(crs)
        /\ UNCHANGED <<numRows, deletedRows>>
        /\ IF at \in 1..NumRows(crs)
           THEN /\ Step([crs EXCEPT !.cursorPos = at, !.absolutePos = @ + d * Stop(d)])
                /\ absolutePos' = IF OwnCursor + d * Stop(d) < 0 THEN absolutePos ELSE absolutePos + d
           ELSE IF d = 1
           THEN /\ Step(IF crs.cursorPos > NumRows(crs) THEN crs ELSE InternalAfterLast(crs))
                /\ absolutePos' = AfterLastPos
           ELSE /\ Step(IF crs.cursorPos = 0 THEN crs ELSE BeforeFirst(crs))
                /\ absolutePos' = 0

ToRow(n) ==
    LET row   == IF n < 0 THEN OwnSize + n + 1 ELSE n
        index == Cursor(row)
    IN  IF n = 0 \/ row <= 0 THEN ToBeforeFirst
        ELSE IF row > OwnSize THEN ToAfterLast
        ELSE To(Absolute(crs, index),
                IF Moved(crs, index) THEN PosOf(index)
                ELSE IF IsEmpty(crs) THEN absolutePos ELSE AfterLastPos)

\* relative(n) goes by number, from the row number of this class.
ToRelative(n) == IF n = 0 THEN Stay ELSE ToRow(absolutePos + n)

Navigate ==
    \/ ToBeforeFirst /\ placed' = TRUE
    \/ ToAfterLast /\ placed' = (placed \/ OwnSize # 0)
    \/ (ToFirst \/ ToLast) /\ placed' = (deletedRows = {} /\ ~IsEmpty(crs))
    \/ /\ placed
       /\ \E d \in {-1, 1} : StepRow(d)
       /\ UNCHANGED placed
    \/ \E n \in -1..(MaxRows + 1) : ToRow(n) /\ placed' = (placed \/ OwnSize # 0)
    \/ /\ placed
       /\ \E n \in {-1, 1} : ToRelative(n)
       /\ placed' = (placed \/ OwnSize # 0)

----------------------------------------------------------------------------
(* Bookmarks: places in the full list, by the cursor of this class.  The   *)
(* client does not use VOID as one, which is an exception.                 *)

\* internalMoveToCurrentRow asks the row set below where it is.
BackPos == PosOf(GetRow(MoveToCurrentRow(crs)))

\* (mutant: the bookmark is the row number)
MarkOfNumber(pos) == pos

Mark(pos) == Cursor(pos)

GetBookmark ==
    LET c   == IF mOnInsert THEN MoveToCurrentRow(crs) ELSE crs
        pos == IF mOnInsert THEN BackPos ELSE absolutePos
    IN  /\ placed \/ mOnInsert
        /\ To(c, pos)
        /\ held' = [mark |-> Mark(pos),
                    id |-> IF c.cursorPos \in 1..NumRows(c) THEN IdOf(c.rvh[c.cursorPos]) ELSE 0]
        /\ placed' = (placed /\ ~mOnInsert)

MoveToBookmark(mark) ==
    /\ IF Moved(crs, mark) THEN To(Absolute(crs, mark), PosOf(mark))
       ELSE To(AfterLast(Absolute(crs, mark)), AfterLastPos)
    /\ placed' = (mark \in 1..numRows \ deletedRows)
    /\ UNCHANGED held

\* relative(count) of the row set below, which may throw, from the bookmark.
MoveRelativeToBookmark(mark, count) ==
    LET at == IF mark # OwnCursor THEN Absolute(crs, mark) ELSE crs
        to == Relative(at, count)
        found == mark = OwnCursor \/ Moved(crs, mark)
        moved == found /\ to.cursorPos \in 1..NumRows(to)
    IN  /\ IF found /\ ~CanRelative(at) THEN To(at, absolutePos)
           ELSE IF moved THEN To(to, PosOf(mark + count))
           ELSE To(AfterLast(IF found THEN to ELSE at), AfterLastPos)
        /\ placed' = FALSE
        /\ UNCHANGED held

----------------------------------------------------------------------------
(* Edits.  The database accepts them all: a refused insert stays counted   *)
(* and a refused delete stays marked, and nothing agrees from then on.     *)

InsertOne == BaseInsertRow /\ numRows' = numRows + 1 /\ UNCHANGED <<deletedRows, absolutePos, placed>>

\* The row number is asked for before the insert is accepted, and not after:
\* the acceptInsert of this class, which corrects it, is never called.
LeaveInsertRow ==
    /\ \/ mOnInsert /\ InternalMoveToCurrentRow
       \/ BaseMoveToCurrentRow(TRUE)
    /\ absolutePos' = BackPos
    /\ placed' = FALSE
    /\ UNCHANGED <<numRows, deletedRows>>

\* (mutant: the bit of the row number is set)
OwnDeletedByNumber == deletedRows \cup {absolutePos}

OwnDeleted == IF OwnCursor < 0 THEN deletedRows ELSE deletedRows \cup {OwnCursor}

\* The second acceptChanges of deleteRow finds nothing to write.
AfterDelete(c) ==
    /\ Step(Accepted(Accepted(DeleteRow(c), TRUE), TRUE))
    /\ deletedRows' = OwnDeleted
    /\ placed' = FALSE
    /\ UNCHANGED <<numRows, absolutePos>>

DeleteOne ==
    /\ placed
    /\ ~mOnInsert /\ OnRow(crs) /\ crs.cursorPos \notin crs.deletedRows
    /\ AfterDelete(crs)

\* deleteRows moves the cursor below only; right for the bookmark of the row
\* the client is on.
DeleteRows(mark) ==
    /\ placed /\ mark = OwnCursor /\ Moved(crs, mark) /\ mark \notin deletedRows
    /\ IF Moved(crs, mark) /\ ~mOnInsert /\ OnRow(Absolute(crs, mark))
       THEN AfterDelete(Absolute(crs, mark))
       ELSE Step(Absolute(crs, mark)) /\ placed' = FALSE /\ UNCHANGED own

Edit ==
    \/ BaseMoveToInsertRow /\ placed' = FALSE /\ UNCHANGED own
    \/ /\ placed \/ crs.onInsertRow
       /\ UpdateXXX \/ BaseCancelRowUpdates \/ BaseUpdateRow(TRUE)
       /\ UNCHANGED <<own, placed>>
    \/ InsertOne \/ LeaveInsertRow \/ DeleteOne
    \/ held.mark # VOID /\ DeleteRows(held.mark)

Next ==
    \/ Edit /\ UNCHANGED held
    \/ ~crs.onInsertRow /\ Navigate /\ UNCHANGED held
    \/ GetBookmark
    \/ /\ held.mark # VOID
       /\ ~crs.onInsertRow
       /\ MoveToBookmark(held.mark) \/ \E n \in {-1, 0, 1} : MoveRelativeToBookmark(held.mark, n)

Spec == Init /\ [][Next]_vars

----------------------------------------------------------------------------
\* The rows a client may see, by the marks of the row set below.
Visible == 1..NumRows(crs) \ crs.deletedRows

(* Types; and a bookmark is a place in the list or next to it.             *)
TypeOK ==
    /\ BaseTypeOK
    /\ numRows \in 0..MaxRows
    /\ deletedRows \subseteq 1..MaxRows
    /\ absolutePos \in Int
    /\ held \in [mark : 0..(MaxRows + 1), id : 0..(MaxInit + MaxInserts)]
    /\ placed \in BOOLEAN

(* What the class counts and marks a second time is what the row set below *)
(* counts and marks, as long as nothing is refused.                        *)
CountsAgree == numRows = NumRows(crs) /\ deletedRows = crs.deletedRows

(* After a move by number, by bookmark or off the ends, and the steps that *)
(* follow it, both cursors are on the same row, and it is one that is left.*)
PlacedAgrees == placed => OwnCursor = crs.cursorPos /\ crs.cursorPos \notin crs.deletedRows

(* The class and the row set below it agree on the rows, and on where the  *)
(* client is once it went there.                                           *)
LayersAgree == CountsAgree /\ PlacedAgrees

(* A bookmark finds the row it was taken on while that is not deleted, and *)
(* the row number is then right.                                           *)
BookmarkFindsRow ==
    \A i \in Visible : IdOf(crs.rvh[i]) = held.id =>
        /\ held.mark = i
        /\ PosOf(i) = Cardinality({j \in Visible : j <= i})

(* next and previous, from a place the client went to, and the moves by    *)
(* number from anywhere, go where they would if the deleted rows were      *)
(* gone, although the row set below shows them.                            *)
NavigationSkipsDeleted ==
    [][/\ placed /\ StepRow(1) => crs'.cursorPos = Min({i \in Visible : i > crs.cursorPos} \cup {NumRows(crs) + 1})
       /\ placed /\ StepRow(-1) => crs'.cursorPos = Max({i \in Visible : i < crs.cursorPos} \cup {0})
       /\ \A n \in 1..Cardinality(Visible) : ToRow(n) =>
             crs'.cursorPos \in Visible /\ Cardinality({i \in Visible : i <= crs'.cursorPos}) = n]_vars
=============================================================================
