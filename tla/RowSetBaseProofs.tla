-------------------------- MODULE RowSetBaseProofs --------------------------
(***************************************************************************)
(* Facts about the operators of CachedRowSetImpl and RowSetBase that the   *)
(* proofs about its clients share: how many rows there are to see, where   *)
(* cursorPos(row) ends, that the methods of Row.java make rows of rows,    *)
(* and what the calls and the undoing of conflicts leave of the rows.      *)
(***************************************************************************)
EXTENDS RowSetBase, FiniteSetTheorems, WellFoundedInduction, TLAPS

(* Min and Max, which loops are modelled with, take what they should.     *)

\* A set of naturals has a least element.
LEMMA NatLeast ==
    ASSUME NEW S \in SUBSET Nat, S # {}
    PROVE  \E x \in S : \A y \in S : x <= y
<1> DEFINE R == OpToRel(<, Nat)
<1>1. IsWellFoundedOn(R, Nat)
    BY NatLessThanWellFounded
<1>2. PICK x \in S : \A y \in S : <<y, x>> \notin R
    BY <1>1, WFMin
<1>3. \A y \in S : ~(y < x)
    BY <1>2 DEF OpToRel
<1> QED BY <1>3

\* Min, a CHOOSE, is that least element.
LEMMA MinOfNat ==
    ASSUME NEW S \in SUBSET Nat, S # {}
    PROVE  Min(S) \in S /\ \A y \in S : Min(S) <= y
BY NatLeast DEF Min

\* Max is the greatest element of a bounded set.
LEMMA MaxOfBounded ==
    ASSUME NEW n \in Nat, NEW S \in SUBSET (0..n), S # {}
    PROVE  Max(S) \in S /\ \A y \in S : y <= Max(S)
<1> DEFINE T == {n - x : x \in S}
<1>1. T \in SUBSET Nat /\ T # {}
  <2>1. \A x \in S : n - x \in Nat
      OBVIOUS
  <2>2. PICK x \in S : TRUE
      OBVIOUS
  <2>3. n - x \in T
      OBVIOUS
  <2> QED BY <2>1, <2>3
<1>2. PICK t \in T : \A y \in T : t <= y
    BY <1>1, NatLeast
<1>3. PICK x \in S : t = n - x
    BY <1>2
<1>4. \A y \in S : x >= y
  <2> SUFFICES ASSUME NEW y \in S PROVE x >= y
      OBVIOUS
  <2>1. t <= n - y
      BY <1>2
  <2> QED BY <2>1, <1>3
<1> QED BY <1>4 DEF Max

----------------------------------------------------------------------------
(* How many rows there are to see. *)

\* A row set with its type, whose bits of deletedRows are finitely many.
Formed(c) == c \in Cache /\ IsFiniteSet(c.deletedRows)

\* The bit set deletedRows is finite: size() is a number, at most numRows.
LEMMA FormedFacts ==
    ASSUME NEW c, Formed(c)
    PROVE  /\ IsFiniteSet(c.deletedRows)
           /\ Cardinality(c.deletedRows) \in Nat
           /\ NumRows(c) \in Nat
           /\ Size(c) \in Int
           /\ Size(c) <= NumRows(c)
<1>1. NumRows(c) \in Nat /\ IsFiniteSet(c.deletedRows)
    BY DEF Formed, Cache, NumRows
<1>2. Cardinality(c.deletedRows) \in Nat
    BY <1>1, FS_CardinalityType
<1> QED BY <1>1, <1>2 DEF Size

\* The count of the deleted rows up to i never exceeds their number.
LEMMA AbsolutePosBounds ==
    ASSUME NEW c, Formed(c), NEW i \in Nat
    PROVE  /\ AbsolutePos(c.deletedRows, i) \in Int
           /\ AbsolutePos(c.deletedRows, i) <= i
           /\ i - Cardinality(c.deletedRows) <= AbsolutePos(c.deletedRows, i)
<1> DEFINE D == {d \in c.deletedRows : 1 <= d /\ d <= i}
<1>1. IsFiniteSet(D) /\ Cardinality(D) <= Cardinality(c.deletedRows)
    BY FormedFacts, FS_Subset
<1>2. Cardinality(D) \in Nat
    BY <1>1, FS_CardinalityType
<1> QED BY <1>1, <1>2, FormedFacts DEF AbsolutePos

\* One row further on, the count grows by one exactly on a deleted row.
LEMMA AbsolutePosStep ==
    ASSUME NEW c, Formed(c), NEW i \in Nat, i >= 1
    PROVE  AbsolutePos(c.deletedRows, i) =
             IF i \in c.deletedRows THEN AbsolutePos(c.deletedRows, i - 1)
                                    ELSE AbsolutePos(c.deletedRows, i - 1) + 1
<1> DEFINE D == {d \in c.deletedRows : 1 <= d /\ d <= i}
           E == {d \in c.deletedRows : 1 <= d /\ d <= i - 1}
<1>0. c.deletedRows \subseteq Nat
    BY DEF Formed, Cache
<1>1. IsFiniteSet(E) /\ Cardinality(E) \in Nat
    BY FormedFacts, FS_Subset, FS_CardinalityType
<1>2. CASE i \in c.deletedRows
  <2>1. D = E \cup {i} /\ i \notin E
      BY <1>0, <1>2
  <2>2. Cardinality(D) = Cardinality(E) + 1
      BY <2>1, <1>1, FS_AddElement
  <2> QED BY <2>2, <1>1, <1>2 DEF AbsolutePos
<1>3. CASE i \notin c.deletedRows
  <2>1. D = E
      BY <1>0, <1>3
  <2> QED BY <2>1, <1>1, <1>3 DEF AbsolutePos
<1> QED BY <1>2, <1>3

(* The loop of cursorPos(row) ends on the row-th row that is left: it is    *)
(* in the list, it is not deleted and row rows are left up to it.          *)
THEOREM CursorPosIsNthLeft ==
    ASSUME NEW c, Formed(c), ~c.showDeleted, NEW row \in 1..Size(c)
    PROVE  /\ CursorPos(c, row) \in 1..NumRows(c)
           /\ CursorPos(c, row) \notin c.deletedRows
           /\ AbsolutePos(c.deletedRows, CursorPos(c, row)) = row
<1> DEFINE A(i) == AbsolutePos(c.deletedRows, i)
           n == NumRows(c)
           k == Cardinality(c.deletedRows)
           T == {i \in Nat : row <= A(i)}
           F == {i \in row..(row + k) : A(i) = row}
<1>1. n \in Nat /\ k \in Nat /\ Size(c) = n - k /\ row \in Nat /\ 1 <= row /\ row <= n - k
    BY FormedFacts DEF Size
<1>2. \A i \in Nat : A(i) \in Int /\ A(i) <= i /\ i - k <= A(i)
    BY AbsolutePosBounds
<1>3. row + k \in T /\ n \in T
    BY <1>1, <1>2
<1> HIDE DEF A
<1>4. PICK m \in T : \A i \in T : m <= i
  <2>1. T \in SUBSET Nat /\ T # {}
      BY <1>3
  <2> HIDE DEF T
  <2> QED BY <2>1, NatLeast
<1>5. m \in Nat /\ row <= m /\ m <= n /\ m <= row + k /\ m >= 1
    BY <1>1, <1>2, <1>3, <1>4
<1>6. m \notin c.deletedRows /\ A(m) = row
  <2>1. A(m - 1) < row
    <3>1. m - 1 \in Nat /\ m - 1 \notin T
        BY <1>4, <1>5
    <3> QED BY <3>1, <1>1, <1>2
  <2>2. A(m) = IF m \in c.deletedRows THEN A(m - 1) ELSE A(m - 1) + 1
      BY <1>5, AbsolutePosStep DEF A
  <2>3. m - 1 \in Nat /\ A(m - 1) \in Int /\ A(m) \in Int /\ row <= A(m)
      BY <1>2, <1>4, <1>5
  <2> QED BY <2>1, <2>2, <2>3, <1>1
<1>7. CursorPos(c, row) = Min(F)
    BY DEF CursorPos, A
<1>8. Min(F) \in F /\ Min(F) <= m
  <2>1. F \in SUBSET Nat /\ m \in F
      BY <1>1, <1>5, <1>6
  <2> HIDE DEF F
  <2> QED BY <2>1, MinOfNat
<1>9. m <= Min(F)
  <2>1. Min(F) \in T
      BY <1>1, <1>8
  <2> QED BY <2>1, <1>4
<1>10. Min(F) = m
    BY <1>1, <1>5, <1>8, <1>9
<1> QED BY <1>5, <1>6, <1>7, <1>10 DEF A

----------------------------------------------------------------------------
(* The rows keep their type. *)

\* The methods of Row.java make rows of rows.
LEMMA RowTypes ==
    ASSUME NEW row \in Row
    PROVE  /\ SetUpdated(row) \in Row
           /\ ClearUpdated(row) \in Row
           /\ ClearChanged(row) \in Row
           /\ MoveCurrentToOrig(row) \in Row
           /\ \A col \in Column, val \in Datum : SetColumnObject(row, col, val) \in Row
           /\ \A fs \in SUBSET Flag : [row EXCEPT !.flags = fs] \in Row
<1>1. NULL \in Datum /\ NoValues \in Values
    BY DEF Datum, NoValues, Values
<1>2. \A fs \in SUBSET Flag : [row EXCEPT !.flags = fs] \in Row
    BY DEF Row
<1>3. SetUpdated(row) \in Row
    BY DEF SetUpdated, Row, Flag
<1>4. ClearUpdated(row) \in Row
    BY <1>1 DEF ClearUpdated, Row
<1>5. ClearChanged(row) \in Row
  <2>1. [k \in Column |-> IF row.curr[k] # NULL THEN row.curr[k] ELSE row.orig[k]] \in Values
      BY DEF Row, Values
  <2> QED BY <2>1 DEF ClearChanged, Row
<1>6. MoveCurrentToOrig(row) \in Row
  <2> DEFINE moved == {k \in row.changed : row.curr[k] # NULL}
  <2>1. /\ [k \in Column |-> IF k \in moved THEN row.curr[k] ELSE row.orig[k]] \in Values
        /\ [k \in Column |-> IF k \in moved THEN NULL ELSE row.curr[k]] \in Values
      BY <1>1 DEF Row, Values
  <2> QED BY <2>1 DEF MoveCurrentToOrig, Row
<1>7. ASSUME NEW col \in Column, NEW val \in Datum
      PROVE  SetColumnObject(row, col, val) \in Row
  <2>1. [row.curr EXCEPT ![col] = val] \in Values /\ row.changed \cup {col} \in SUBSET Column
      BY DEF Row, Values
  <2> QED BY <2>1 DEF SetColumnObject, Row
<1> QED BY <1>2, <1>3, <1>4, <1>5, <1>6, <1>7

\* makeRowOriginal too, through its three steps.
LEMMA MakeRowOriginalType ==
    ASSUME NEW row \in Row
    PROVE  MakeRowOriginal(row) \in Row
<1> DEFINE born == IF "created" \in row.flags
                   THEN [ClearChanged(row) EXCEPT !.flags = (@ \cup {"inserted"}) \ {"created"}]
                   ELSE row
           moved == IF "updated" \in born.flags THEN MoveCurrentToOrig(born) ELSE born
<1>1. born \in Row
  <2>1. ClearChanged(row) \in Row
      BY RowTypes
  <2>2. (ClearChanged(row).flags \cup {"inserted"}) \ {"created"} \in SUBSET Flag
      BY <2>1 DEF Row, Flag
  <2> QED BY <2>1, <2>2, RowTypes
<1>2. moved \in Row
  <2> HIDE DEF born
  <2> QED BY <1>1, RowTypes
<1>3. (moved.flags \cup {"deleted"}) \ {"removed"} \in SUBSET Flag
  <2> HIDE DEF moved
  <2> QED BY <1>2 DEF Row, Flag
<1>4. [moved EXCEPT !.flags = (moved.flags \cup {"deleted"}) \ {"removed"}] \in Row
  <2> HIDE DEF moved
  <2> QED BY <1>2, <1>3, RowTypes
<1> QED BY <1>2, <1>4 DEF MakeRowOriginal

\* And so are the rows of the query and of insertRow.
LEMMA NewRowType ==
    ASSUME NEW vals \in Values, NEW fs \in SUBSET Flag
    PROVE  [NewRow(vals) EXCEPT !.flags = fs] \in Row /\ NewRow(vals) \in Row
BY DEF NewRow, Row, NoValues, Values, Datum

----------------------------------------------------------------------------
(* Where absolute and last put the cursor. *)

\* d is c with the cursor elsewhere, and maybe another number of the row.
Steers(c, d) ==
    /\ Formed(d)
    /\ d.rvh = c.rvh /\ d.deletedRows = c.deletedRows /\ d.showDeleted = c.showDeleted
    /\ d.onInsertRow = c.onInsertRow

\* A cursor put somewhere is all that changes.
LEMMA PutSteers ==
    ASSUME NEW c, Formed(c), NEW p \in Int, NEW a \in Int
    PROVE  /\ Steers(c, [c EXCEPT !.cursorPos = p, !.absolutePos = a])
           /\ [c EXCEPT !.cursorPos = p, !.absolutePos = a].cursorPos = p
BY DEF Steers, Formed, Cache

\* Put twice, it is put.
LEMMA SteersOn ==
    ASSUME NEW c, NEW d, NEW e, Steers(c, d), Steers(d, e)
    PROVE  Steers(c, e)
BY DEF Steers

\* absolute(rows), whatever the number: on a row when it says so.
LEMMA AbsoluteSteers ==
    ASSUME NEW c, Formed(c), NEW rows \in Int
    PROVE  /\ Steers(c, Absolute(c, rows))
           /\ Absolute(c, rows).cursorPos \in 0..(NumRows(c) + 1)
           /\ Moved(c, rows) => Absolute(c, rows).cursorPos \in 1..NumRows(c)
<1> DEFINE index == IF rows < 0 THEN Size(c) + rows + 1 ELSE rows
           place == IF c.showDeleted THEN index ELSE CursorPos(c, index)
<1>1. index \in Int /\ Size(c) \in Int /\ NumRows(c) \in Nat /\ Size(c) <= NumRows(c)
    BY FormedFacts
<1>2. /\ 0 \in 0..(NumRows(c) + 1) /\ NumRows(c) + 1 \in 0..(NumRows(c) + 1)
      /\ 0 \in Int /\ NumRows(c) + 1 \in Int /\ Size(c) + 1 \in Int
    BY <1>1
<1>3. Moved(c, rows) => ~(rows = 0 \/ index <= 0) /\ ~(index > Size(c))
    BY <1>1 DEF Moved
<1>4. CASE rows = 0 \/ index <= 0
  <2>1. Absolute(c, rows) = [c EXCEPT !.cursorPos = 0, !.absolutePos = 0]
      BY <1>4 DEF Absolute, BeforeFirst
  <2>2. /\ Steers(c, [c EXCEPT !.cursorPos = 0, !.absolutePos = 0])
        /\ [c EXCEPT !.cursorPos = 0, !.absolutePos = 0].cursorPos = 0
      BY <1>2, PutSteers
  <2>3. Steers(c, Absolute(c, rows)) /\ Absolute(c, rows).cursorPos = 0
      BY <2>1, <2>2
  <2> HIDE DEF index
  <2> QED BY <1>1, <1>3, <1>4, <2>3
<1>5. CASE ~(rows = 0 \/ index <= 0) /\ index > Size(c)
  <2> DEFINE end == [c EXCEPT !.cursorPos = NumRows(c) + 1, !.absolutePos = Size(c) + 1]
  <2>1. Absolute(c, rows) = end
      BY <1>5 DEF Absolute, InternalAfterLast
  <2>2. Steers(c, end) /\ end.cursorPos = NumRows(c) + 1
      BY <1>2, PutSteers
  <2>3. Steers(c, Absolute(c, rows)) /\ Absolute(c, rows).cursorPos = NumRows(c) + 1
      BY <2>1, <2>2
  <2> HIDE DEF index
  <2> QED BY <1>2, <1>3, <1>5, <2>3
<1>6. CASE ~(rows = 0 \/ index <= 0) /\ ~(index > Size(c))
  <2> DEFINE there == [c EXCEPT !.cursorPos = place, !.absolutePos = index]
  <2>1. Absolute(c, rows) = there
      BY <1>6 DEF Absolute
  <2>2. index \in 1..Size(c)
      BY <1>1, <1>6
  <2> HIDE DEF index
  <2>3. place \in 1..NumRows(c)
      BY <1>1, <2>2, CursorPosIsNthLeft
  <2> HIDE DEF place
  <2>4. place \in Int
      BY <1>1, <2>3
  <2>5. Steers(c, there) /\ there.cursorPos = place
      BY <1>1, <2>4, PutSteers
  <2>6. Steers(c, Absolute(c, rows)) /\ Absolute(c, rows).cursorPos = place
      BY <2>1, <2>5
  <2> QED BY <1>1, <2>3, <2>6
<1> QED BY <1>4, <1>5, <1>6

\* last(): on a row or before the first one, unless there is no row to see.
LEMMA LastSteers ==
    ASSUME NEW c, Formed(c)
    PROVE  /\ Steers(c, Last(c))
           /\ IF IsEmpty(c) THEN Last(c) = c ELSE Last(c).cursorPos \in 0..NumRows(c)
<1>1. Size(c) \in Int /\ NumRows(c) \in Nat /\ NumRows(c) + 1 \in Int /\ Size(c) + 1 \in Int
      /\ 0 \in Int
    BY FormedFacts
<1>2. CASE IsEmpty(c)
    BY <1>2 DEF Last, Steers
<1>3. CASE ~IsEmpty(c)
  <2>1. PICK d : d = InternalAfterLast(c)
      OBVIOUS
  <2>2. /\ Steers(c, [c EXCEPT !.cursorPos = NumRows(c) + 1, !.absolutePos = Size(c) + 1])
        /\ [c EXCEPT !.cursorPos = NumRows(c) + 1,
                     !.absolutePos = Size(c) + 1].cursorPos = NumRows(c) + 1
      BY <1>1, PutSteers
  <2>3. Steers(c, d) /\ d.cursorPos = NumRows(c) + 1
      BY <2>1, <2>2 DEF InternalAfterLast
  <2>4. Formed(d) /\ d.absolutePos \in Int /\ NumRows(d) = NumRows(c)
      BY <2>3 DEF Steers, Formed, Cache, NumRows
  <2>5. Last(c) = InternalPrevious(d)
      BY <1>3, <2>1 DEF Last
  <2> DEFINE behind == {i \in Shown(d) : i < d.cursorPos}
  <2>6. behind \in SUBSET (1..NumRows(c))
      BY <1>1, <2>3, <2>4 DEF Shown
  <2>7. CASE behind = {}
    <3>1. Last(c) = [d EXCEPT !.cursorPos = 0, !.absolutePos = 0]
        BY <1>1, <2>3, <2>5, <2>7 DEF InternalPrevious, BeforeFirst
    <3>2. /\ Steers(d, [d EXCEPT !.cursorPos = 0, !.absolutePos = 0])
          /\ [d EXCEPT !.cursorPos = 0, !.absolutePos = 0].cursorPos = 0
        BY <1>1, <2>4, PutSteers
    <3>3. Steers(d, Last(c)) /\ Last(c).cursorPos = 0
        BY <3>1, <3>2
    <3>4. Steers(c, Last(c))
        BY <2>3, <3>3, SteersOn
    <3> QED BY <1>1, <1>3, <3>3, <3>4
  <2>8. CASE behind # {}
    <3>1. PICK m : m = Max(behind)
        OBVIOUS
    <3>2. m \in behind
      <4> HIDE DEF behind
      <4>1. behind \in SUBSET (0..NumRows(c))
          BY <1>1, <2>6
      <4> QED BY <1>1, <2>8, <3>1, <4>1, MaxOfBounded
    <3>3. m \in 0..NumRows(c) /\ m \in Int
      <4> HIDE DEF behind
      <4> QED BY <1>1, <2>6, <3>2
    <3>4. d.absolutePos - 1 \in Int
        BY <2>4
    <3>5. Last(c) = [d EXCEPT !.cursorPos = m, !.absolutePos = d.absolutePos - 1]
        BY <1>1, <2>3, <2>5, <2>8, <3>1 DEF InternalPrevious
    <3>6. /\ Steers(d, [d EXCEPT !.cursorPos = m, !.absolutePos = d.absolutePos - 1])
          /\ [d EXCEPT !.cursorPos = m, !.absolutePos = d.absolutePos - 1].cursorPos = m
        BY <2>4, <3>3, <3>4, PutSteers
    <3>7. Steers(d, Last(c)) /\ Last(c).cursorPos = m
        BY <3>5, <3>6
    <3>8. Steers(c, Last(c))
        BY <2>3, <3>7, SteersOn
    <3> QED BY <1>3, <3>3, <3>7, <3>8
  <2> QED BY <2>7, <2>8
<1> QED BY <1>2, <1>3
----------------------------------------------------------------------------
(* What the calls make of the rows. *)

\* The row set d has the rows of c, but row is at i; the cursor may be elsewhere.
Changes(c, d, i, row) ==
    /\ Formed(d) /\ ~d.onInsertRow
    /\ NumRows(d) = NumRows(c)
    /\ \A j \in 1..NumRows(c) : d.rvh[j] = IF j = i THEN row ELSE c.rvh[j]

\* A row of the list is a row.
LEMMA RowsOfCache ==
    ASSUME NEW c, Formed(c)
    PROVE  /\ NumRows(c) \in Nat
           /\ \A i \in 1..NumRows(c) : c.rvh[i] \in Row
BY DEF Formed, Cache, NumRows

\* Another row at i.
LEMMA ChangeOne ==
    ASSUME NEW c, Formed(c), ~c.onInsertRow, NEW i \in 1..NumRows(c), NEW row \in Row,
           NEW dels \in SUBSET Nat, IsFiniteSet(dels)
    PROVE  Changes(c, [c EXCEPT !.rvh = [c.rvh EXCEPT ![i] = row], !.deletedRows = dels], i, row)
<1> DEFINE rows == [c.rvh EXCEPT ![i] = row]
           d == [c EXCEPT !.rvh = rows, !.deletedRows = dels]
<1>1. c.rvh \in Seq(Row) /\ i \in 1..Len(c.rvh) /\ c \in Cache
    BY DEF Formed, Cache, NumRows
<1>2. rows \in Seq(Row) /\ Len(rows) = Len(c.rvh)
    BY <1>1
<1>3. \A j \in 1..Len(c.rvh) : rows[j] = IF j = i THEN row ELSE c.rvh[j]
    BY <1>1
<1> HIDE DEF rows
<1>4. d \in Cache /\ d.rvh = rows /\ d.deletedRows = dels /\ ~d.onInsertRow
    BY <1>1, <1>2 DEF Cache
<1>5. Formed(d) /\ NumRows(d) = NumRows(c)
    BY <1>2, <1>4 DEF Formed, NumRows
<1>6. \A j \in 1..NumRows(c) : d.rvh[j] = IF j = i THEN row ELSE c.rvh[j]
    BY <1>3, <1>4 DEF NumRows
<1>7. Changes(c, d, i, row)
  <2> HIDE DEF d
  <2> QED BY <1>4, <1>5, <1>6 DEF Changes
<1> QED BY <1>7 DEF rows

\* The edits of one call are seen from the rows the call began with.
LEMMA ChangesOn ==
    ASSUME NEW c, NEW d, NEW e, NEW i, NEW row, Steers(c, d), Changes(d, e, i, row)
    PROVE  Changes(c, e, i, row)
BY DEF Steers, Changes, NumRows

\* updateXXX and updateRow change the row under the cursor, and only that.
LEMMA UpdateChanges ==
    ASSUME NEW c, Formed(c), ~c.onInsertRow, c.cursorPos \in 1..NumRows(c),
           NEW col \in Column, NEW val \in Datum
    PROVE  Changes(c, UpdateRow(UpdateColumn(c, col, val)), c.cursorPos,
                   SetUpdated(SetColumnObject(c.rvh[c.cursorPos], col, val)))
<1> DEFINE p == c.cursorPos
           row == SetColumnObject(c.rvh[p], col, val)
<1>1. PICK d : d = UpdateColumn(c, col, val)
    OBVIOUS
<1>2. row \in Row /\ SetUpdated(row) \in Row
    BY RowsOfCache, RowTypes
<1>3. c.deletedRows \in SUBSET Nat /\ IsFiniteSet(c.deletedRows) /\ c.rvh \in Seq(Row)
      /\ c \in Cache
    BY DEF Formed, Cache
<1> HIDE DEF row
<1>4. d = [c EXCEPT !.rvh = [c.rvh EXCEPT ![p] = row], !.deletedRows = c.deletedRows]
    BY <1>1, <1>3 DEF UpdateColumn, row, Cache
<1>5. Changes(c, d, p, row)
    BY <1>2, <1>3, <1>4, ChangeOne
<1>6. d.cursorPos = p /\ d.rvh[p] = row /\ d.deletedRows = c.deletedRows /\ NumRows(d) = NumRows(c)
      /\ Formed(d) /\ ~d.onInsertRow /\ d.rvh \in Seq(Row)
    BY <1>3, <1>4, <1>5 DEF Changes, Cache, NumRows, Formed
<1>7. PICK e : e = UpdateRow(d)
    OBVIOUS
<1>8. e = [d EXCEPT !.rvh = [d.rvh EXCEPT ![p] = SetUpdated(row)], !.deletedRows = d.deletedRows]
    BY <1>6, <1>7 DEF UpdateRow, Formed, Cache
<1>9. Changes(d, e, p, SetUpdated(row))
    BY <1>2, <1>3, <1>6, <1>8, ChangeOne
<1>10. Changes(c, e, p, SetUpdated(row))
    BY <1>5, <1>9 DEF Changes
<1> QED BY <1>1, <1>7, <1>10 DEF row

\* deleteRow marks the row under the cursor.
LEMMA DeleteChanges ==
    ASSUME NEW c, Formed(c), ~c.onInsertRow, c.cursorPos \in 1..NumRows(c)
    PROVE  Changes(c, DeleteRow(c), c.cursorPos,
                   [c.rvh[c.cursorPos] EXCEPT !.flags = @ \cup {"removed"}])
<1> DEFINE p == c.cursorPos
           row == [c.rvh[p] EXCEPT !.flags = c.rvh[p].flags \cup {"removed"}]
<1>1. c.rvh[p] \in Row
    BY RowsOfCache
<1>2. row \in Row
  <2>1. c.rvh[p].flags \cup {"removed"} \in SUBSET Flag
      BY <1>1 DEF Row, Flag
  <2> QED BY <1>1, <2>1, RowTypes
<1>3. c.deletedRows \cup {p} \in SUBSET Nat /\ IsFiniteSet(c.deletedRows \cup {p})
  <2>1. c.deletedRows \in SUBSET Nat /\ IsFiniteSet(c.deletedRows) /\ p \in Nat
      BY RowsOfCache DEF Formed, Cache
  <2> QED BY <2>1, FS_AddElement
<1>4. DeleteRow(c) = [c EXCEPT !.rvh = [c.rvh EXCEPT ![p] = row],
                               !.deletedRows = c.deletedRows \cup {p}]
    BY DEF DeleteRow, Formed, Cache
<1>5. Changes(c, [c EXCEPT !.rvh = [c.rvh EXCEPT ![p] = row],
                           !.deletedRows = c.deletedRows \cup {p}], p, row)
  <2> HIDE DEF row
  <2> QED BY <1>2, <1>3, ChangeOne
<1>6. Changes(c, DeleteRow(c), p, row)
  <2> HIDE DEF row, p
  <2> QED BY <1>4, <1>5
<1> QED BY <1>6

\* updateCachedRowSet puts the record in the row.
LEMMA KeysChange ==
    ASSUME NEW c, Formed(c), ~c.onInsertRow, NEW i \in 1..NumRows(c), NEW vals \in Values
    PROVE  Changes(c, UpdateKeys(c, i, vals), i,
                   [c.rvh[i] EXCEPT !.curr = vals, !.changed = Column])
<1> DEFINE row == [c.rvh[i] EXCEPT !.curr = vals, !.changed = Column]
<1>1. c.rvh[i] \in Row
    BY RowsOfCache
<1>2. row \in Row
    BY <1>1 DEF Row
<1>3. c.deletedRows \in SUBSET Nat /\ IsFiniteSet(c.deletedRows)
    BY DEF Formed, Cache
<1>4. UpdateKeys(c, i, vals) = [c EXCEPT !.rvh = [c.rvh EXCEPT ![i] = row],
                                         !.deletedRows = c.deletedRows]
    BY DEF UpdateKeys, Formed, Cache
<1>5. Changes(c, [c EXCEPT !.rvh = [c.rvh EXCEPT ![i] = row],
                           !.deletedRows = c.deletedRows], i, row)
  <2> HIDE DEF row
  <2> QED BY <1>2, <1>3, ChangeOne
<1>6. Changes(c, UpdateKeys(c, i, vals), i, row)
  <2> HIDE DEF row
  <2> QED BY <1>4, <1>5
<1> QED BY <1>6
\* The row set d has the first rows of c, all but the last.
Shortens(c, d) ==
    /\ Formed(d) /\ ~d.onInsertRow
    /\ NumRows(d) = NumRows(c) - 1
    /\ \A j \in 1..NumRows(d) : d.rvh[j] = c.rvh[j]

\* A row set that differs in its cursor and view only shows the same change.
LEMMA ChangesElsewhere ==
    ASSUME NEW c, NEW d, NEW e, NEW i, NEW row,
           d.rvh = c.rvh, Changes(d, e, i, row)
    PROVE  Changes(c, e, i, row)
BY DEF Changes, NumRows

\* Undoing an update drops its edits, undoing a delete its mark.
LEMMA UndoChanges ==
    ASSUME NEW c, Formed(c), ~c.onInsertRow, NEW i \in 1..NumRows(c),
           Kind(c.rvh[i]) \in {"update", "delete"}
    PROVE  Changes(c, UndoConflict(c, i), i,
                   IF Kind(c.rvh[i]) = "update" THEN ClearUpdated(c.rvh[i])
                   ELSE [c.rvh[i] EXCEPT !.flags = @ \ {"removed"}])
<1> DEFINE new == IF Kind(c.rvh[i]) = "update" THEN ClearUpdated(c.rvh[i])
                  ELSE [c.rvh[i] EXCEPT !.flags = c.rvh[i].flags \ {"removed"}]
           dels == IF Kind(c.rvh[i]) = "update" THEN c.deletedRows ELSE c.deletedRows \ {i}
<1>1. c.rvh[i] \in Row /\ i \in Int
    BY RowsOfCache
<1>2. new \in Row
  <2>1. c.rvh[i].flags \ {"removed"} \in SUBSET Flag
      BY <1>1 DEF Row
  <2> QED BY <1>1, <2>1, RowTypes
<1>3. dels \in SUBSET Nat /\ IsFiniteSet(dels)
    BY FS_Subset DEF Formed, Cache
<1>4. PICK at : at = [c EXCEPT !.cursorPos = i, !.showDeleted = TRUE]
    OBVIOUS
<1>5. at \in Cache /\ at.rvh = c.rvh /\ at.deletedRows = c.deletedRows /\ ~at.onInsertRow
      /\ at.cursorPos = i /\ IsFiniteSet(at.deletedRows)
    BY <1>1, <1>4 DEF Formed, Cache
<1>6. Formed(at) /\ ~at.onInsertRow /\ i \in 1..NumRows(at)
    BY <1>5 DEF Formed, NumRows
<1>7. PICK d : d = [at EXCEPT !.rvh = [at.rvh EXCEPT ![i] = new], !.deletedRows = dels]
    OBVIOUS
<1>8. Changes(at, d, i, new)
  <2> HIDE DEF new, dels
  <2> QED BY <1>2, <1>3, <1>6, <1>7, ChangeOne
<1>9. UndoConflict(c, i) = [d EXCEPT !.cursorPos = c.cursorPos, !.showDeleted = c.showDeleted]
  <2>1. CASE Kind(c.rvh[i]) = "update"
    <3>1. d = UndoUpdate(at)
        BY <1>5, <1>7, <2>1 DEF UndoUpdate, RefreshRow, Cache
    <3> QED BY <1>4, <2>1, <3>1 DEF UndoConflict
  <2>2. CASE Kind(c.rvh[i]) = "delete"
    <3>1. d = UndoDelete(at)
        BY <1>5, <1>7, <2>2 DEF UndoDelete, Cache
    <3> QED BY <1>4, <2>2, <3>1 DEF UndoConflict
  <2> QED BY <2>1, <2>2
<1>10. PICK e : e = [d EXCEPT !.cursorPos = c.cursorPos, !.showDeleted = c.showDeleted]
    OBVIOUS
<1>11. Formed(d) /\ ~d.onInsertRow /\ c.cursorPos \in Int /\ c.showDeleted \in BOOLEAN
    BY <1>8 DEF Changes, Formed, Cache
<1>12. Formed(e) /\ e.rvh = d.rvh /\ ~e.onInsertRow
    BY <1>10, <1>11 DEF Formed, Cache
<1>13. Changes(at, e, i, new)
  <2> HIDE DEF new
  <2> QED BY <1>8, <1>12 DEF Changes, NumRows
<1>14. Changes(c, e, i, new)
  <2> HIDE DEF new
  <2> QED BY <1>5, <1>13, ChangesElsewhere
<1> QED BY <1>9, <1>10, <1>14

\* Undoing an insert takes the last row away, wherever the inserted row is.
LEMMA UndoShortens ==
    ASSUME NEW c, Formed(c), ~c.onInsertRow, NEW i \in 1..NumRows(c),
           Kind(c.rvh[i]) = "insert"
    PROVE  Shortens(c, UndoConflict(c, i))
<1>1. c \in Cache /\ IsFiniteSet(c.deletedRows) /\ c.rvh \in Seq(Row) /\ NumRows(c) = Len(c.rvh)
    BY DEF Formed, Cache, NumRows
<1>2. PICK rows : rows = SubSeq(c.rvh, 1, NumRows(c) - 1)
    OBVIOUS
<1>3. NumRows(c) \in Nat /\ NumRows(c) >= 1
    BY RowsOfCache
<1>4. rows \in Seq(Row) /\ Len(rows) = NumRows(c) - 1
      /\ \A j \in 1..(NumRows(c) - 1) : rows[j] = c.rvh[j]
  <2>1. Len(c.rvh) \in Nat /\ Len(c.rvh) >= 1
      BY <1>1, <1>3
  <2> QED BY <1>1, <1>2, <2>1
<1>5. PICK at : at = [c EXCEPT !.cursorPos = i, !.showDeleted = TRUE]
    OBVIOUS
<1>6. at \in Cache /\ at.rvh = c.rvh /\ NumRows(at) = NumRows(c)
  <2>1. i \in Int
      BY <1>3
  <2>2. at \in Cache /\ at.rvh = c.rvh
      BY <1>1, <1>5, <2>1 DEF Cache
  <2> QED BY <2>2 DEF NumRows
<1>7. PICK d : d = UndoConflict(c, i)
    OBVIOUS
<1>8. d = [UndoInsert(at) EXCEPT !.cursorPos = c.cursorPos, !.showDeleted = c.showDeleted]
    BY <1>5, <1>7 DEF UndoConflict
<1>9. UndoInsert(at) = [at EXCEPT !.rvh = rows]
    BY <1>2, <1>6 DEF UndoInsert
<1>10. d \in Cache /\ d.rvh = rows /\ d.deletedRows = c.deletedRows /\ ~d.onInsertRow
    BY <1>1, <1>4, <1>5, <1>8, <1>9 DEF Cache
<1>11. Formed(d) /\ NumRows(d) = NumRows(c) - 1
    BY <1>1, <1>4, <1>10 DEF Formed, NumRows
<1> QED BY <1>4, <1>7, <1>10, <1>11 DEF Shortens

\* close() touches the number of the row at most.
LEMMA CloseKeeps ==
    ASSUME NEW c, Formed(c), ~c.onInsertRow
    PROVE  /\ Formed(CloseResolver(c)) /\ ~CloseResolver(c).onInsertRow
           /\ CloseResolver(c).rvh = c.rvh
<1>1. CASE c.showDeleted
    BY <1>1 DEF CloseResolver
<1>2. CASE ~c.showDeleted
  <2>1. PICK a : a = AbsolutePos(c.deletedRows, c.cursorPos)
      OBVIOUS
  <2>2. a \in Int
    <3> DEFINE D == {d \in c.deletedRows : 1 <= d /\ d <= c.cursorPos}
    <3>1. IsFiniteSet(D)
        BY FormedFacts, FS_Subset
    <3>2. Cardinality(D) \in Nat
        BY <3>1, FS_CardinalityType
    <3> QED BY <2>1, <3>2 DEF AbsolutePos, Formed, Cache
  <2>3. CloseResolver(c) = [c EXCEPT !.absolutePos = a]
      BY <1>2, <2>1 DEF CloseResolver
  <2> QED BY <2>2, <2>3 DEF Formed, Cache
<1> QED BY <1>1, <1>2

\* setOriginal makes each row original and leaves their number.
LEMMA OriginalRows ==
    ASSUME NEW c, Formed(c), ~c.onInsertRow
    PROVE  /\ Formed(SetOriginal(c)) /\ ~SetOriginal(c).onInsertRow
           /\ NumRows(SetOriginal(c)) = NumRows(c)
           /\ \A i \in 1..NumRows(c) : SetOriginal(c).rvh[i] = MakeRowOriginal(c.rvh[i])
<1>1. PICK rows : rows = [i \in 1..NumRows(c) |-> MakeRowOriginal(c.rvh[i])]
    OBVIOUS
<1>2. NumRows(c) \in Nat /\ \A i \in 1..NumRows(c) : MakeRowOriginal(c.rvh[i]) \in Row
    BY RowsOfCache, MakeRowOriginalType
<1>3. rows \in Seq(Row) /\ Len(rows) = NumRows(c)
      /\ \A i \in 1..NumRows(c) : rows[i] = MakeRowOriginal(c.rvh[i])
    BY <1>1, <1>2
<1>4. PICK d : d = SetOriginal(c)
    OBVIOUS
<1>5. d = [c EXCEPT !.rvh = rows]
    BY <1>1, <1>4 DEF SetOriginal
<1>6. d \in Cache /\ d.rvh = rows /\ d.deletedRows = c.deletedRows /\ ~d.onInsertRow
    BY <1>3, <1>5 DEF Formed, Cache
<1>7. Formed(d) /\ NumRows(d) = NumRows(c)
    BY <1>3, <1>6 DEF Formed, NumRows
<1> QED BY <1>3, <1>4, <1>6, <1>7

\* last() looks at no more than the cursor, after whatever call it ends.
LEMMA LastKeeps ==
    ASSUME NEW c, Formed(c), ~c.onInsertRow
    PROVE  Formed(Last(c)) /\ ~Last(c).onInsertRow /\ Last(c).rvh = c.rvh
BY LastSteers DEF Steers
\* The row set d has the rows of c and one more.
Extends(c, d, row) ==
    /\ Formed(d) /\ ~d.onInsertRow
    /\ NumRows(d) = NumRows(c) + 1
    /\ \A j \in 1..NumRows(d) : d.rvh[j] = IF j = NumRows(d) THEN row ELSE c.rvh[j]

\* insertRow between moveToInsertRow and moveToCurrentRow adds a created row.
LEMMA InsertExtends ==
    ASSUME NEW c, Formed(c), ~c.onInsertRow, NEW buffer \in InsertBuffer
    PROVE  Extends(c, MoveToCurrentRow(InsertRow([MoveToInsertRow(c) EXCEPT !.insertRow = buffer])),
                   [NewRow(buffer.vals) EXCEPT !.flags = {"created"}])
<1>1. PICK row : row = [NewRow(buffer.vals) EXCEPT !.flags = {"created"}]
    OBVIOUS
<1>2. row \in Row
  <2>1. buffer.vals \in Values /\ {"created"} \in SUBSET Flag
      BY DEF InsertBuffer, Flag
  <2> QED BY <1>1, <2>1, NewRowType
<1>3. PICK b : b = [MoveToInsertRow(c) EXCEPT !.insertRow = buffer]
    OBVIOUS
<1>4. b \in Cache /\ b.rvh = c.rvh /\ b.deletedRows = c.deletedRows /\ b.onInsertRow
      /\ b.insertRow = buffer
  <2>1. PICK empty : empty = [c.insertRow EXCEPT !.given = {}]
      OBVIOUS
  <2>2. empty \in InsertBuffer /\ c \in Cache /\ c.cursorPos \in Int /\ -1 \in Int
      BY <2>1 DEF Formed, Cache, InsertBuffer
  <2>3. PICK m : m = [c EXCEPT !.onInsertRow = TRUE, !.currentRow = c.cursorPos,
                               !.cursorPos = -1, !.insertRow = empty]
      OBVIOUS
  <2>4. m = MoveToInsertRow(c)
      BY <2>1, <2>2, <2>3 DEF MoveToInsertRow, Cache
  <2>5. m \in Cache /\ m.rvh = c.rvh /\ m.deletedRows = c.deletedRows /\ m.onInsertRow
      BY <2>2, <2>3 DEF Cache
  <2> QED BY <1>3, <2>4, <2>5 DEF Cache
<1>5. PICK d : d = InsertRow(b)
    OBVIOUS
<1>6. d = [b EXCEPT !.rvh = Append(c.rvh, row)]
    BY <1>1, <1>4, <1>5 DEF InsertRow
<1>7. c.rvh \in Seq(Row) /\ NumRows(c) = Len(c.rvh)
    BY DEF Formed, Cache, NumRows
<1>8. Append(c.rvh, row) \in Seq(Row) /\ Len(Append(c.rvh, row)) = NumRows(c) + 1
      /\ \A j \in 1..(NumRows(c) + 1) :
            Append(c.rvh, row)[j] = IF j = NumRows(c) + 1 THEN row ELSE c.rvh[j]
    BY <1>2, <1>7
<1>9. d \in Cache /\ d.rvh = Append(c.rvh, row) /\ d.deletedRows = c.deletedRows /\ d.onInsertRow
    BY <1>4, <1>6, <1>8 DEF Cache
<1>10. PICK e : e = MoveToCurrentRow(d)
    OBVIOUS
<1>11. e \in Cache /\ e.rvh = Append(c.rvh, row) /\ e.deletedRows = c.deletedRows /\ ~e.onInsertRow
    BY <1>9, <1>10 DEF MoveToCurrentRow, Cache
<1>12. Formed(e) /\ NumRows(e) = NumRows(c) + 1
    BY <1>8, <1>11 DEF Formed, NumRows
<1>13. Extends(c, e, row)
    BY <1>8, <1>11, <1>12 DEF Extends
<1> QED BY <1>1, <1>3, <1>5, <1>10, <1>13

\* populate: the rows of the query, without a mark.
LEMMA PopulateRows ==
    ASSUME NEW n \in Nat, NEW rows \in [1..n -> Values], NEW show \in BOOLEAN
    PROVE  /\ Formed(Populate(rows, show)) /\ ~Populate(rows, show).onInsertRow
           /\ NumRows(Populate(rows, show)) = n
           /\ \A i \in 1..n : Populate(rows, show).rvh[i] = NewRow(rows[i])
<1>1. rows \in Seq(Values) /\ Len(rows) = n
    OBVIOUS
<1>2. PICK new : new = [i \in 1..Len(rows) |-> NewRow(rows[i])]
    OBVIOUS
<1>3. \A i \in 1..n : NewRow(rows[i]) \in Row
  <2>1. {} \in SUBSET Flag
      OBVIOUS
  <2> QED BY <2>1, NewRowType
<1>4. new \in Seq(Row) /\ Len(new) = n /\ \A i \in 1..n : new[i] = NewRow(rows[i])
    BY <1>1, <1>2, <1>3
<1>5. [vals |-> NoValues, given |-> {}] \in InsertBuffer
    BY DEF InsertBuffer, NoValues, Values, Datum
<1>6. PICK d : d = Populate(rows, show)
    OBVIOUS
<1>7. d \in Cache /\ d.rvh = new /\ d.deletedRows = {} /\ ~d.onInsertRow
    BY <1>2, <1>4, <1>5, <1>6 DEF Populate, Cache
<1>8. Formed(d) /\ NumRows(d) = n
    BY <1>4, <1>7, FS_EmptySet DEF Formed, NumRows
<1> QED BY <1>4, <1>6, <1>7, <1>8

----------------------------------------------------------------------------
(* What the marks of a row become. *)

\* An edited row is marked, and keeps what it had.
LEMMA UpdatedRow ==
    ASSUME NEW row \in Row, NEW col \in Column, NEW val \in Datum
    PROVE  /\ SetUpdated(SetColumnObject(row, col, val)).flags = row.flags \cup {"updated"}
           /\ SetUpdated(SetColumnObject(row, col, val)).orig = row.orig
           /\ SetUpdated(SetColumnObject(row, col, val)).changed = row.changed \cup {col}
           /\ SetUpdated(SetColumnObject(row, col, val)).curr[col] = val
           /\ \A k \in Column \ {col} : SetUpdated(SetColumnObject(row, col, val)).curr[k] = row.curr[k]
BY DEF SetUpdated, SetColumnObject, Row, Values

\* The edits dropped.
LEMMA ClearedRow ==
    ASSUME NEW row \in Row
    PROVE  /\ ClearUpdated(row).flags = row.flags \ {"updated"}
           /\ ClearUpdated(row).orig = row.orig
           /\ ClearUpdated(row).changed = {}
BY DEF ClearUpdated, Row

\* A row made original waits for nothing; a removed one is deleted.
LEMMA OriginalFlags ==
    ASSUME NEW row \in Row
    PROVE  /\ MakeRowOriginal(row).flags \cap {"removed", "created", "updated"} = {}
           /\ "deleted" \in MakeRowOriginal(row).flags <=>
                "deleted" \in row.flags \/ "removed" \in row.flags
<1> DEFINE born == IF "created" \in row.flags
                   THEN [ClearChanged(row) EXCEPT !.flags = (@ \cup {"inserted"}) \ {"created"}]
                   ELSE row
           moved == IF "updated" \in born.flags THEN MoveCurrentToOrig(born) ELSE born
<1>1. ClearChanged(row).flags = row.flags \ {"updated"} /\ ClearChanged(row) \in Row
    BY RowTypes DEF ClearChanged, Row
<1>2. /\ born \in Row /\ "created" \notin born.flags
      /\ "removed" \in born.flags <=> "removed" \in row.flags
      /\ "deleted" \in born.flags <=> "deleted" \in row.flags
  <2>1. (ClearChanged(row).flags \cup {"inserted"}) \ {"created"} \in SUBSET Flag
      BY <1>1 DEF Row, Flag
  <2>2. CASE "created" \in row.flags
    <3>1. born = [ClearChanged(row) EXCEPT
                    !.flags = (ClearChanged(row).flags \cup {"inserted"}) \ {"created"}]
        BY <2>2
    <3>2. born.flags = (ClearChanged(row).flags \cup {"inserted"}) \ {"created"}
        BY <1>1, <3>1 DEF Row
    <3>3. born \in Row
        BY <1>1, <2>1, <3>1, RowTypes
    <3> HIDE DEF born
    <3> QED BY <1>1, <3>2, <3>3
  <2>3. CASE "created" \notin row.flags
      BY <2>3
  <2> QED BY <2>2, <2>3
<1> HIDE DEF born
<1>3. MoveCurrentToOrig(born).flags = born.flags \ {"updated"} /\ MoveCurrentToOrig(born) \in Row
    BY <1>2, RowTypes DEF MoveCurrentToOrig, Row
<1>4. /\ moved \in Row /\ moved.flags \cap {"created", "updated"} = {}
      /\ "removed" \in moved.flags <=> "removed" \in row.flags
      /\ "deleted" \in moved.flags <=> "deleted" \in row.flags
    BY <1>2, <1>3
<1> HIDE DEF moved
<1>5. MakeRowOriginal(row) =
        IF "removed" \in moved.flags
        THEN [moved EXCEPT !.flags = (moved.flags \cup {"deleted"}) \ {"removed"}]
        ELSE moved
    BY DEF MakeRowOriginal, moved, born
<1>6. CASE "removed" \in moved.flags
  <2>1. MakeRowOriginal(row).flags = (moved.flags \cup {"deleted"}) \ {"removed"}
      BY <1>4, <1>5, <1>6 DEF Row
  <2> QED BY <1>4, <1>6, <2>1
<1>7. CASE "removed" \notin moved.flags
    BY <1>4, <1>5, <1>7
<1> QED BY <1>6, <1>7
----------------------------------------------------------------------------
(* The bits of deletedRows are rows of the list, so size() counts.         *)

\* No created row has its bit set, and the created rows are the last ones.
Tombs(c) ==
    /\ c.deletedRows \subseteq 1..NumRows(c)
    /\ \A i \in c.deletedRows : "created" \notin c.rvh[i].flags
    /\ \A i, j \in 1..NumRows(c) :
          i < j /\ "created" \in c.rvh[i].flags => "created" \in c.rvh[j].flags

\* There are never fewer than no rows to see.
LEMMA SizeCounts ==
    ASSUME NEW c, Formed(c), Tombs(c)
    PROVE  Size(c) \in Nat
<1>1. NumRows(c) \in Nat /\ Cardinality(c.deletedRows) \in Nat
    BY FormedFacts
<1>2. IsFiniteSet(1..NumRows(c)) /\ Cardinality(1..NumRows(c)) = NumRows(c)
  <2>1. 1 \in Int /\ NumRows(c) \in Int
      BY <1>1
  <2>2. /\ IsFiniteSet(1..NumRows(c))
        /\ Cardinality(1..NumRows(c)) = IF 1 > NumRows(c) THEN 0 ELSE NumRows(c) - 1 + 1
      BY <2>1, FS_Interval
  <2> QED BY <1>1, <2>2
<1>3. Cardinality(c.deletedRows) <= Cardinality(1..NumRows(c))
    BY <1>2, FS_Subset DEF Tombs
<1> QED BY <1>1, <1>2, <1>3 DEF Size

\* Which bits a call changes.
LEMMA CallsKeepBits ==
    ASSUME NEW c, Formed(c), ~c.onInsertRow
    PROVE  /\ \A col, val : UpdateRow(UpdateColumn(c, col, val)).deletedRows = c.deletedRows
           /\ DeleteRow(c).deletedRows = c.deletedRows \cup {c.cursorPos}
           /\ CloseResolver(c).deletedRows = c.deletedRows
           /\ SetOriginal(c).deletedRows = c.deletedRows
           /\ \A i, vals : UpdateKeys(c, i, vals).deletedRows = c.deletedRows
           /\ \A buffer : MoveToCurrentRow(InsertRow(
                  [MoveToInsertRow(c) EXCEPT !.insertRow = buffer])).deletedRows = c.deletedRows
<1>1. c \in Cache
    BY DEF Formed
<1>2. ASSUME NEW col, NEW val
      PROVE  UpdateRow(UpdateColumn(c, col, val)).deletedRows = c.deletedRows
  <2>1. PICK d : d = UpdateColumn(c, col, val)
      OBVIOUS
  <2>2. PICK rows : d = [c EXCEPT !.rvh = rows]
      BY <2>1 DEF UpdateColumn
  <2>3. DOMAIN d = DOMAIN c /\ d.deletedRows = c.deletedRows /\ "deletedRows" \in DOMAIN d
      BY <1>1, <2>2 DEF Cache
  <2>4. PICK more : UpdateRow(d) = [d EXCEPT !.rvh = more]
      BY DEF UpdateRow
  <2>5. UpdateRow(d).deletedRows = d.deletedRows
      BY <2>3, <2>4
  <2> QED BY <2>1, <2>3, <2>5
<1>3. DeleteRow(c).deletedRows = c.deletedRows \cup {c.cursorPos}
    BY <1>1 DEF DeleteRow, Cache
<1>4. CloseResolver(c).deletedRows = c.deletedRows
    BY <1>1 DEF CloseResolver, Cache
<1>5. SetOriginal(c).deletedRows = c.deletedRows
    BY <1>1 DEF SetOriginal, Cache
<1>6. \A i, vals : UpdateKeys(c, i, vals).deletedRows = c.deletedRows
    BY <1>1 DEF UpdateKeys, Cache
<1>7. ASSUME NEW buffer
      PROVE  MoveToCurrentRow(InsertRow(
                  [MoveToInsertRow(c) EXCEPT !.insertRow = buffer])).deletedRows = c.deletedRows
  <2>1. PICK b : b = [MoveToInsertRow(c) EXCEPT !.insertRow = buffer]
      OBVIOUS
  <2>2. PICK m : m = MoveToInsertRow(c)
      OBVIOUS
  <2>3. DOMAIN m = DOMAIN c /\ m.deletedRows = c.deletedRows /\ "deletedRows" \in DOMAIN m
      BY <1>1, <2>2 DEF MoveToInsertRow, Cache
  <2>4. b.deletedRows = c.deletedRows /\ "deletedRows" \in DOMAIN b
      BY <2>1, <2>2, <2>3
  <2>5. PICK d : d = InsertRow(b)
      OBVIOUS
  <2>6. d.deletedRows = c.deletedRows /\ "deletedRows" \in DOMAIN d
      BY <2>4, <2>5 DEF InsertRow
  <2>7. MoveToCurrentRow(d).deletedRows = c.deletedRows
      BY <2>6 DEF MoveToCurrentRow
  <2> QED BY <2>1, <2>5, <2>7
<1> QED BY <1>2, <1>3, <1>4, <1>5, <1>6, <1>7

\* Undoing a delete clears the bit of its row, undoing something else none.
LEMMA UndoKeepsBits ==
    ASSUME NEW c, Formed(c), NEW i \in 1..NumRows(c)
    PROVE  UndoConflict(c, i).deletedRows =
              IF Kind(c.rvh[i]) = "delete" THEN c.deletedRows \ {i} ELSE c.deletedRows
<1>1. c \in Cache /\ Kind(c.rvh[i]) \in {"update", "delete", "insert"}
    BY DEF Formed, Kind
<1>2. PICK at : at = [c EXCEPT !.cursorPos = i, !.showDeleted = TRUE]
    OBVIOUS
<1>3. /\ at.deletedRows = c.deletedRows /\ at.rvh = c.rvh /\ at.cursorPos = i
      /\ DOMAIN at = DOMAIN c /\ "deletedRows" \in DOMAIN c
    BY <1>1, <1>2 DEF Cache
<1>4. PICK d : d = CASE Kind(c.rvh[i]) = "update" -> UndoUpdate(at)
                     [] Kind(c.rvh[i]) = "delete" -> UndoDelete(at)
                     [] Kind(c.rvh[i]) = "insert" -> UndoInsert(at)
    OBVIOUS
<1>5. /\ d.deletedRows = IF Kind(c.rvh[i]) = "delete" THEN c.deletedRows \ {i} ELSE c.deletedRows
      /\ DOMAIN d = DOMAIN c
  <2>1. CASE Kind(c.rvh[i]) = "update"
      BY <1>3, <1>4, <2>1 DEF UndoUpdate, RefreshRow
  <2>2. CASE Kind(c.rvh[i]) = "delete"
      BY <1>3, <1>4, <2>2 DEF UndoDelete
  <2>3. CASE Kind(c.rvh[i]) = "insert"
      BY <1>3, <1>4, <2>3 DEF UndoInsert
  <2> QED BY <1>1, <2>1, <2>2, <2>3
<1>6. UndoConflict(c, i) = [d EXCEPT !.cursorPos = c.cursorPos, !.showDeleted = c.showDeleted]
    BY <1>2, <1>4 DEF UndoConflict
<1> QED BY <1>3, <1>5, <1>6

\* The same rows with the same created ones among them.
LEMMA TombsStay ==
    ASSUME NEW c, NEW d, Tombs(c), d.deletedRows \subseteq c.deletedRows, NumRows(d) = NumRows(c),
           \A i \in 1..NumRows(c) : "created" \in d.rvh[i].flags <=> "created" \in c.rvh[i].flags
    PROVE  Tombs(d)
BY DEF Tombs


----------------------------------------------------------------------------
(* The resolver walks the conflicts as UndoConflicts does in one go.       *)

\* f is what is undone of c when the rows up to each number were looked at.
Undoing(c, failed, f) ==
    /\ f[0] = c
    /\ \A n \in 1..NumRows(c) :
          f[n] = IF n \in failed /\ n <= NumRows(f[n - 1]) THEN UndoConflict(f[n - 1], n)
                                                           ELSE f[n - 1]

\* There is one.
LEMMA UndoingExists ==
    ASSUME NEW c, NumRows(c) \in Nat, NEW failed
    PROVE  \E f : Undoing(c, failed, f)
<1> DEFINE After(d, n) == IF n \in failed /\ n <= NumRows(d) THEN UndoConflict(d, n) ELSE d
           Upto(f, m) == f[0] = c /\ \A n \in 1..m : f[n] = After(f[n - 1], n)
           Missing == {m \in Nat : ~\E f : Upto(f, m)}
<1>1. CASE Missing = {}
  <2>1. \E f : Upto(f, NumRows(c))
      BY <1>1
  <2> QED BY <2>1 DEF Undoing
<1>2. CASE Missing # {}
  <2>1. PICK m \in Missing : \A n \in Missing : m <= n
    <3>1. Missing \in SUBSET Nat
        OBVIOUS
    <3> HIDE DEF Missing
    <3> QED BY <1>2, <3>1, NatLeast
  <2>2. m # 0
    <3>1. Upto([n \in {0} |-> c], 0)
        OBVIOUS
    <3> QED BY <2>1, <3>1
  <2>3. PICK k \in Nat : m = k + 1
    <3>1. m \in Nat /\ m - 1 \in Nat /\ m = (m - 1) + 1
        BY <2>1, <2>2
    <3> QED BY <3>1
  <2>4. PICK g : Upto(g, k)
    <3>1. k \notin Missing
      <4>1. ~(m <= k)
          BY <2>3
      <4> HIDE DEF Missing
      <4> QED BY <2>1, <4>1
    <3> QED BY <3>1
  <2>5. PICK f : f = [n \in 0..m |-> IF n = m THEN After(g[k], m) ELSE g[n]]
      OBVIOUS
  <2>6. f[m] = After(g[k], m) /\ \A n \in 0..k : f[n] = g[n]
    <3>1. m \in 0..m /\ \A n \in 0..k : n \in 0..m /\ n # m
        BY <2>1, <2>3
    <3> HIDE DEF After
    <3> QED BY <2>5, <3>1
  <2>7. Upto(f, m)
    <3>1. f[0] = c
        BY <2>3, <2>4, <2>6
    <3>2. ASSUME NEW n \in 1..m
          PROVE  f[n] = After(f[n - 1], n)
      <4> HIDE DEF After
      <4>1. CASE n = m
        <5>1. n - 1 = k /\ k \in 0..k
            BY <2>3, <4>1
        <5> QED BY <2>6, <4>1, <5>1
      <4>2. CASE n # m
        <5>1. n \in 0..k /\ n - 1 \in 0..k /\ n \in 1..k
            BY <2>3, <4>2
        <5> QED BY <2>4, <2>6, <5>1
      <4> QED BY <4>1, <4>2
    <3> QED BY <3>1, <3>2
  <2> QED BY <2>1, <2>7
<1> QED BY <1>1, <1>2

\* Two that undo the same conflicts agree.
LEMMA UndoingOnce ==
    ASSUME NEW c, NumRows(c) \in Nat, NEW failed, NEW f, Undoing(c, failed, f),
           NEW g, Undoing(c, failed, g)
    PROVE  f[NumRows(c)] = g[NumRows(c)]
<1> DEFINE Apart == {n \in Nat : n <= NumRows(c) /\ f[n] # g[n]}
<1>1. CASE Apart = {}
    BY <1>1
<1>2. CASE Apart # {}
  <2>1. PICK m \in Apart : \A n \in Apart : m <= n
    <3>1. Apart \in SUBSET Nat
        OBVIOUS
    <3> HIDE DEF Apart
    <3> QED BY <1>2, <3>1, NatLeast
  <2>2. m # 0
      BY <2>1 DEF Undoing
  <2>3. m \in 1..NumRows(c) /\ m - 1 \in Nat /\ m - 1 <= NumRows(c) /\ ~(m <= m - 1)
      BY <2>1, <2>2
  <2>4. f[m - 1] = g[m - 1]
      BY <2>1, <2>3
  <2>5. f[m] = g[m]
      BY <2>3, <2>4 DEF Undoing
  <2> QED BY <2>1, <2>5
<1> QED BY <1>1, <1>2

\* So its last place is what UndoConflicts makes of c.
LEMMA UndoingIsUndoConflicts ==
    ASSUME NEW c, NumRows(c) \in Nat, NEW failed, NEW f, Undoing(c, failed, f)
    PROVE  UndoConflicts(c, failed) = f[NumRows(c)]
<1> DEFINE Walks(u) == u = [n \in 0..NumRows(c) |->
                IF n = 0 THEN c
                ELSE IF n \in failed /\ n <= NumRows(u[n - 1])
                     THEN UndoConflict(u[n - 1], n)
                     ELSE u[n - 1]]
<1>1. PICK g : g = [n \in 0..NumRows(c) |-> f[n]]
    OBVIOUS
<1>2. Walks(g)
  <2>1. \A n \in 1..NumRows(c) : n - 1 \in 0..NumRows(c) /\ n \in 0..NumRows(c)
      OBVIOUS
  <2>2. g[0] = c /\ 0 \in 0..NumRows(c)
      BY <1>1 DEF Undoing
  <2>3. \A n \in 1..NumRows(c) : g[n] = IF n \in failed /\ n <= NumRows(g[n - 1])
                     THEN UndoConflict(g[n - 1], n) ELSE g[n - 1]
      BY <1>1, <2>1 DEF Undoing
  <2>4. \A n \in 0..NumRows(c) : n = 0 \/ n \in 1..NumRows(c)
      OBVIOUS
  <2>5. \A n \in 0..NumRows(c) : g[n] = IF n = 0 THEN c
                ELSE IF n \in failed /\ n <= NumRows(g[n - 1])
                     THEN UndoConflict(g[n - 1], n) ELSE g[n - 1]
      BY <2>2, <2>3, <2>4
  <2> QED BY <1>1, <2>5, Zenon
<1>3. PICK u : u = CHOOSE w : Walks(w)
    OBVIOUS
<1>4. Walks(u)
  <2> HIDE DEF Walks
  <2> QED BY <1>2, <1>3, Zenon
<1>5. UndoConflicts(c, failed) = u[NumRows(c)]
    BY <1>3, Zenon DEF UndoConflicts
<1>6. Undoing(c, failed, u)
  <2>1. \A n \in 1..NumRows(c) : n - 1 \in 0..NumRows(c) /\ n \in 0..NumRows(c) /\ n # 0
      OBVIOUS
  <2>2. 0 \in 0..NumRows(c)
      OBVIOUS
  <2>3. \A n \in 0..NumRows(c) : u[n] = IF n = 0 THEN c
                ELSE IF n \in failed /\ n <= NumRows(u[n - 1])
                     THEN UndoConflict(u[n - 1], n) ELSE u[n - 1]
      BY <1>4, Zenon
  <2> HIDE DEF Walks
  <2> QED BY <2>1, <2>2, <2>3 DEF Undoing
<1> QED BY <1>5, <1>6, UndoingOnce

\* Where no conflict is met nothing is undone.
LEMMA UndoingStays ==
    ASSUME NEW c, NumRows(c) \in Nat, NEW failed, NEW f, Undoing(c, failed, f),
           NEW k \in 0..NumRows(c), NEW m \in k..NumRows(c),
           \A n \in (k + 1)..m : n \in failed => n > NumRows(f[k]), NumRows(f[k]) \in Nat
    PROVE  f[m] = f[k]
<1> DEFINE Undone == {n \in Nat : n \in k..m /\ f[n] # f[k]}
<1>1. CASE Undone = {}
    BY <1>1
<1>2. CASE Undone # {}
  <2>1. PICK n \in Undone : \A i \in Undone : n <= i
    <3>1. Undone \in SUBSET Nat
        OBVIOUS
    <3> HIDE DEF Undone
    <3> QED BY <1>2, <3>1, NatLeast
  <2>2. n # k
      BY <2>1
  <2>3. n \in (k + 1)..m /\ n \in 1..NumRows(c) /\ n - 1 \in Nat /\ n - 1 \in k..m /\ ~(n <= n - 1)
      BY <2>1, <2>2
  <2>4. f[n - 1] = f[k]
      BY <2>1, <2>3
  <2>5. ~(n \in failed /\ n <= NumRows(f[n - 1]))
      BY <2>3, <2>4
  <2>6. f[n] = f[n - 1]
      BY <2>3, <2>5 DEF Undoing
  <2> QED BY <2>1, <2>4, <2>6
<1> QED BY <1>1, <1>2

----------------------------------------------------------------------------
(* Counting the rows that are left: RankAt counts those up to a place.     *)

\* The bits of deletedRows are rows of the list.
WellCounted(c) == Formed(c) /\ c.deletedRows \subseteq 1..NumRows(c)

UpTo(c, i) == {j \in Shown(c) : j <= i}
RankAt(c, i) == Cardinality(UpTo(c, i))

\* The rows that are left are finitely many, as many as size() says.
LEMMA LeftRows ==
    ASSUME NEW c, WellCounted(c)
    PROVE  /\ NumRows(c) \in Nat
           /\ Shown(c) \subseteq 1..NumRows(c) /\ Shown(c) \in SUBSET Nat
           /\ IsFiniteSet(Shown(c))
           /\ Size(c) \in Nat /\ Cardinality(Shown(c)) = Size(c) /\ Size(c) <= NumRows(c)
<1> DEFINE N == NumRows(c)
           D == c.deletedRows
<1>1. N \in Nat /\ IsFiniteSet(D) /\ Cardinality(D) \in Nat /\ D \subseteq 1..N
    BY FormedFacts DEF WellCounted
<1>2. IsFiniteSet(1..N) /\ Cardinality(1..N) = N
    BY <1>1, FS_Interval
<1>3. Shown(c) \subseteq 1..N
    BY DEF Shown
<1>4. IsFiniteSet(Shown(c)) /\ Cardinality(Shown(c)) \in Nat /\ Cardinality(Shown(c)) <= N
    BY <1>2, <1>3, FS_Subset, FS_CardinalityType
<1>5. Cardinality(Shown(c)) = Size(c)
  <2>1. CASE c.showDeleted
      BY <1>2, <2>1 DEF Shown, Size
  <2>2. CASE ~c.showDeleted
    <3>1. Shown(c) = (1..N) \ D
        BY <2>2 DEF Shown
    <3>2. Shown(c) \cup D = 1..N /\ Shown(c) \cap D = {}
        BY <1>1, <3>1
    <3>3. Cardinality(Shown(c) \cup D) = Cardinality(Shown(c)) + Cardinality(D) - Cardinality(Shown(c) \cap D)
        BY <1>1, <1>4, FS_Union
    <3>4. N = Cardinality(Shown(c)) + Cardinality(D) - 0
        BY <1>2, <3>2, <3>3, FS_EmptySet
    <3> QED BY <1>1, <1>4, <2>2, <3>4 DEF Size
  <2> QED BY <2>1, <2>2
<1> QED BY <1>1, <1>3, <1>4, <1>5

\* The count up to a place: it grows with the place, from 0 to Size(c).
LEMMA CountFacts ==
    ASSUME NEW c, WellCounted(c), NEW i \in Int
    PROVE  /\ IsFiniteSet(UpTo(c, i)) /\ RankAt(c, i) \in Nat /\ RankAt(c, i) <= Size(c)
           /\ i <= 0 => RankAt(c, i) = 0
           /\ i >= NumRows(c) => RankAt(c, i) = Size(c)
           /\ i \in Shown(c) => RankAt(c, i) >= 1 /\ RankAt(c, i) = RankAt(c, i - 1) + 1
           /\ i \notin Shown(c) => RankAt(c, i) = RankAt(c, i - 1)
<1>1. /\ NumRows(c) \in Nat /\ Shown(c) \subseteq 1..NumRows(c) /\ IsFiniteSet(Shown(c))
      /\ Size(c) = Cardinality(Shown(c))
    BY LeftRows
<1>2. ASSUME NEW j \in Int
      PROVE  IsFiniteSet(UpTo(c, j)) /\ RankAt(c, j) \in Nat /\ RankAt(c, j) <= Size(c)
    BY <1>1, FS_Subset, FS_CardinalityType DEF UpTo, RankAt
<1>3. ASSUME i <= 0 PROVE RankAt(c, i) = 0
  <2>1. UpTo(c, i) = {}
      BY <1>1, <1>3 DEF UpTo
  <2> QED BY <2>1, FS_EmptySet DEF RankAt
<1>4. ASSUME i >= NumRows(c) PROVE RankAt(c, i) = Size(c)
  <2>1. UpTo(c, i) = Shown(c)
      BY <1>1, <1>4 DEF UpTo
  <2> QED BY <1>1, <2>1 DEF RankAt
<1>5. ASSUME i \in Shown(c) PROVE RankAt(c, i) >= 1 /\ RankAt(c, i) = RankAt(c, i - 1) + 1
  <2>1. UpTo(c, i) = UpTo(c, i - 1) \cup {i} /\ i \notin UpTo(c, i - 1)
      BY <1>1, <1>5 DEF UpTo
  <2>2. IsFiniteSet(UpTo(c, i - 1)) /\ RankAt(c, i - 1) \in Nat
      BY <1>2
  <2>3. Cardinality(UpTo(c, i - 1) \cup {i}) = Cardinality(UpTo(c, i - 1)) + 1
      BY <2>1, <2>2, FS_AddElement
  <2> QED BY <2>1, <2>2, <2>3 DEF RankAt
<1>6. ASSUME i \notin Shown(c) PROVE RankAt(c, i) = RankAt(c, i - 1)
  <2>1. UpTo(c, i) = UpTo(c, i - 1)
      BY <1>1, <1>6 DEF UpTo
  <2> QED BY <2>1 DEF RankAt
<1> QED BY <1>2, <1>3, <1>4, <1>5, <1>6

\* Between two places it grows by the rows that are left between them.
LEMMA CountDifference ==
    ASSUME NEW c, WellCounted(c), NEW i \in Int, NEW j \in Int, i <= j
    PROVE  RankAt(c, j) = RankAt(c, i) + Cardinality({x \in Shown(c) : i < x /\ x <= j})
<1> DEFINE B == {x \in Shown(c) : i < x /\ x <= j}
<1>1. Shown(c) \subseteq 1..NumRows(c) /\ NumRows(c) \in Nat /\ IsFiniteSet(Shown(c))
    BY LeftRows
<1>2. IsFiniteSet(B) /\ Cardinality(B) \in Nat /\ IsFiniteSet(UpTo(c, i)) /\ RankAt(c, i) \in Nat
    BY <1>1, FS_Subset, FS_CardinalityType, CountFacts
<1>3. UpTo(c, j) = UpTo(c, i) \cup B /\ UpTo(c, i) \cap B = {}
    BY <1>1 DEF UpTo
<1>4. Cardinality(UpTo(c, i) \cup B) = Cardinality(UpTo(c, i)) + Cardinality(B) - Cardinality(UpTo(c, i) \cap B)
    BY <1>2, FS_Union
<1>5. Cardinality(UpTo(c, i) \cap B) = 0
    BY <1>3, FS_EmptySet
<1> HIDE DEF B
<1>6. RankAt(c, j) = RankAt(c, i) + Cardinality(B)
    BY <1>2, <1>3, <1>4, <1>5 DEF RankAt
<1> QED BY <1>6 DEF B

\* So it does not shrink, grows when a row is met and stays when none is.
LEMMA CountGrowth ==
    ASSUME NEW c, WellCounted(c), NEW i \in Int, NEW j \in Int, i <= j
    PROVE  /\ RankAt(c, i) <= RankAt(c, j)
           /\ j \in Shown(c) /\ i < j => RankAt(c, i) < RankAt(c, j)
           /\ (\A x \in Shown(c) : ~(i < x /\ x <= j)) => RankAt(c, i) = RankAt(c, j)
<1> DEFINE B == {x \in Shown(c) : i < x /\ x <= j}
<1>1. RankAt(c, j) = RankAt(c, i) + Cardinality(B) /\ RankAt(c, i) \in Nat /\ RankAt(c, j) \in Nat
    BY CountDifference, CountFacts
<1>2. IsFiniteSet(B) /\ Cardinality(B) \in Nat
    BY LeftRows, FS_Subset, FS_CardinalityType
<1>3. j \in Shown(c) /\ i < j => B # {}
    BY DEF Shown
<1>4. B # {} => Cardinality(B) # 0
    BY <1>2, FS_EmptySet
<1>5. (\A x \in Shown(c) : ~(i < x /\ x <= j)) => B = {}
    OBVIOUS
<1>6. B = {} => Cardinality(B) = 0
    BY FS_EmptySet
<1> HIDE DEF B
<1> QED BY <1>1, <1>2, <1>3, <1>4, <1>5, <1>6

\* Every count up to Size(c) is that of a row that is left.
LEMMA NthLeft ==
    ASSUME NEW c, WellCounted(c), NEW p \in 1..Size(c)
    PROVE  \E i \in Shown(c) : RankAt(c, i) = p
<1> DEFINE T == {m \in Nat : p <= RankAt(c, m)}
<1>1. NumRows(c) \in Nat /\ Size(c) \in Nat /\ p \in Nat /\ p >= 1 /\ p <= Size(c)
    BY LeftRows
<1>2. RankAt(c, NumRows(c)) = Size(c) /\ RankAt(c, 0) = 0
    BY <1>1, CountFacts
<1>3. PICK m \in T : \A x \in T : m <= x
  <2>1. T \in SUBSET Nat /\ T # {}
      BY <1>1, <1>2
  <2> HIDE DEF T
  <2> QED BY <2>1, NatLeast
<1>4. m \in Nat /\ m # 0 /\ m - 1 \in Nat /\ p <= RankAt(c, m) /\ ~(p <= RankAt(c, m - 1))
  <2>1. m \in Nat /\ m # 0 /\ p <= RankAt(c, m)
      BY <1>1, <1>2, <1>3
  <2>2. m - 1 \in Nat /\ ~(m <= m - 1)
      BY <2>1
  <2> QED BY <1>3, <2>1, <2>2
<1>5. /\ RankAt(c, m) \in Nat /\ RankAt(c, m - 1) \in Nat
      /\ m \in Shown(c) => RankAt(c, m) = RankAt(c, m - 1) + 1
      /\ m \notin Shown(c) => RankAt(c, m) = RankAt(c, m - 1)
  <2>1. m \in Int /\ m - 1 \in Int
      BY <1>4
  <2> QED BY <2>1, CountFacts
<1>6. m \in Shown(c) /\ RankAt(c, m) = p
    BY <1>1, <1>4, <1>5
<1> QED BY <1>6

\* The rows a relative move steps over, counted ahead of the cursor
LEMMA BetweenAhead ==
    ASSUME NEW c, WellCounted(c), c.cursorPos \in Int, NEW i \in Int, i > c.cursorPos
    PROVE  RankAt(c, i) = RankAt(c, c.cursorPos) + Cardinality(Between(c, i))
<1>1. Shown(c) \in SUBSET Nat
    BY LeftRows
<1>2. Between(c, i) = {x \in Shown(c) : c.cursorPos < x /\ x <= i}
    BY <1>1 DEF Between
<1> QED BY <1>2, CountDifference

\* and behind it.
LEMMA BetweenBehind ==
    ASSUME NEW c, WellCounted(c), c.cursorPos \in Int, NEW i \in Shown(c), i < c.cursorPos
    PROVE  RankAt(c, c.cursorPos - 1) = RankAt(c, i) - 1 + Cardinality(Between(c, i))
<1>1. Shown(c) \in SUBSET Nat /\ i \in Int /\ i - 1 \in Int /\ c.cursorPos - 1 \in Int
    BY LeftRows
<1>2. Between(c, i) = {x \in Shown(c) : i - 1 < x /\ x <= c.cursorPos - 1}
    BY <1>1 DEF Between
<1>3. RankAt(c, c.cursorPos - 1) = RankAt(c, i - 1) + Cardinality(Between(c, i))
    BY <1>1, <1>2, CountDifference
<1>4. RankAt(c, i) = RankAt(c, i - 1) + 1 /\ RankAt(c, i - 1) \in Nat /\ RankAt(c, i) \in Nat
    BY <1>1, CountFacts
<1>5. RankAt(c, i - 1) = RankAt(c, i) - 1
    BY <1>4
<1> QED BY <1>3, <1>5

\* relative(n) over the rows that are left: to the row that many further, after
\* the last row when they run out,
LEMMA RelativeForward ==
    ASSUME NEW c, WellCounted(c), c.cursorPos \in 1..NumRows(c), NEW n \in Nat, n >= 1
    PROVE  LET q == RankAt(c, c.cursorPos) + n
           IN  \/ /\ q > Size(c)
                  /\ RelativeWithoutDeleted(c, n) = InternalAfterLast(c)
               \/ \E m \in Shown(c) :
                     /\ RankAt(c, m) = q
                     /\ RelativeWithoutDeleted(c, n) =
                          [c EXCEPT !.cursorPos = m, !.absolutePos = @ + n]
<1> DEFINE p == c.cursorPos
           hit == {i \in Shown(c) :
                     /\ c.cursorPos > 0
                     /\ IF n < 0 THEN i < c.cursorPos /\ Cardinality(Between(c, i)) = -n
                                 ELSE i > c.cursorPos /\ Cardinality(Between(c, i)) = n}
<1>0. PICK q : q = RankAt(c, c.cursorPos) + n
    OBVIOUS
<1>1. /\ NumRows(c) \in Nat /\ p \in Int /\ p >= 1 /\ n \in Int
      /\ Shown(c) \subseteq 1..NumRows(c) /\ Shown(c) \in SUBSET Nat /\ Size(c) \in Nat
    BY LeftRows
<1>2. RankAt(c, p) \in Nat /\ q \in Int /\ q >= 1
    BY <1>0, <1>1, CountFacts
<1>3. ASSUME NEW i \in Shown(c), i > p
      PROVE  Cardinality(Between(c, i)) = n <=> RankAt(c, i) = q
  <2>1. RankAt(c, i) = RankAt(c, p) + Cardinality(Between(c, i))
      BY <1>1, <1>3, BetweenAhead
  <2>2. Cardinality(Between(c, i)) \in Nat
    <3>1. IsFiniteSet(Between(c, i))
        BY LeftRows, FS_Subset DEF Between
    <3> QED BY <3>1, FS_CardinalityType
  <2> QED BY <1>0, <1>2, <2>1, <2>2
<1>4. hit = {i \in Shown(c) : i > p /\ RankAt(c, i) = q}
    BY <1>1, <1>3
<1>5. RelativeWithoutDeleted(c, n) =
        IF hit # {} THEN [c EXCEPT !.cursorPos = Min(hit), !.absolutePos = @ + n]
        ELSE IF n > 0 /\ c.cursorPos > 0 THEN InternalAfterLast(c)
        ELSE BeforeFirst(c)
    BY DEF RelativeWithoutDeleted
<1> HIDE DEF hit
<1>6. CASE hit # {}
  <2>1. PICK m : m = Min(hit)
      OBVIOUS
  <2>2. m \in Shown(c) /\ RankAt(c, m) = q
    <3>1. hit \in SUBSET Nat
        BY <1>1, <1>4
    <3>2. m \in hit
        BY <1>6, <2>1, <3>1, MinOfNat
    <3> QED BY <1>4, <3>2
  <2>3. RelativeWithoutDeleted(c, n) = [c EXCEPT !.cursorPos = m, !.absolutePos = @ + n]
      BY <1>5, <1>6, <2>1
  <2> QED BY <1>0, <2>2, <2>3
<1>7. CASE hit = {}
  <2>1. RelativeWithoutDeleted(c, n) = InternalAfterLast(c)
      BY <1>1, <1>5, <1>7
  <2>2. q > Size(c)
    <3>1. SUFFICES ASSUME q \in 1..Size(c) PROVE FALSE
        BY <1>1, <1>2
    <3>2. PICK i \in Shown(c) : RankAt(c, i) = q
        BY <3>1, NthLeft
    <3>3. i \in Int /\ (i <= p => RankAt(c, i) <= RankAt(c, p))
        BY <1>1, CountGrowth
    <3>4. i > p
        BY <1>0, <1>1, <1>2, <3>2, <3>3
    <3> QED BY <1>4, <1>7, <3>2, <3>4
  <2> QED BY <1>0, <2>1, <2>2
<1> QED BY <1>6, <1>7

\* and back likewise, counted from the place before the cursor.
LEMMA RelativeBackward ==
    ASSUME NEW c, WellCounted(c), c.cursorPos \in 1..NumRows(c), NEW n \in Nat, n >= 1
    PROVE  LET q == RankAt(c, c.cursorPos - 1) - n + 1
           IN  \/ q < 1 /\ RelativeWithoutDeleted(c, -n) = BeforeFirst(c)
               \/ \E m \in Shown(c) :
                     /\ RankAt(c, m) = q
                     /\ RelativeWithoutDeleted(c, -n) =
                          [c EXCEPT !.cursorPos = m, !.absolutePos = @ + (-n)]
<1> DEFINE p == c.cursorPos
           hit == {i \in Shown(c) :
                     /\ c.cursorPos > 0
                     /\ IF -n < 0 THEN i < c.cursorPos /\ Cardinality(Between(c, i)) = -(-n)
                                  ELSE i > c.cursorPos /\ Cardinality(Between(c, i)) = -n}
<1>0. PICK q : q = RankAt(c, c.cursorPos - 1) - n + 1
    OBVIOUS
<1>1. /\ NumRows(c) \in Nat /\ p \in Int /\ p - 1 \in Int /\ p >= 1
      /\ n \in Int /\ -n \in Int /\ -n < 0 /\ -(-n) = n
      /\ Shown(c) \subseteq 1..NumRows(c) /\ Shown(c) \in SUBSET Nat /\ Size(c) \in Nat
    BY LeftRows
<1>2. /\ RankAt(c, p - 1) \in Nat
      /\ q \in Int /\ q <= RankAt(c, p - 1) /\ RankAt(c, p - 1) <= Size(c)
    BY <1>0, <1>1, CountFacts
<1>3. ASSUME NEW i \in Shown(c), i < p
      PROVE  Cardinality(Between(c, i)) = n <=> RankAt(c, i) = q
  <2>1. RankAt(c, p - 1) = RankAt(c, i) - 1 + Cardinality(Between(c, i))
      BY <1>1, <1>3, BetweenBehind
  <2>2. Cardinality(Between(c, i)) \in Nat
    <3>1. IsFiniteSet(Between(c, i))
        BY LeftRows, FS_Subset DEF Between
    <3> QED BY <3>1, FS_CardinalityType
  <2>3. RankAt(c, i) \in Nat
      BY <1>1, CountFacts
  <2> QED BY <1>0, <1>1, <1>2, <2>1, <2>2, <2>3
<1>4. hit = {i \in Shown(c) : i < p /\ RankAt(c, i) = q}
    BY <1>1, <1>3
<1>5. RelativeWithoutDeleted(c, -n) =
        IF hit # {} THEN [c EXCEPT !.cursorPos = Min(hit), !.absolutePos = @ + (-n)]
        ELSE IF -n > 0 /\ c.cursorPos > 0 THEN InternalAfterLast(c)
        ELSE BeforeFirst(c)
    BY DEF RelativeWithoutDeleted
<1> HIDE DEF hit
<1>6. CASE hit # {}
  <2>1. PICK m : m = Min(hit)
      OBVIOUS
  <2>2. m \in Shown(c) /\ RankAt(c, m) = q
    <3>1. hit \in SUBSET Nat
        BY <1>1, <1>4
    <3>2. m \in hit
        BY <1>6, <2>1, <3>1, MinOfNat
    <3> QED BY <1>4, <3>2
  <2>3. RelativeWithoutDeleted(c, -n) = [c EXCEPT !.cursorPos = m, !.absolutePos = @ + (-n)]
      BY <1>5, <1>6, <2>1
  <2> QED BY <1>0, <2>2, <2>3
<1>7. CASE hit = {}
  <2>1. RelativeWithoutDeleted(c, -n) = BeforeFirst(c)
      BY <1>1, <1>5, <1>7
  <2>2. q < 1
    <3>1. SUFFICES ASSUME q \in 1..Size(c) PROVE FALSE
        BY <1>1, <1>2
    <3>2. PICK i \in Shown(c) : RankAt(c, i) = q
        BY <3>1, NthLeft
    <3>3. i \in Int /\ (p <= i => p - 1 <= i /\ p - 1 < i)
        BY <1>1
    <3>4. p <= i => RankAt(c, p - 1) < RankAt(c, i)
        BY <1>1, <3>3, CountGrowth
    <3>5. i < p
        BY <1>1, <1>2, <3>2, <3>3, <3>4
    <3> QED BY <1>4, <1>7, <3>2, <3>5
  <2> QED BY <1>0, <2>1, <2>2
<1> QED BY <1>6, <1>7

\* Where there is a row to see the row set is not empty.
LEMMA ShownIsNotEmpty ==
    ASSUME NEW c, WellCounted(c), NEW k \in Shown(c)
    PROVE  ~IsEmpty(c)
<1>1. k \in Int /\ Size(c) \in Nat
    BY LeftRows
<1>2. RankAt(c, k) \in Nat /\ RankAt(c, k) >= 1 /\ RankAt(c, k) <= Size(c)
    BY <1>1, CountFacts
<1> QED BY <1>1, <1>2 DEF IsEmpty
----------------------------------------------------------------------------
(* Calls that move the cursor.                                             *)

\* d is c with the cursor elsewhere.
Alike(c, d) ==
    /\ d \in Cache
    /\ d.rvh = c.rvh /\ d.deletedRows = c.deletedRows /\ d.showDeleted = c.showDeleted
    /\ d.onInsertRow = c.onInsertRow /\ d.insertRow = c.insertRow

\* The cursor may be put anywhere,
LEMMA AimAlike ==
    ASSUME NEW c \in Cache, NEW p \in Int, NEW a \in Int,
           NEW d, d = [c EXCEPT !.cursorPos = p, !.absolutePos = a]
    PROVE  Alike(c, d) /\ d.cursorPos = p
BY DEF Alike, Cache

\* and once more.
LEMMA AlikeOn ==
    ASSUME NEW c, NEW d, NEW e, Alike(c, d), Alike(d, e)
    PROVE  Alike(c, e)
BY DEF Alike

\* A record is like itself.
LEMMA AlikeSelf ==
    ASSUME NEW c \in Cache
    PROVE  Alike(c, c)
BY DEF Alike

\* The rows to see are rows, and alike records show the same.
LEMMA AlikeFacts ==
    ASSUME NEW c, NEW d, Formed(c), Alike(c, d)
    PROVE  /\ Formed(d) /\ NumRows(d) = NumRows(c) /\ Size(d) = Size(c) /\ Shown(d) = Shown(c)
           /\ IsEmpty(d) <=> IsEmpty(c)
BY DEF Alike, Formed, NumRows, Size, Shown, IsEmpty

\* absolutePos() is a number wherever the cursor is.
LEMMA AbsolutePosType ==
    ASSUME NEW c, Formed(c), NEW p \in Int
    PROVE  AbsolutePos(c.deletedRows, p) \in Int
<1> DEFINE D == {d \in c.deletedRows : 1 <= d /\ d <= p}
<1>1. IsFiniteSet(D)
    BY FormedFacts, FS_Subset
<1>2. Cardinality(D) \in Nat
    BY <1>1, FS_CardinalityType
<1> QED BY <1>2 DEF AbsolutePos

\* beforeFirst, afterLast, next, previous, first and last.
LEMMA StepsAlike ==
    ASSUME NEW c, Formed(c)
    PROVE  /\ Alike(c, BeforeFirst(c)) /\ Alike(c, InternalAfterLast(c)) /\ Alike(c, AfterLast(c))
           /\ Alike(c, InternalNext(c)) /\ Alike(c, InternalPrevious(c))
<1>1. /\ c \in Cache /\ NumRows(c) \in Nat /\ Size(c) \in Int /\ c.absolutePos \in Int
      /\ Shown(c) \subseteq 1..NumRows(c)
    BY FormedFacts DEF Formed, Cache, Shown
<1>2. Alike(c, BeforeFirst(c))
  <2>1. BeforeFirst(c) = [c EXCEPT !.cursorPos = 0, !.absolutePos = 0] /\ 0 \in Int
      BY DEF BeforeFirst
  <2> QED BY <1>1, <2>1, AimAlike
<1>3. Alike(c, InternalAfterLast(c))
  <2>1. PICK p, a : p = NumRows(c) + 1 /\ a = Size(c) + 1
      OBVIOUS
  <2>2. p \in Int /\ a \in Int
      BY <1>1, <2>1
  <2>3. InternalAfterLast(c) = [c EXCEPT !.cursorPos = p, !.absolutePos = a]
      BY <2>1 DEF InternalAfterLast
  <2> QED BY <1>1, <2>2, <2>3, AimAlike
<1>4. Alike(c, AfterLast(c))
    BY <1>1, <1>3, AlikeSelf DEF AfterLast
<1>5. Alike(c, InternalNext(c))
  <2>1. PICK S : S = {i \in Shown(c) : i > c.cursorPos}
      OBVIOUS
  <2>2. S \in SUBSET Nat
      BY <1>1, <2>1
  <2>3. CASE c.cursorPos > NumRows(c) \/ S = {}
      BY <1>1, <1>3, <2>1, <2>3, AlikeSelf DEF InternalNext
  <2>4. CASE ~(c.cursorPos > NumRows(c)) /\ S # {}
    <3>1. PICK m : m = Min(S)
        OBVIOUS
    <3>2. m \in S
        BY <2>2, <2>4, <3>1, MinOfNat
    <3>3. PICK a : a = c.absolutePos + 1
        OBVIOUS
    <3>4. m \in Int /\ a \in Int
        BY <1>1, <2>2, <3>2, <3>3
    <3>5. InternalNext(c) = [c EXCEPT !.cursorPos = m, !.absolutePos = a]
        BY <2>1, <2>4, <3>1, <3>3 DEF InternalNext
    <3> QED BY <1>1, <3>4, <3>5, AimAlike
  <2> QED BY <2>3, <2>4
<1>6. Alike(c, InternalPrevious(c))
  <2>1. PICK S : S = {i \in Shown(c) : i < c.cursorPos}
      OBVIOUS
  <2>2. S \in SUBSET (0..NumRows(c))
      BY <1>1, <2>1
  <2>3. CASE c.cursorPos <= 0 \/ S = {}
      BY <1>1, <1>2, <2>1, <2>3, AlikeSelf DEF InternalPrevious
  <2>4. CASE ~(c.cursorPos <= 0) /\ S # {}
    <3>1. PICK m : m = Max(S)
        OBVIOUS
    <3>2. m \in S
        BY <1>1, <2>2, <2>4, <3>1, MaxOfBounded
    <3>3. PICK a : a = c.absolutePos - 1
        OBVIOUS
    <3>4. m \in Int /\ a \in Int
        BY <1>1, <2>2, <3>2, <3>3
    <3>5. InternalPrevious(c) = [c EXCEPT !.cursorPos = m, !.absolutePos = a]
        BY <2>1, <2>4, <3>1, <3>3 DEF InternalPrevious
    <3> QED BY <1>1, <3>4, <3>5, AimAlike
  <2> QED BY <2>3, <2>4
<1> QED BY <1>2, <1>3, <1>4, <1>5, <1>6

\* first and last are two of these.
LEMMA FirstLastAlike ==
    ASSUME NEW c, Formed(c)
    PROVE  Alike(c, First(c)) /\ Alike(c, Last(c))
<1>1. c \in Cache
    BY DEF Formed
<1>2. Alike(c, First(c))
  <2>1. PICK d : d = BeforeFirst(c)
      OBVIOUS
  <2>2. Alike(c, d) /\ Formed(d)
      BY <2>1, StepsAlike, AlikeFacts
  <2>3. Alike(d, InternalNext(d))
      BY <2>2, StepsAlike
  <2> QED BY <1>1, <2>1, <2>2, <2>3, AlikeOn, AlikeSelf DEF First
<1>3. Alike(c, Last(c))
  <2>1. PICK d : d = InternalAfterLast(c)
      OBVIOUS
  <2>2. Alike(c, d) /\ Formed(d)
      BY <2>1, StepsAlike, AlikeFacts
  <2>3. Alike(d, InternalPrevious(d))
      BY <2>2, StepsAlike
  <2> QED BY <1>1, <2>1, <2>2, <2>3, AlikeOn, AlikeSelf DEF Last
<1> QED BY <1>2, <1>3

\* absolute too; it says so when it lands on a row.
LEMMA AbsoluteAlike ==
    ASSUME NEW c, Formed(c), NEW n \in Int
    PROVE  /\ Alike(c, Absolute(c, n))
           /\ Moved(c, n) => Absolute(c, n).cursorPos \in 1..NumRows(c)
           /\ c.showDeleted /\ n \in Nat =>
                /\ Moved(c, n) <=> n \in 1..NumRows(c)
                /\ Moved(c, n) => Absolute(c, n).cursorPos = n
<1>1. c \in Cache /\ NumRows(c) \in Nat /\ Size(c) \in Int
    BY FormedFacts DEF Formed
<1>2. PICK index : index = IF n < 0 THEN Size(c) + n + 1 ELSE n
    OBVIOUS
<1>3. index \in Int /\ (Moved(c, n) <=> n # 0 /\ index \in 1..Size(c))
    BY <1>1, <1>2 DEF Moved
<1>4. Absolute(c, n) =
        IF n = 0 \/ index <= 0 THEN BeforeFirst(c)
        ELSE IF index > Size(c) THEN InternalAfterLast(c)
        ELSE [c EXCEPT !.cursorPos = IF c.showDeleted THEN index ELSE CursorPos(c, index),
                       !.absolutePos = index]
    BY <1>2 DEF Absolute
<1>5. Moved(c, n) <=> ~(n = 0 \/ index <= 0) /\ ~(index > Size(c))
    BY <1>1, <1>3
<1>6. CASE ~Moved(c, n)
  <2>1. Alike(c, Absolute(c, n))
      BY <1>4, <1>5, <1>6, StepsAlike
  <2>2. c.showDeleted /\ n \in Nat => n \notin 1..NumRows(c)
      BY <1>2, <1>3, <1>6 DEF Size
  <2> QED BY <1>6, <2>1, <2>2
<1>7. CASE Moved(c, n)
  <2>1. PICK p : p = IF c.showDeleted THEN index ELSE CursorPos(c, index)
      OBVIOUS
  <2>2. index \in 1..Size(c)
      BY <1>3, <1>7
  <2>3. p \in 1..NumRows(c)
    <3>1. CASE c.showDeleted
        BY <2>1, <2>2, <3>1 DEF Size
    <3>2. CASE ~c.showDeleted
        BY <2>1, <2>2, <3>2, CursorPosIsNthLeft
    <3> QED BY <3>1, <3>2
  <2>4. p \in Int
      BY <1>1, <2>3
  <2>5. Absolute(c, n) = [c EXCEPT !.cursorPos = p, !.absolutePos = index]
      BY <1>4, <1>5, <1>7, <2>1
  <2>6. Alike(c, Absolute(c, n)) /\ Absolute(c, n).cursorPos = p
      BY <1>1, <1>3, <2>4, <2>5, AimAlike
  <2>7. c.showDeleted /\ n \in Nat => p = n
      BY <1>1, <1>2, <2>1
  <2> QED BY <1>7, <2>3, <2>6, <2>7
<1> QED BY <1>6, <1>7

\* And relative.
LEMMA RelativeAlike ==
    ASSUME NEW c, Formed(c), NEW n \in Int
    PROVE  Alike(c, Relative(c, n))
<1>1. /\ c \in Cache /\ NumRows(c) \in Nat /\ c.absolutePos + n \in Int /\ c.cursorPos + n \in Int
      /\ Shown(c) \subseteq 1..NumRows(c)
    BY FormedFacts DEF Formed, Cache, Shown
<1>2. Alike(c, RelativeWithDeleted(c, n))
  <2>1. PICK p, a : p = c.cursorPos + n /\ a = c.absolutePos + n
      OBVIOUS
  <2>2. PICK d : d = [c EXCEPT !.cursorPos = p, !.absolutePos = a]
      OBVIOUS
  <2>3. Alike(c, d)
      BY <1>1, <2>1, <2>2, AimAlike
  <2>4. RelativeWithDeleted(c, n) \in {d, InternalAfterLast(c), BeforeFirst(c)}
      BY <2>1, <2>2 DEF RelativeWithDeleted
  <2> QED BY <2>3, <2>4, StepsAlike
<1>3. Alike(c, RelativeWithoutDeleted(c, n))
  <2>1. PICK S : S = {i \in Shown(c) :
                   /\ c.cursorPos > 0
                   /\ IF n < 0 THEN i < c.cursorPos /\ Cardinality(Between(c, i)) = -n
                               ELSE i > c.cursorPos /\ Cardinality(Between(c, i)) = n}
      OBVIOUS
  <2>2. S \in SUBSET Nat
    <3>1. S \subseteq Shown(c)
        BY <2>1
    <3> QED BY <1>1, <3>1
  <2>3. CASE S = {}
      BY <2>1, <2>3, StepsAlike DEF RelativeWithoutDeleted
  <2>4. CASE S # {}
    <3>1. PICK m : m = Min(S)
        OBVIOUS
    <3>2. m \in S
        BY <2>2, <2>4, <3>1, MinOfNat
    <3>3. PICK a : a = c.absolutePos + n
        OBVIOUS
    <3>4. m \in Int /\ a \in Int
        BY <1>1, <2>2, <3>2, <3>3
    <3>5. RelativeWithoutDeleted(c, n) = [c EXCEPT !.cursorPos = m, !.absolutePos = a]
        BY <2>1, <2>4, <3>1, <3>3 DEF RelativeWithoutDeleted
    <3> QED BY <1>1, <3>4, <3>5, AimAlike
  <2> QED BY <2>3, <2>4
<1> QED BY <1>1, <1>2, <1>3, AlikeSelf DEF Relative

----------------------------------------------------------------------------
(* A column that tells the rows apart.                                    *)

\* The row has one of the n ids given out, and its edits leave it that.
Named(row, col, n) ==
    /\ row.orig[col] \in 1..n
    /\ row.curr[col] \in {NULL, row.orig[col]}
    /\ col \in row.changed => row.curr[col] = row.orig[col]

\* The methods of Row.java keep the row its id.
LEMMA RowsStayNamed ==
    ASSUME NEW row \in Row, NEW col \in Column, NEW n \in Nat, Named(row, col, n)
    PROVE  /\ ColumnObject(row, col) = row.orig[col]
           /\ \A fs \in SUBSET Flag : Named([row EXCEPT !.flags = fs], col, n)
           /\ SetUpdated(row).orig = row.orig /\ Named(SetUpdated(row), col, n)
           /\ ClearUpdated(row).orig = row.orig /\ Named(ClearUpdated(row), col, n)
           /\ SetColumnObject(row, col, row.orig[col]).orig = row.orig
           /\ Named(SetColumnObject(row, col, row.orig[col]), col, n)
<1>1. col \in Column
    OBVIOUS
<1>2. ColumnObject(row, col) = row.orig[col]
    BY DEF Named, ColumnObject
<1>3. \A fs \in SUBSET Flag : Named([row EXCEPT !.flags = fs], col, n)
    BY DEF Named, Row
<1>4. SetUpdated(row).orig = row.orig /\ Named(SetUpdated(row), col, n)
    BY DEF Named, Row, SetUpdated
<1>5. ClearUpdated(row).orig = row.orig /\ Named(ClearUpdated(row), col, n)
    BY <1>1 DEF Named, Row, ClearUpdated, NoValues
<1>6. /\ SetColumnObject(row, col, row.orig[col]).orig = row.orig
      /\ Named(SetColumnObject(row, col, row.orig[col]), col, n)
    BY <1>1 DEF Named, Row, Values, SetColumnObject
<1> QED BY <1>2, <1>3, <1>4, <1>5, <1>6

\* Made original it still has its id, and an inserted row is marked so.
LEMMA OriginalStaysNamed ==
    ASSUME NEW row \in Row, NEW col \in Column, NEW n \in Nat, Named(row, col, n)
    PROVE  /\ Named(MakeRowOriginal(row), col, n)
           /\ MakeRowOriginal(row).orig[col] = row.orig[col]
           /\ "created" \in row.flags => "inserted" \in MakeRowOriginal(row).flags
<1>0. col \in Column
    OBVIOUS
<1>1. PICK clear : clear = ClearChanged(row)
    OBVIOUS
<1>2. /\ clear \in Row /\ Named(clear, col, n) /\ clear.orig[col] = row.orig[col]
      /\ clear.flags = row.flags \ {"updated"}
  <2>1. clear \in Row
      BY <1>1, RowTypes
  <2>2. clear.flags = row.flags \ {"updated"} /\ clear.changed = {} /\ clear.curr = row.curr
      BY <1>1 DEF ClearChanged, Row
  <2>3. clear.orig[col] = IF row.curr[col] # NULL THEN row.curr[col] ELSE row.orig[col]
      BY <1>0, <1>1 DEF ClearChanged, Row
  <2> QED BY <2>1, <2>2, <2>3 DEF Named
<1>3. PICK born : born = IF "created" \in row.flags
                         THEN [clear EXCEPT !.flags = (clear.flags \cup {"inserted"}) \ {"created"}]
                         ELSE row
    OBVIOUS
<1>4. /\ born \in Row /\ Named(born, col, n) /\ born.orig[col] = row.orig[col]
      /\ "created" \in row.flags => "inserted" \in born.flags
  <2>1. PICK fs : fs = (clear.flags \cup {"inserted"}) \ {"created"}
      OBVIOUS
  <2>2. fs \in SUBSET Flag
      BY <1>2, <2>1 DEF Row, Flag
  <2>3. /\ [clear EXCEPT !.flags = fs] \in Row /\ Named([clear EXCEPT !.flags = fs], col, n)
      BY <1>2, <2>2, RowTypes, RowsStayNamed
  <2>4. /\ [clear EXCEPT !.flags = fs].orig = clear.orig
        /\ [clear EXCEPT !.flags = fs].flags = fs
      BY <1>2 DEF Row
  <2>5. "inserted" \in fs
      BY <2>1
  <2>6. CASE "created" \in row.flags
    <3>1. born = [clear EXCEPT !.flags = fs]
        BY <1>3, <2>1, <2>6
    <3> QED BY <1>2, <2>3, <2>4, <2>5, <3>1
  <2>7. CASE "created" \notin row.flags
      BY <1>3, <2>7
  <2> QED BY <2>6, <2>7
<1>5. PICK moved : moved = IF "updated" \in born.flags THEN MoveCurrentToOrig(born) ELSE born
    OBVIOUS
<1>6. /\ moved \in Row /\ Named(moved, col, n) /\ moved.orig[col] = row.orig[col]
      /\ "inserted" \in born.flags => "inserted" \in moved.flags
  <2>1. PICK m : m = MoveCurrentToOrig(born)
      OBVIOUS
  <2>2. m \in Row /\ m.flags = born.flags \ {"updated"} /\ m.changed = {}
      BY <1>4, <2>1, RowTypes DEF MoveCurrentToOrig, Row
  <2>3. PICK S : S = {k \in born.changed : born.curr[k] # NULL}
      OBVIOUS
  <2>4. /\ m.orig = [k \in Column |-> IF k \in S THEN born.curr[k] ELSE born.orig[k]]
        /\ m.curr = [k \in Column |-> IF k \in S THEN NULL ELSE born.curr[k]]
      BY <1>4, <2>1, <2>3 DEF MoveCurrentToOrig, Row
  <2>5. /\ m.orig[col] = IF col \in S THEN born.curr[col] ELSE born.orig[col]
        /\ m.curr[col] = IF col \in S THEN NULL ELSE born.curr[col]
      BY <1>0, <2>4
  <2>6. col \in S => born.curr[col] = born.orig[col]
      BY <1>4, <2>3 DEF Named
  <2>7. Named(m, col, n) /\ m.orig[col] = row.orig[col]
      BY <1>4, <2>2, <2>5, <2>6 DEF Named
  <2> QED BY <1>4, <1>5, <2>1, <2>2, <2>7
<1>7. PICK fs : fs = (moved.flags \cup {"deleted"}) \ {"removed"}
    OBVIOUS
<1>8. MakeRowOriginal(row) = IF "removed" \in moved.flags THEN [moved EXCEPT !.flags = fs] ELSE moved
  <2>1. born = IF "created" \in row.flags
               THEN [ClearChanged(row) EXCEPT !.flags = (@ \cup {"inserted"}) \ {"created"}]
               ELSE row
      BY <1>1, <1>3
  <2> QED BY <1>5, <1>7, <2>1 DEF MakeRowOriginal
<1>9. fs \in SUBSET Flag /\ ("inserted" \in moved.flags => "inserted" \in fs)
    BY <1>6, <1>7 DEF Row, Flag
<1>10. /\ Named([moved EXCEPT !.flags = fs], col, n)
       /\ [moved EXCEPT !.flags = fs].orig = moved.orig /\ [moved EXCEPT !.flags = fs].flags = fs
    BY <1>6, <1>9, RowsStayNamed DEF Row
<1> QED BY <1>4, <1>6, <1>8, <1>9, <1>10
=============================================================================
