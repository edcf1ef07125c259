----------------------- MODULE CachedRowSetMainProofs -----------------------
(***************************************************************************)
(* What holds of CachedRowSetMain for any number of rows, inserts and      *)
(* edits: the rows it counts and marks are those of the row set below it,  *)
(* and a client that goes to its row first is on the row it thinks.        *)
(***************************************************************************)
EXTENDS CachedRowSetMain, RowSetBaseProofs

(* The deleted rows are shown below and hidden here.                       *)

\* The row set as the client of this class sees it.
Hidden(c) == [c EXCEPT !.showDeleted = FALSE]

\* The rows that are left.
Left(c) == 1..NumRows(c) \ c.deletedRows

\* Hiding the deleted rows changes what is counted.
LEMMA HiddenFacts ==
    ASSUME NEW c, WellCounted(c), NEW h, h = Hidden(c)
    PROVE  /\ WellCounted(h) /\ ~h.showDeleted
           /\ NumRows(h) = NumRows(c) /\ NumRows(c) \in Nat
           /\ h.deletedRows = c.deletedRows
           /\ Shown(h) = Left(c)
           /\ Size(h) = NumRows(c) - Cardinality(c.deletedRows) /\ Size(h) \in Nat
           /\ Cardinality(Left(c)) = Size(h)
<1>1. c \in Cache /\ IsFiniteSet(c.deletedRows) /\ c.deletedRows \subseteq 1..NumRows(c)
    BY DEF WellCounted, Formed
<1>2. h \in Cache /\ h.deletedRows = c.deletedRows /\ h.rvh = c.rvh /\ h.showDeleted = FALSE
    BY <1>1 DEF Hidden, Cache
<1>3. NumRows(h) = NumRows(c)
    BY <1>2 DEF NumRows
<1>4. WellCounted(h)
    BY <1>1, <1>2, <1>3 DEF WellCounted, Formed
<1>5. Shown(h) = Left(c) /\ Size(h) = NumRows(c) - Cardinality(c.deletedRows)
    BY <1>2, <1>3 DEF Shown, Left, Size
<1>6. NumRows(h) \in Nat /\ Size(h) \in Nat /\ Cardinality(Shown(h)) = Size(h)
    BY <1>4, LeftRows
<1> QED BY <1>2, <1>3, <1>4, <1>5, <1>6

\* absolutePos() of a place in the list counts the rows left up to it.
LEMMA NumberIsRank ==
    ASSUME NEW c, WellCounted(c), NEW h, h = Hidden(c), NEW i \in 0..NumRows(c)
    PROVE  AbsolutePos(c.deletedRows, i) = RankAt(h, i)
<1> DEFINE D == {d \in c.deletedRows : 1 <= d /\ d <= i}
           U == UpTo(h, i)
<1>1. /\ WellCounted(h) /\ NumRows(c) \in Nat /\ Shown(h) = 1..NumRows(c) \ c.deletedRows
      /\ IsFiniteSet(c.deletedRows) /\ c.deletedRows \subseteq 1..NumRows(c)
    BY HiddenFacts DEF Left, WellCounted, Formed
<1>2. i \in Nat /\ i \in Int /\ i <= NumRows(c)
    BY <1>1
<1>3. IsFiniteSet(U) /\ Cardinality(U) \in Nat /\ RankAt(h, i) = Cardinality(U)
    BY <1>1, <1>2, CountFacts DEF RankAt
<1>4. IsFiniteSet(D) /\ Cardinality(D) \in Nat
    BY <1>1, FS_Subset, FS_CardinalityType
<1>5. U \cup D = 1..i /\ U \cap D = {}
    BY <1>1, <1>2 DEF UpTo
<1>6. Cardinality(1..i) = i
  <2>1. 1 \in Int /\ (1 > i => i = 0) /\ i - 1 + 1 = i
      BY <1>2
  <2> QED BY <1>2, <2>1, FS_Interval
<1>7. Cardinality(U \cup D) = Cardinality(U) + Cardinality(D) - Cardinality(U \cap D)
    BY <1>3, <1>4, FS_Union
<1>8. Cardinality(U \cap D) = 0
    BY <1>5, FS_EmptySet
<1>9. i = Cardinality(U) + Cardinality(D)
  <2> HIDE DEF U, D
  <2>1. Cardinality(U \cup D) = i
      BY <1>5, <1>6, Zenon
  <2> QED BY <1>3, <1>4, <1>7, <1>8, <2>1
<1>10. AbsolutePos(c.deletedRows, i) = i - Cardinality(D)
    BY DEF AbsolutePos
<1> HIDE DEF U, D
<1> QED BY <1>2, <1>3, <1>4, <1>9, <1>10

\* After the last row it is one more than the rows that are left.
LEMMA NumberAfterLast ==
    ASSUME NEW c, WellCounted(c)
    PROVE  /\ AbsolutePos(c.deletedRows, NumRows(c) + 1) = NumRows(c) - Cardinality(c.deletedRows) + 1
           /\ AbsolutePos(c.deletedRows, 0) = 0
<1>1. NumRows(c) \in Nat /\ c.deletedRows \subseteq 1..NumRows(c)
    BY LeftRows DEF WellCounted
<1>2. {d \in c.deletedRows : 1 <= d /\ d <= NumRows(c) + 1} = c.deletedRows
    BY <1>1
<1>3. Cardinality(c.deletedRows) \in Nat
    BY FS_CardinalityType DEF WellCounted, Formed
<1>4. {d \in c.deletedRows : 1 <= d /\ d <= 0} = {}
    BY <1>1
<1>5. AbsolutePos(c.deletedRows, 0) = 0
    BY <1>4, FS_EmptySet DEF AbsolutePos
<1>6. AbsolutePos(c.deletedRows, NumRows(c) + 1) = (NumRows(c) + 1) - Cardinality(c.deletedRows)
  <2>1. PICK n : n = NumRows(c) + 1
      OBVIOUS
  <2>2. AbsolutePos(c.deletedRows, n) = n - Cardinality({d \in c.deletedRows : 1 <= d /\ d <= n})
      BY DEF AbsolutePos
  <2>3. {d \in c.deletedRows : 1 <= d /\ d <= n} = c.deletedRows
      BY <1>2, <2>1
  <2> QED BY <2>1, <2>2, <2>3, Zenon
<1> QED BY <1>1, <1>3, <1>5, <1>6

\* A place where the client may be: in the list and left, or off one of its ends.
Place(c, p) == p \in 0..(NumRows(c) + 1) /\ p \notin c.deletedRows

\* Its number,
LEMMA PlaceNumber ==
    ASSUME NEW c, WellCounted(c), NEW p, Place(c, p)
    PROVE  /\ AbsolutePos(c.deletedRows, p) \in Nat
           /\ \A i \in 0..(NumRows(c) + 1) :
                i < p => AbsolutePos(c.deletedRows, i) < AbsolutePos(c.deletedRows, p)
<1>1. PICK h : h = Hidden(c)
    OBVIOUS
<1>2. /\ WellCounted(h) /\ NumRows(c) \in Nat /\ Shown(h) = Left(c) /\ Size(h) \in Nat
      /\ Size(h) = NumRows(c) - Cardinality(c.deletedRows)
    BY <1>1, HiddenFacts
<1>3. p \in Nat /\ p <= NumRows(c) + 1 /\ p \notin c.deletedRows
    BY <1>2 DEF Place
<1>4. \A i \in 0..NumRows(c) : /\ AbsolutePos(c.deletedRows, i) = RankAt(h, i)
                               /\ RankAt(h, i) \in Nat /\ RankAt(h, i) <= Size(h)
    BY <1>1, <1>2, NumberIsRank, CountFacts
<1>5. CASE p = NumRows(c) + 1
  <2>1. AbsolutePos(c.deletedRows, p) = Size(h) + 1
      BY <1>2, <1>5, NumberAfterLast
  <2>2. \A i \in 0..(NumRows(c) + 1) : i < p => i \in 0..NumRows(c)
      BY <1>2, <1>5
  <2>3. ASSUME NEW i \in 0..(NumRows(c) + 1), i < p
        PROVE  AbsolutePos(c.deletedRows, i) < AbsolutePos(c.deletedRows, p)
    <3>1. AbsolutePos(c.deletedRows, i) \in Nat /\ AbsolutePos(c.deletedRows, i) <= Size(h)
        BY <1>4, <2>2, <2>3
    <3> QED BY <1>2, <2>1, <3>1
  <2> QED BY <1>2, <2>1, <2>3
<1>6. CASE p <= NumRows(c)
  <2>1. p \in 0..NumRows(c) /\ p \in Int
      BY <1>2, <1>3, <1>6
  <2>2. ASSUME NEW i \in 0..(NumRows(c) + 1), i < p
        PROVE  AbsolutePos(c.deletedRows, i) < AbsolutePos(c.deletedRows, p)
    <3>1. i \in 0..NumRows(c) /\ i \in Int /\ p \in 1..NumRows(c) /\ i <= p
        BY <1>2, <1>3, <1>6, <2>2
    <3>2. p \in Shown(h)
        BY <1>2, <1>3, <3>1 DEF Left
    <3>3. RankAt(h, i) < RankAt(h, p)
        BY <1>2, <2>1, <2>2, <3>1, <3>2, CountGrowth
    <3> QED BY <1>4, <2>1, <3>1, <3>3
  <2> QED BY <1>4, <2>1, <2>2
<1> QED BY <1>2, <1>3, <1>5, <1>6

\* and cursorPos(row) of that number is the place again.
LEMMA PlaceFound ==
    ASSUME NEW c, WellCounted(c), NEW p, Place(c, p), NEW e, e.deletedRows = c.deletedRows
    PROVE  CursorPos(e, AbsolutePos(c.deletedRows, p)) = p
<1> DEFINE A(i) == AbsolutePos(c.deletedRows, i)
           k == Cardinality(c.deletedRows)
           F == {i \in A(p)..(A(p) + k) : A(i) = A(p)}
<1>1. /\ NumRows(c) \in Nat /\ k \in Nat /\ p \in Nat /\ p <= NumRows(c) + 1
      /\ A(p) \in Nat /\ Formed(c)
    BY LeftRows, PlaceNumber, FormedFacts DEF WellCounted, Place
<1>2. A(p) <= p /\ p <= A(p) + k
    BY <1>1, AbsolutePosBounds
<1>3. \A i \in 0..(NumRows(c) + 1) : i < p => A(i) < A(p)
    BY PlaceNumber
<1> HIDE DEF A
<1>4. F \in SUBSET Nat /\ p \in F
    BY <1>1, <1>2
<1>5. \A i \in F : ~(i < p)
  <2>1. SUFFICES ASSUME NEW i \in F, i < p PROVE FALSE
      OBVIOUS
  <2>2. i \in 0..(NumRows(c) + 1) /\ A(i) = A(p)
      BY <1>1, <1>4, <2>1
  <2> QED BY <1>1, <1>3, <2>1, <2>2
<1>6. Min(F) \in F /\ Min(F) <= p
  <2> HIDE DEF F
  <2> QED BY <1>4, MinOfNat
<1>7. Min(F) = p
  <2>1. Min(F) \in Nat /\ ~(Min(F) < p)
      BY <1>4, <1>5, <1>6
  <2> QED BY <1>1, <1>6, <2>1
<1>8. CursorPos(e, A(p)) = Min(F)
    BY DEF CursorPos, A
<1> QED BY <1>7, <1>8 DEF A

----------------------------------------------------------------------------
(* What the class keeps of the row set below, and what its moves do to it. *)

\* Rows and deleted rows are counted twice alike, and the row number is a number.
Counted ==
    /\ WellCounted(crs) /\ crs.showDeleted /\ NumRows(crs) <= MaxRows
    /\ CountsAgree
    /\ absolutePos \in Int

\* The cursor of c is on a place where the client may be, and pos is its number.
Placed(c, pos) ==
    Place(c, c.cursorPos) /\ pos = AbsolutePos(c.deletedRows, c.cursorPos)

\* The bookkeeping, as it is while the two agree.
LEMMA OwnFacts ==
    ASSUME Counted
    PROVE  /\ Formed(crs) /\ crs \in Cache /\ NumRows(crs) \in Nat
           /\ Size(crs) = NumRows(crs) /\ (IsEmpty(crs) <=> NumRows(crs) = 0)
           /\ OwnSize = NumRows(crs) - Cardinality(crs.deletedRows)
           /\ OwnSize \in Nat /\ OwnSize <= NumRows(crs) /\ Cardinality(Left(crs)) = OwnSize
           /\ AfterLastPos = OwnSize + 1
           /\ AfterLastPos = AbsolutePos(crs.deletedRows, NumRows(crs) + 1)
           /\ crs.deletedRows \subseteq 1..NumRows(crs)
<1>1. /\ WellCounted(crs) /\ crs.showDeleted /\ numRows = NumRows(crs)
      /\ deletedRows = crs.deletedRows
    BY DEF Counted, CountsAgree
<1>2. PICK h : h = Hidden(crs)
    OBVIOUS
<1>3. /\ Size(h) = NumRows(crs) - Cardinality(crs.deletedRows) /\ Size(h) \in Nat
      /\ NumRows(crs) \in Nat /\ Cardinality(Left(crs)) = Size(h)
    BY <1>1, <1>2, HiddenFacts
<1>4. Cardinality(crs.deletedRows) \in Nat
    BY <1>1, FormedFacts DEF WellCounted
<1>5. OwnSize = Size(h) /\ OwnSize <= NumRows(crs)
    BY <1>1, <1>3, <1>4 DEF OwnSize
<1>6. Size(crs) = NumRows(crs)
    BY <1>1 DEF Size
<1>7. AfterLastPos = OwnSize + 1 /\ AfterLastPos = AbsolutePos(crs.deletedRows, NumRows(crs) + 1)
    BY <1>1, <1>3, <1>5, NumberAfterLast DEF AfterLastPos
<1> QED BY <1>1, <1>3, <1>5, <1>6, <1>7 DEF WellCounted, Formed, IsEmpty

\* absolutePos and cursorPos of the class, there and back.
LEMMA OwnPlaces ==
    ASSUME Counted
    PROVE  /\ \A p : Place(crs, p) => Cursor(AbsolutePos(crs.deletedRows, p)) = p
           /\ Place(crs, 0) /\ AbsolutePos(crs.deletedRows, 0) = 0 /\ Cursor(0) = 0
           /\ \A i \in Left(crs) : Place(crs, i) /\ PosOf(i) = AbsolutePos(crs.deletedRows, i)
           /\ PosOf(0) = 0 /\ \A i \in crs.deletedRows : PosOf(i) = 0
           /\ \A i \in Int : PosOf(i) \in Int
<1>1. /\ WellCounted(crs) /\ numRows = NumRows(crs) /\ deletedRows = crs.deletedRows
      /\ NumRows(crs) \in Nat /\ OwnSize \in Nat /\ AfterLastPos = OwnSize + 1
      /\ crs.deletedRows \subseteq 1..NumRows(crs) /\ Formed(crs)
    BY OwnFacts DEF Counted, CountsAgree
<1>2. ASSUME NEW p, Place(crs, p)
      PROVE  Cursor(AbsolutePos(crs.deletedRows, p)) = p
  <2>1. PICK e : e = [deletedRows |-> deletedRows]
      OBVIOUS
  <2>2. e.deletedRows = crs.deletedRows
      BY <1>1, <2>1
  <2>3. CursorPos(e, AbsolutePos(crs.deletedRows, p)) = p
      BY <1>1, <1>2, <2>2, PlaceFound
  <2> QED BY <2>1, <2>3 DEF Cursor
<1>3. Place(crs, 0) /\ AbsolutePos(crs.deletedRows, 0) = 0
    BY <1>1, NumberAfterLast DEF Place
<1>4. Cursor(0) = 0
    BY <1>2, <1>3
<1>5. ASSUME NEW i \in Left(crs)
      PROVE  Place(crs, i) /\ PosOf(i) = AbsolutePos(crs.deletedRows, i)
  <2>1. i \in 1..NumRows(crs) /\ i \notin crs.deletedRows
      BY DEF Left
  <2>2. ~(i <= 0) /\ ~(i > NumRows(crs)) /\ i \in 0..(NumRows(crs) + 1)
      BY <1>1, <2>1
  <2> QED BY <1>1, <2>1, <2>2 DEF Place, PosOf
<1>6. PosOf(0) = 0
    BY DEF PosOf
<1>7. ASSUME NEW i \in crs.deletedRows PROVE PosOf(i) = 0
  <2>1. i \in 1..NumRows(crs)
      BY <1>1
  <2>2. ~(i <= 0) /\ ~(i > NumRows(crs))
      BY <1>1, <2>1
  <2> QED BY <1>1, <2>2 DEF PosOf
<1>8. ASSUME NEW i \in Int PROVE PosOf(i) \in Int
  <2>1. AbsolutePos(crs.deletedRows, i) \in Int
      BY <1>1, AbsolutePosType
  <2> QED BY <1>1, <2>1 DEF PosOf
<1> QED BY <1>2, <1>3, <1>4, <1>5, <1>6, <1>7, <1>8

\* The row with a number from 1 to the count is one that is left.
LEMMA NumberedRow ==
    ASSUME Counted, NEW r \in 1..OwnSize
    PROVE  /\ Cursor(r) \in Left(crs)
           /\ AbsolutePos(crs.deletedRows, Cursor(r)) = r
<1>1. PICK h : h = Hidden(crs)
    OBVIOUS
<1>2. /\ WellCounted(h) /\ ~h.showDeleted /\ h.deletedRows = crs.deletedRows
      /\ NumRows(h) = NumRows(crs) /\ Size(h) = OwnSize
    BY <1>1, HiddenFacts, OwnFacts DEF Counted
<1>3. PICK p : p = CursorPos(h, r)
    OBVIOUS
<1>4. p \in 1..NumRows(h) /\ p \notin h.deletedRows /\ AbsolutePos(h.deletedRows, p) = r
    BY <1>2, <1>3, CursorPosIsNthLeft DEF WellCounted
<1>5. Cursor(r) = p
  <2>1. deletedRows = h.deletedRows
      BY <1>2 DEF Counted, CountsAgree
  <2> QED BY <1>3, <2>1 DEF Cursor, CursorPos
<1> QED BY <1>2, <1>4, <1>5 DEF Left

\* A step that moves the cursor and the row number only.
Travels ==
    /\ Alike(crs, crs') /\ absolutePos' \in Int
    /\ mOnInsert' \in {mOnInsert, FALSE}
    /\ UNCHANGED <<numRows, deletedRows, mRowInserted, issued>>

\* What such a step leaves.
LEMMA TravelFacts ==
    ASSUME Counted, Travels
    PROVE  /\ Counted'
           /\ NumRows(crs') = NumRows(crs) /\ crs'.deletedRows = crs.deletedRows
           /\ \A p : Place(crs', p) <=> Place(crs, p)
<1>1. PICK d : d = crs'
    OBVIOUS
<1>2. /\ Formed(d) /\ NumRows(d) = NumRows(crs) /\ d.deletedRows = crs.deletedRows
      /\ d.showDeleted = crs.showDeleted
    BY <1>1, OwnFacts, AlikeFacts DEF Travels, Alike
<1>3. \A p : Place(d, p) <=> Place(crs, p)
    BY <1>2 DEF Place
<1>4. WellCounted(d)
    BY <1>2 DEF Counted, WellCounted
<1>5. Counted'
    BY <1>1, <1>2, <1>4 DEF Counted, CountsAgree, Travels
<1> QED BY <1>1, <1>2, <1>3, <1>5

\* The moves of this class are such steps,
LEMMA ToTravels ==
    ASSUME NEW c, NEW pos \in Int, Alike(crs, c), To(c, pos)
    PROVE  Travels /\ crs' = c /\ absolutePos' = pos
BY DEF To, Go, Travels

\* and so is one that does nothing.
LEMMA StayTravels ==
    ASSUME Counted, Stay
    PROVE  Travels /\ crs' = crs /\ absolutePos' = absolutePos
<1>1. crs \in Cache
    BY OwnFacts
<1>2. Alike(crs, crs)
    BY <1>1, AlikeSelf
<1> QED BY <1>2 DEF Stay, baseVars, own, Travels, Counted

\* beforeFirst and afterLast.
LEMMA EndsPlaced ==
    ASSUME Counted
    PROVE  /\ ToBeforeFirst => Travels /\ Placed(crs', absolutePos')
           /\ ToAfterLast => /\ Travels
                             /\ IF OwnSize = 0 THEN crs' = crs /\ absolutePos' = absolutePos
                                ELSE Placed(crs', absolutePos')
<1>1. /\ Formed(crs) /\ NumRows(crs) \in Nat /\ Size(crs) = NumRows(crs)
      /\ (IsEmpty(crs) <=> NumRows(crs) = 0)
      /\ OwnSize \in Nat /\ OwnSize <= NumRows(crs) /\ AfterLastPos = OwnSize + 1
      /\ AfterLastPos = AbsolutePos(crs.deletedRows, NumRows(crs) + 1)
      /\ crs.deletedRows \subseteq 1..NumRows(crs) /\ crs \in Cache
    BY OwnFacts
<1>2. ASSUME ToBeforeFirst PROVE Travels /\ Placed(crs', absolutePos')
  <2>1. PICK d : d = BeforeFirst(crs)
      OBVIOUS
  <2>2. Alike(crs, d) /\ 0 \in Int
      BY <1>1, <2>1, StepsAlike
  <2>6. d.cursorPos = 0
      BY <1>1, <2>1 DEF BeforeFirst, Cache
  <2>3. Travels /\ crs' = d /\ absolutePos' = 0
      BY <1>2, <2>1, <2>2, ToTravels DEF ToBeforeFirst
  <2>4. Place(d, 0) /\ AbsolutePos(d.deletedRows, 0) = 0
      BY <2>3, TravelFacts, OwnPlaces
  <2>5. Placed(d, 0)
      BY <2>4, <2>6 DEF Placed
  <2> QED BY <2>3, <2>5
<1>3. ASSUME ToAfterLast, OwnSize = 0
      PROVE  Travels /\ crs' = crs /\ absolutePos' = absolutePos
    BY <1>3, StayTravels DEF ToAfterLast
<1>4. ASSUME ToAfterLast, OwnSize # 0 PROVE Travels /\ Placed(crs', absolutePos')
  <2>1. PICK d : d = InternalAfterLast(crs)
      OBVIOUS
  <2>2. d = AfterLast(crs)
      BY <1>1, <1>4, <2>1 DEF AfterLast
  <2>3. Alike(crs, d) /\ AfterLastPos \in Int
      BY <1>1, <2>1, StepsAlike
  <2>9. d.cursorPos = NumRows(crs) + 1
      BY <1>1, <2>1 DEF InternalAfterLast, Cache
  <2>4. Travels /\ crs' = d /\ absolutePos' = AfterLastPos
      BY <1>4, <2>2, <2>3, ToTravels DEF ToAfterLast
  <2>5. PICK p : p = NumRows(crs) + 1
      OBVIOUS
  <2>6. Place(crs, p)
      BY <1>1, <2>5 DEF Place
  <2>7. Place(d, p) /\ AbsolutePos(d.deletedRows, p) = AfterLastPos
      BY <1>1, <2>4, <2>5, <2>6, TravelFacts
  <2>8. Placed(d, AfterLastPos)
      BY <2>5, <2>7, <2>9 DEF Placed
  <2> QED BY <2>4, <2>8
<1> QED BY <1>2, <1>3, <1>4

\* On a list shown whole, first and last go to its ends.
LEMMA FirstLastRows ==
    ASSUME NEW c, Formed(c), c.showDeleted, NumRows(c) >= 1
    PROVE  First(c).cursorPos = 1 /\ Last(c).cursorPos = NumRows(c)
<1>1. /\ c \in Cache /\ NumRows(c) \in Nat /\ Size(c) = NumRows(c) /\ ~IsEmpty(c)
      /\ Shown(c) = 1..NumRows(c)
    BY FormedFacts DEF Formed, Size, IsEmpty, Shown
<1>2. First(c).cursorPos = 1
  <2>1. PICK d : d = BeforeFirst(c)
      OBVIOUS
  <2>2. d \in Cache /\ d.rvh = c.rvh /\ d.showDeleted
      BY <2>1, StepsAlike DEF Alike
  <2>12. d.cursorPos = 0
      BY <1>1, <2>1 DEF BeforeFirst, Cache
  <2>3. NumRows(d) = NumRows(c) /\ Shown(d) = 1..NumRows(c)
      BY <1>1, <2>2 DEF NumRows, Shown
  <2>4. PICK S : S = {i \in Shown(d) : i > d.cursorPos}
      OBVIOUS
  <2>5. S = 1..NumRows(c)
      BY <1>1, <2>12, <2>3, <2>4
  <2>6. S \in SUBSET Nat /\ 1 \in S
      BY <1>1, <2>5
  <2>7. Min(S) \in S /\ Min(S) <= 1
      BY <2>6, MinOfNat
  <2>8. Min(S) = 1
      BY <1>1, <2>5, <2>7
  <2>9. ~(d.cursorPos > NumRows(d)) /\ S # {}
      BY <1>1, <2>12, <2>3, <2>6
  <2>10. InternalNext(d) = [d EXCEPT !.cursorPos = Min(S), !.absolutePos = @ + 1]
      BY <2>4, <2>9 DEF InternalNext
  <2>11. InternalNext(d).cursorPos = 1
      BY <2>2, <2>8, <2>10 DEF Cache
  <2> QED BY <1>1, <2>1, <2>11 DEF First
<1>3. Last(c).cursorPos = NumRows(c)
  <2>1. PICK d : d = InternalAfterLast(c)
      OBVIOUS
  <2>2. d.cursorPos = NumRows(c) + 1 /\ d.rvh = c.rvh /\ d.showDeleted
      BY <1>1, <2>1 DEF InternalAfterLast, Cache
  <2>12. d \in Cache
      BY <2>1, StepsAlike DEF Alike
  <2>3. NumRows(d) = NumRows(c) /\ Shown(d) = 1..NumRows(c)
      BY <1>1, <2>2 DEF NumRows, Shown
  <2>4. PICK S : S = {i \in Shown(d) : i < d.cursorPos}
      OBVIOUS
  <2>5. S = 1..NumRows(c)
      BY <1>1, <2>2, <2>3, <2>4
  <2>6. S \in SUBSET (0..NumRows(c)) /\ NumRows(c) \in S
      BY <1>1, <2>5
  <2>7. Max(S) \in S /\ NumRows(c) <= Max(S)
      BY <1>1, <2>6, MaxOfBounded
  <2>8. Max(S) = NumRows(c)
      BY <1>1, <2>5, <2>7
  <2>9. ~(d.cursorPos <= 0) /\ S # {}
      BY <1>1, <2>2, <2>6
  <2>10. InternalPrevious(d) = [d EXCEPT !.cursorPos = Max(S), !.absolutePos = @ - 1]
      BY <2>4, <2>9 DEF InternalPrevious
  <2>11. InternalPrevious(d).cursorPos = NumRows(c)
      BY <2>8, <2>10, <2>12 DEF Cache
  <2> QED BY <1>1, <2>1, <2>11 DEF Last
<1> QED BY <1>2, <1>3

\* first and last: right when no row is deleted.
LEMMA FirstLastPlaced ==
    ASSUME Counted, ToFirst \/ ToLast
    PROVE  /\ Travels
           /\ deletedRows = {} /\ ~IsEmpty(crs) => Placed(crs', absolutePos')
<1>1. /\ Formed(crs) /\ NumRows(crs) \in Nat /\ (IsEmpty(crs) <=> NumRows(crs) = 0)
      /\ OwnSize = NumRows(crs) - Cardinality(crs.deletedRows) /\ OwnSize \in Int
      /\ absolutePos \in Int /\ deletedRows = crs.deletedRows /\ crs.showDeleted
    BY OwnFacts DEF Counted, CountsAgree
<1>2. PICK pos : /\ pos \in Int
                 /\ \/ To(First(crs), pos) /\ (~IsEmpty(crs) => pos = 1)
                    \/ To(Last(crs), pos) /\ (~IsEmpty(crs) => pos = OwnSize)
  <2>1. CASE ToFirst
    <3>1. PICK pos : pos = IF IsEmpty(crs) THEN absolutePos ELSE 1
        OBVIOUS
    <3>2. To(First(crs), pos) /\ pos \in Int
        BY <1>1, <2>1, <3>1 DEF ToFirst
    <3> QED BY <3>1, <3>2
  <2>2. CASE ToLast
    <3>1. PICK pos : pos = IF IsEmpty(crs) THEN absolutePos ELSE OwnSize
        OBVIOUS
    <3>2. To(Last(crs), pos) /\ pos \in Int
        BY <1>1, <2>2, <3>1 DEF ToLast
    <3> QED BY <3>1, <3>2
  <2> QED BY <2>1, <2>2
<1>3. /\ Travels /\ absolutePos' = pos
      /\ \/ crs' = First(crs) /\ (~IsEmpty(crs) => pos = 1)
         \/ crs' = Last(crs) /\ (~IsEmpty(crs) => pos = OwnSize)
  <2>1. Alike(crs, First(crs)) /\ Alike(crs, Last(crs)) /\ pos \in Int
      BY <1>1, <1>2, FirstLastAlike
  <2>2. CASE To(First(crs), pos) /\ (~IsEmpty(crs) => pos = 1)
      BY <2>1, <2>2, ToTravels
  <2>3. CASE To(Last(crs), pos) /\ (~IsEmpty(crs) => pos = OwnSize)
      BY <2>1, <2>3, ToTravels
  <2> QED BY <1>2, <2>2, <2>3
<1>4. ASSUME deletedRows = {}, ~IsEmpty(crs) PROVE Placed(crs', absolutePos')
  <2>2. Cardinality(crs.deletedRows) = 0
      BY <1>1, <1>4, FS_EmptySet
  <2>3. NumRows(crs) >= 1 /\ OwnSize = NumRows(crs)
      BY <1>1, <1>4, <2>2
  <2>4. First(crs).cursorPos = 1 /\ Last(crs).cursorPos = NumRows(crs)
      BY <1>1, <2>3, FirstLastRows
  <2>5. crs'.cursorPos = pos /\ pos \in 1..NumRows(crs)
      BY <1>1, <1>3, <1>4, <2>3, <2>4
  <2>6. PICK d : d = crs'
      OBVIOUS
  <2>7. d.deletedRows = crs.deletedRows /\ NumRows(d) = NumRows(crs)
      BY <1>3, <2>6, TravelFacts
  <2>8. AbsolutePos(d.deletedRows, pos) = pos
    <3>1. {i \in d.deletedRows : 1 <= i /\ i <= pos} = {}
        BY <1>1, <1>4, <2>7
    <3>2. Cardinality({i \in d.deletedRows : 1 <= i /\ i <= pos}) = 0
        BY <3>1, FS_EmptySet, Zenon
    <3> QED BY <1>2, <3>2 DEF AbsolutePos
  <2>9. Place(d, pos)
    <3>1. pos \notin d.deletedRows
        BY <1>1, <1>4, <2>7
    <3> QED BY <1>1, <2>5, <2>7, <3>1 DEF Place
  <2>10. Placed(d, pos)
      BY <2>5, <2>6, <2>8, <2>9 DEF Placed
  <2> QED BY <1>3, <2>6, <2>10
<1> QED BY <1>3, <1>4
----------------------------------------------------------------------------
(* next and previous.                                                      *)

\* The loop of next stops at the next row that is left, or after the last.
LEMMA StopAhead ==
    ASSUME Counted, NEW p, p = crs.cursorPos, OwnCursor = p, p \in 0..(NumRows(crs) + 1),
           NEW k, k = Stop(1)
    PROVE  /\ k \in 1..(NumRows(crs) + 1)
           /\ p + k \in Left(crs) \/ p + k > NumRows(crs)
           /\ \A i \in Left(crs) : ~(p < i /\ i < p + k)
<1> DEFINE S == {n \in 1..(NumRows(crs) + 1) : \/ p + 1 * n \notin 1..NumRows(crs)
                                               \/ p + 1 * n < 0
                                               \/ p + 1 * n \notin deletedRows}
<1>1. NumRows(crs) \in Nat /\ deletedRows = crs.deletedRows /\ p \in Int
    BY OwnFacts DEF Counted, CountsAgree
<1>2. k = Min(S)
    BY DEF Stop
<1>3. S \in SUBSET Nat /\ S # {}
  <2>1. NumRows(crs) + 1 \in S
      BY <1>1
  <2> QED BY <1>1, <2>1
<1>4. k \in S /\ \A n \in S : k <= n
  <2> HIDE DEF S
  <2> QED BY <1>2, <1>3, MinOfNat
<1>5. k \in 1..(NumRows(crs) + 1) /\ k \in Int
    BY <1>1, <1>4
<1>6. p + k \in Left(crs) \/ p + k > NumRows(crs)
    BY <1>1, <1>4, <1>5 DEF Left
<1>7. ASSUME NEW i \in Left(crs), p < i, i < p + k PROVE FALSE
  <2>1. i \in 1..NumRows(crs) /\ i \notin crs.deletedRows /\ i \in Int
      BY <1>1 DEF Left
  <2>2. PICK n : n = i - p
      OBVIOUS
  <2>3. n \in 1..(NumRows(crs) + 1) /\ p + 1 * n = i /\ n < k
      BY <1>1, <1>5, <1>7, <2>1, <2>2
  <2>4. n \in S
      BY <1>1, <2>1, <2>3
  <2> QED BY <1>4, <1>5, <2>1, <2>2, <2>3, <2>4, <1>1
<1> QED BY <1>5, <1>6, <1>7

\* That of previous at the row left before, or before the first.
LEMMA StopBehind ==
    ASSUME Counted, NEW p, p = crs.cursorPos, OwnCursor = p, p \in 0..(NumRows(crs) + 1),
           NEW k, k = Stop(-1)
    PROVE  /\ k \in 1..(NumRows(crs) + 1)
           /\ p - k \in Left(crs) \/ p - k <= 0
           /\ \A i \in Left(crs) : ~(p - k < i /\ i < p)
<1> DEFINE S == {n \in 1..(NumRows(crs) + 1) : \/ p + (-1) * n \notin 1..NumRows(crs)
                                               \/ p + (-1) * n < 0
                                               \/ p + (-1) * n \notin deletedRows}
<1>1. NumRows(crs) \in Nat /\ deletedRows = crs.deletedRows /\ p \in Int
    BY OwnFacts DEF Counted, CountsAgree
<1>2. k = Min(S)
    BY DEF Stop
<1>3. S \in SUBSET Nat /\ S # {}
  <2>1. NumRows(crs) + 1 \in S
      BY <1>1
  <2> QED BY <1>1, <2>1
<1>4. k \in S /\ \A n \in S : k <= n
  <2> HIDE DEF S
  <2> QED BY <1>2, <1>3, MinOfNat
<1>5. k \in 1..(NumRows(crs) + 1) /\ k \in Int
    BY <1>1, <1>4
<1>6. p - k \in Left(crs) \/ p - k <= 0
    BY <1>1, <1>4, <1>5 DEF Left
<1>7. ASSUME NEW i \in Left(crs), p - k < i, i < p PROVE FALSE
  <2>1. i \in 1..NumRows(crs) /\ i \notin crs.deletedRows /\ i \in Int
      BY <1>1 DEF Left
  <2>2. PICK n : n = p - i
      OBVIOUS
  <2>3. n \in 1..(NumRows(crs) + 1) /\ p + (-1) * n = i /\ n < k
      BY <1>1, <1>5, <1>7, <2>1, <2>2
  <2>4. n \in S
      BY <1>1, <2>1, <2>3
  <2> QED BY <1>4, <1>5, <2>1, <2>2, <2>3, <2>4, <1>1
<1> QED BY <1>5, <1>6, <1>7

\* From one place to the next one that is left the number grows by one.
LEMMA NumberOfNext ==
    ASSUME Counted, NEW p, Place(crs, p), NEW q \in Left(crs), p < q,
           \A i \in Left(crs) : ~(p < i /\ i < q)
    PROVE  AbsolutePos(crs.deletedRows, q) = AbsolutePos(crs.deletedRows, p) + 1
<1>1. PICK h : h = Hidden(crs)
    OBVIOUS
<1>2. /\ WellCounted(crs) /\ WellCounted(h) /\ Shown(h) = Left(crs) /\ NumRows(crs) \in Nat
    BY <1>1, HiddenFacts DEF Counted
<1>3. q \in 1..NumRows(crs) /\ p \in 0..(NumRows(crs) + 1)
    BY DEF Left, Place
<1>4. q \in Int /\ p \in Int /\ p \in 0..NumRows(crs) /\ q \in 0..NumRows(crs) /\ p <= q - 1
      /\ q - 1 \in Int
    BY <1>2, <1>3
<1>5. AbsolutePos(crs.deletedRows, p) = RankAt(h, p) /\ AbsolutePos(crs.deletedRows, q) = RankAt(h, q)
    BY <1>1, <1>2, <1>4, NumberIsRank
<1>6. \A x \in Shown(h) : ~(p < x /\ x <= q - 1)
  <2>1. ASSUME NEW x \in Shown(h), p < x, x <= q - 1 PROVE FALSE
    <3>1. x \in Left(crs) /\ x \in Int
        BY <1>2, <2>1 DEF Left
    <3>2. x < q
        BY <1>4, <2>1, <3>1
    <3> QED BY <2>1, <3>1, <3>2
  <2> QED BY <2>1
<1>7. RankAt(h, p) = RankAt(h, q - 1)
    BY <1>2, <1>4, <1>6, CountGrowth
<1>8. RankAt(h, q) = RankAt(h, q - 1) + 1
    BY <1>2, <1>4, CountFacts
<1> QED BY <1>5, <1>7, <1>8

\* Back from a place to the one left before, it shrinks by one.
LEMMA NumberOfPrevious ==
    ASSUME Counted, NEW p, Place(crs, p), NEW q \in Left(crs), q < p,
           \A i \in Left(crs) : ~(q < i /\ i < p)
    PROVE  AbsolutePos(crs.deletedRows, q) = AbsolutePos(crs.deletedRows, p) - 1
<1>1. PICK h : h = Hidden(crs)
    OBVIOUS
<1>2. /\ WellCounted(crs) /\ WellCounted(h) /\ Shown(h) = Left(crs) /\ NumRows(crs) \in Nat
      /\ NumRows(h) = NumRows(crs) /\ Size(h) = NumRows(crs) - Cardinality(crs.deletedRows)
      /\ Size(h) \in Nat
    BY <1>1, HiddenFacts DEF Counted
<1>3. q \in 1..NumRows(crs) /\ p \in 0..(NumRows(crs) + 1) /\ p \notin crs.deletedRows
    BY DEF Left, Place
<1>4. /\ q \in Int /\ p \in Int /\ q \in 0..NumRows(crs) /\ q <= p - 1 /\ p - 1 \in Int
      /\ p - 1 \in 0..NumRows(crs)
    BY <1>2, <1>3
<1>5. AbsolutePos(crs.deletedRows, q) = RankAt(h, q)
    BY <1>1, <1>2, <1>4, NumberIsRank
<1>6. \A x \in Shown(h) : ~(q < x /\ x <= p - 1)
  <2>1. ASSUME NEW x \in Shown(h), q < x, x <= p - 1 PROVE FALSE
    <3>1. x \in Left(crs) /\ x \in Int
        BY <1>2, <2>1 DEF Left
    <3>2. x < p
        BY <1>4, <2>1, <3>1
    <3> QED BY <2>1, <3>1, <3>2
  <2> QED BY <2>1
<1>7. RankAt(h, q) = RankAt(h, p - 1) /\ RankAt(h, q) \in Nat
    BY <1>2, <1>4, <1>6, CountGrowth, CountFacts
<1>8. AbsolutePos(crs.deletedRows, p) = RankAt(h, p - 1) + 1
  <2>1. CASE p = NumRows(crs) + 1
    <3>1. AbsolutePos(crs.deletedRows, p) = Size(h) + 1
        BY <1>2, <2>1, NumberAfterLast
    <3>2. p - 1 >= NumRows(h)
        BY <1>2, <1>4, <2>1
    <3>3. RankAt(h, p - 1) = Size(h)
        BY <1>2, <1>4, <3>2, CountFacts
    <3> QED BY <3>1, <3>3
  <2>2. CASE p # NumRows(crs) + 1
    <3>1. p \in 1..NumRows(crs) /\ p \in 0..NumRows(crs)
        BY <1>2, <1>3, <1>4, <2>2
    <3>2. p \in Shown(h)
        BY <1>2, <1>3, <3>1 DEF Left
    <3>3. AbsolutePos(crs.deletedRows, p) = RankAt(h, p)
        BY <1>1, <1>2, <3>1, NumberIsRank
    <3> QED BY <1>2, <1>4, <3>2, <3>3, CountFacts
  <2> QED BY <2>1, <2>2
<1> QED BY <1>5, <1>7, <1>8

\* q is the next row left in the direction d, or off that end of the list.
NextDoor(d, q) ==
    IF d = 1
    THEN /\ (q \in Left(crs) /\ crs.cursorPos < q) \/ q = NumRows(crs) + 1
         /\ \A i \in Left(crs) : ~(crs.cursorPos < i /\ i < q)
    ELSE /\ (q \in Left(crs) /\ q < crs.cursorPos) \/ q = 0
         /\ \A i \in Left(crs) : ~(q < i /\ i < crs.cursorPos)

\* next and previous of a client that went to its place.
LEMMA StepPlaced ==
    ASSUME Counted, Placed(crs, absolutePos), NEW d \in {-1, 1}, StepRow(d)
    PROVE  Travels /\ Placed(crs', absolutePos') /\ NextDoor(d, crs'.cursorPos)
<1>1. PICK p : p = crs.cursorPos
    OBVIOUS
<1>2. PICK k : k = Stop(d)
    OBVIOUS
<1>3. /\ NumRows(crs) \in Nat /\ Formed(crs) /\ crs \in Cache /\ absolutePos \in Int
      /\ crs.absolutePos \in Int
    BY OwnFacts DEF Counted, Cache
<1>4. /\ OwnCursor = p /\ Place(crs, p) /\ absolutePos = AbsolutePos(crs.deletedRows, p)
      /\ p \in 0..(NumRows(crs) + 1) /\ p \in Int
  <2>1. Place(crs, p) /\ absolutePos = AbsolutePos(crs.deletedRows, p)
      BY <1>1 DEF Placed
  <2>2. Cursor(absolutePos) = p
      BY <2>1, OwnPlaces
  <2> QED BY <1>3, <2>1, <2>2 DEF OwnCursor, Place
<1>5. PICK at : at = p + d * k
    OBVIOUS
<1>6. /\ k \in 1..(NumRows(crs) + 1) /\ at \in Int
      /\ at \in Left(crs) \/ at \notin 1..NumRows(crs)
      /\ d = 1 => /\ at = p + k /\ \A i \in Left(crs) : ~(p < i /\ i < at)
      /\ d = -1 => /\ at = p - k /\ \A i \in Left(crs) : ~(at < i /\ i < p)
  <2>1. CASE d = 1
    <3>1. /\ k \in 1..(NumRows(crs) + 1)
          /\ p + k \in Left(crs) \/ p + k > NumRows(crs)
          /\ \A i \in Left(crs) : ~(p < i /\ i < p + k)
        BY <1>1, <1>2, <1>4, <2>1, StopAhead
    <3>2. k \in Int /\ at = p + k
        BY <1>3, <1>5, <2>1, <3>1
    <3> QED BY <1>3, <1>4, <2>1, <3>1, <3>2
  <2>2. CASE d = -1
    <3>1. /\ k \in 1..(NumRows(crs) + 1)
          /\ p - k \in Left(crs) \/ p - k <= 0
          /\ \A i \in Left(crs) : ~(p - k < i /\ i < p)
        BY <1>1, <1>2, <1>4, <2>2, StopBehind
    <3>2. at = p + (-1) * k
        BY <1>5, <2>2, Zenon
    <3>3. k \in Int /\ at = p - k
        BY <1>3, <1>4, <3>1, <3>2
    <3> QED BY <1>3, <1>4, <2>2, <3>1, <3>3
  <2> QED BY <2>1, <2>2
<1>7. k \in Int /\ k >= 1 /\ d * k \in Int
    BY <1>3, <1>6
<1>8. CASE at \in 1..NumRows(crs)
  <2>1. at \in Left(crs) /\ ~(at < 0)
      BY <1>3, <1>6, <1>8
  <2>2. PICK a, e : a = crs.absolutePos + d * k /\ e = [crs EXCEPT !.cursorPos = at, !.absolutePos = a]
      OBVIOUS
  <2>3. a \in Int
      BY <1>3, <1>7, <2>2
  <2>4. Alike(crs, e) /\ e.cursorPos = at
    <3>1. crs \in Cache /\ at \in Int
        BY <1>3, <1>6
    <3>2. PICK c : c = crs
        OBVIOUS
    <3>3. c \in Cache /\ e = [c EXCEPT !.cursorPos = at, !.absolutePos = a]
        BY <2>2, <3>1, <3>2
    <3>4. Alike(c, e)
        BY <2>3, <3>1, <3>3, AimAlike
    <3>5. e.cursorPos = at
        BY <3>3 DEF Cache
    <3> QED BY <3>2, <3>4, <3>5
  <2>5. crs' = e /\ absolutePos' = absolutePos + d /\ UNCHANGED <<numRows, deletedRows, mOnInsert, mRowInserted, issued>>
      BY <1>1, <1>2, <1>4, <1>5, <1>8, <2>1, <2>2 DEF StepRow, Step
  <2>6. absolutePos' \in Int
      BY <1>3, <2>5
  <2>7. Travels
      BY <2>4, <2>5, <2>6 DEF Travels
  <2>8. absolutePos + d = AbsolutePos(crs.deletedRows, at)
    <3>1. CASE d = 1
      <4>1. p < at
          BY <1>4, <1>6, <1>7, <3>1
      <4> QED BY <1>4, <1>6, <2>1, <3>1, <4>1, NumberOfNext
    <3>2. CASE d = -1
      <4>1. at < p
          BY <1>4, <1>6, <1>7, <3>2
      <4>2. absolutePos + d = absolutePos - 1
          BY <1>3, <3>2
      <4> QED BY <1>4, <1>6, <2>1, <3>2, <4>1, <4>2, NumberOfPrevious
    <3> QED BY <3>1, <3>2
  <2>9. Place(e, at) /\ AbsolutePos(e.deletedRows, at) = absolutePos'
      BY <2>1, <2>5, <2>7, <2>8, OwnPlaces, TravelFacts
  <2>10. Placed(e, absolutePos')
      BY <2>4, <2>9 DEF Placed
  <2>11. NextDoor(d, at)
    <3>1. CASE d = 1
      <4>1. p < at
          BY <1>4, <1>6, <1>7, <3>1
      <4> QED BY <1>1, <1>6, <2>1, <3>1, <4>1 DEF NextDoor
    <3>2. CASE d = -1
      <4>1. at < p /\ d # 1
          BY <1>4, <1>6, <1>7, <3>2
      <4> QED BY <1>1, <1>6, <2>1, <3>2, <4>1 DEF NextDoor
    <3> QED BY <3>1, <3>2
  <2>12. crs'.cursorPos = at
      BY <2>4, <2>5
  <2> QED BY <2>5, <2>7, <2>10, <2>11, <2>12
<1>9. CASE at \notin 1..NumRows(crs) /\ d = 1
  <2>1. PICK e : e = IF crs.cursorPos > NumRows(crs) THEN crs ELSE InternalAfterLast(crs)
      OBVIOUS
  <2>2. Alike(crs, e)
      BY <1>3, <2>1, StepsAlike, AlikeSelf
  <2>3. PICK q : q = NumRows(crs) + 1
      OBVIOUS
  <2>4. e.cursorPos = q
    <3>1. CASE crs.cursorPos > NumRows(crs)
        BY <1>1, <1>3, <1>4, <2>1, <2>3, <3>1
    <3>2. CASE ~(crs.cursorPos > NumRows(crs))
        BY <1>3, <2>1, <2>3, <3>2 DEF InternalAfterLast, Cache
    <3> QED BY <3>1, <3>2
  <2>5. /\ crs' = e /\ absolutePos' = AfterLastPos
        /\ UNCHANGED <<numRows, deletedRows, mOnInsert, mRowInserted, issued>>
      BY <1>1, <1>2, <1>5, <1>9, <2>1 DEF StepRow, Step
  <2>6. AfterLastPos = AbsolutePos(crs.deletedRows, q) /\ AfterLastPos \in Int
      BY <2>3, OwnFacts
  <2>7. Travels
      BY <2>2, <2>5, <2>6 DEF Travels
  <2>8. Place(crs, q)
    <3>1. crs.deletedRows \subseteq 1..NumRows(crs)
        BY OwnFacts
    <3> QED BY <1>3, <2>3, <3>1 DEF Place
  <2>9. Place(e, q) /\ AbsolutePos(e.deletedRows, q) = absolutePos'
      BY <2>5, <2>6, <2>7, <2>8, TravelFacts
  <2>10. Placed(e, absolutePos')
      BY <2>4, <2>9 DEF Placed
  <2>11. NextDoor(d, q)
    <3>1. NumRows(crs) < at
        BY <1>3, <1>4, <1>6, <1>7, <1>9
    <3>2. \A i \in Left(crs) : ~(p < i /\ i < q)
      <4>1. ASSUME NEW i \in Left(crs), p < i, i < q PROVE FALSE
        <5>1. i \in Int /\ i < at
            BY <1>3, <1>6, <3>1 DEF Left
        <5> QED BY <1>6, <1>9, <4>1, <5>1
      <4> QED BY <4>1
    <3> QED BY <1>1, <1>9, <2>3, <3>2 DEF NextDoor
  <2>12. crs'.cursorPos = q
      BY <2>4, <2>5
  <2> QED BY <2>5, <2>7, <2>10, <2>11, <2>12
<1>10. CASE at \notin 1..NumRows(crs) /\ d = -1
  <2>1. PICK e : e = IF crs.cursorPos = 0 THEN crs ELSE BeforeFirst(crs)
      OBVIOUS
  <2>2. Alike(crs, e)
      BY <1>3, <2>1, StepsAlike, AlikeSelf
  <2>4. e.cursorPos = 0
    <3>1. CASE crs.cursorPos = 0
        BY <2>1, <3>1
    <3>2. CASE crs.cursorPos # 0
        BY <1>3, <2>1, <3>2 DEF BeforeFirst, Cache
    <3> QED BY <3>1, <3>2
  <2>5. /\ crs' = e /\ absolutePos' = 0
        /\ UNCHANGED <<numRows, deletedRows, mOnInsert, mRowInserted, issued>>
      BY <1>1, <1>2, <1>5, <1>10, <2>1 DEF StepRow, Step
  <2>7. Travels
      BY <2>2, <2>5 DEF Travels
  <2>9. Place(e, 0) /\ AbsolutePos(e.deletedRows, 0) = absolutePos'
      BY <2>5, <2>7, OwnPlaces, TravelFacts
  <2>10. Placed(e, absolutePos')
      BY <2>4, <2>9 DEF Placed
  <2>11. NextDoor(d, 0)
    <3>1. at < 1
        BY <1>3, <1>4, <1>6, <1>7, <1>10
    <3>2. \A i \in Left(crs) : ~(0 < i /\ i < p)
      <4>1. ASSUME NEW i \in Left(crs), i < p PROVE FALSE
        <5>1. i \in Int /\ at < i
            BY <1>3, <1>6, <3>1 DEF Left
        <5> QED BY <1>6, <1>10, <4>1, <5>1
      <4> QED BY <4>1
    <3>3. d # 1
        BY <1>10
    <3> QED BY <1>1, <3>2, <3>3 DEF NextDoor
  <2>12. crs'.cursorPos = 0
      BY <2>4, <2>5
  <2> QED BY <2>5, <2>7, <2>10, <2>11, <2>12
<1> QED BY <1>8, <1>9, <1>10
----------------------------------------------------------------------------
(* absolute and relative, by the numbers of this class.                    *)

\* absolute(n) goes to the n-th row left, or off an end; with no row left it
\* may do nothing.
LEMMA ToRowPlaced ==
    ASSUME Counted, NEW n \in Int, ToRow(n)
    PROVE  /\ Travels
           /\ \/ Placed(crs', absolutePos')
              \/ OwnSize = 0 /\ crs' = crs /\ absolutePos' = absolutePos
           /\ n \in 1..OwnSize => crs'.cursorPos = Cursor(n)
<1>1. /\ Formed(crs) /\ NumRows(crs) \in Nat /\ OwnSize \in Nat /\ crs.showDeleted
    BY OwnFacts DEF Counted
<1>2. PICK row : row = IF n < 0 THEN OwnSize + n + 1 ELSE n
    OBVIOUS
<1>3. row \in Int /\ (n \in 1..OwnSize => row = n)
    BY <1>1, <1>2
<1>4. PICK index : index = Cursor(row)
    OBVIOUS
<1>5. IF n = 0 \/ row <= 0 THEN ToBeforeFirst
      ELSE IF row > OwnSize THEN ToAfterLast
      ELSE To(Absolute(crs, index),
              IF Moved(crs, index) THEN PosOf(index)
              ELSE IF IsEmpty(crs) THEN absolutePos ELSE AfterLastPos)
    BY <1>2, <1>4 DEF ToRow
<1>6. CASE n = 0 \/ row <= 0
  <2>1. ToBeforeFirst
      BY <1>5, <1>6
  <2>2. n \notin 1..OwnSize
      BY <1>1, <1>3, <1>6
  <2> QED BY <2>1, <2>2, EndsPlaced
<1>7. CASE ~(n = 0 \/ row <= 0) /\ row > OwnSize
  <2>1. ToAfterLast
      BY <1>5, <1>7
  <2>2. n \notin 1..OwnSize
      BY <1>1, <1>3, <1>7
  <2> QED BY <2>1, <2>2, EndsPlaced
<1>8. CASE ~(n = 0 \/ row <= 0) /\ ~(row > OwnSize)
  <2>1. row \in 1..OwnSize
      BY <1>1, <1>3, <1>8
  <2>2. index \in Left(crs) /\ AbsolutePos(crs.deletedRows, index) = row
      BY <1>4, <2>1, NumberedRow
  <2>3. index \in 1..NumRows(crs) /\ index \in Nat /\ index \in Int
      BY <1>1, <2>2 DEF Left
  <2>4. Moved(crs, index) /\ Absolute(crs, index).cursorPos = index /\ Alike(crs, Absolute(crs, index))
      BY <1>1, <2>3, AbsoluteAlike
  <2>5. PosOf(index) = row /\ Place(crs, index)
      BY <2>2, OwnPlaces
  <2>6. To(Absolute(crs, index), row)
      BY <1>5, <1>8, <2>4, <2>5
  <2>7. PICK d : d = crs'
      OBVIOUS
  <2>8. Travels /\ d = Absolute(crs, index) /\ absolutePos' = row
      BY <1>3, <2>4, <2>6, <2>7, ToTravels
  <2>9. Place(d, index) /\ AbsolutePos(d.deletedRows, index) = row
      BY <2>2, <2>5, <2>7, <2>8, TravelFacts
  <2>10. Placed(d, row) /\ d.cursorPos = index
      BY <2>4, <2>8, <2>9 DEF Placed
  <2> QED BY <1>3, <1>4, <2>7, <2>8, <2>10
<1> QED BY <1>6, <1>7, <1>8

\* relative(n) is one of these, or nothing.
LEMMA ToRelativePlaced ==
    ASSUME Counted, NEW n \in Int, ToRelative(n)
    PROVE  /\ Travels
           /\ \/ Placed(crs', absolutePos')
              \/ crs' = crs /\ absolutePos' = absolutePos
<1>1. absolutePos + n \in Int
    BY DEF Counted
<1>2. CASE n = 0
  <2>1. Stay
      BY <1>2 DEF ToRelative
  <2> QED BY <1>2, <2>1, StayTravels
<1>3. CASE n # 0
  <2>1. ToRow(absolutePos + n)
      BY <1>3 DEF ToRelative
  <2> QED BY <1>1, <2>1, ToRowPlaced
<1> QED BY <1>2, <1>3

----------------------------------------------------------------------------
(* Moves to a bookmark.                                                    *)

\* A bookmark of a row that is left takes the client there.
LEMMA MoveToBookmarkPlaced ==
    ASSUME Counted, NEW mark \in Nat, MoveToBookmark(mark)
    PROVE  /\ Travels /\ placed' \in BOOLEAN
           /\ placed' => Placed(crs', absolutePos')
<1>1. /\ Formed(crs) /\ NumRows(crs) \in Nat /\ crs.showDeleted /\ numRows = NumRows(crs)
      /\ deletedRows = crs.deletedRows /\ AfterLastPos \in Int /\ mark \in Int
    BY OwnFacts DEF Counted, CountsAgree
<1>2. PICK at : at = Absolute(crs, mark)
    OBVIOUS
<1>3. /\ Alike(crs, at) /\ (Moved(crs, mark) <=> mark \in 1..NumRows(crs))
      /\ Moved(crs, mark) => at.cursorPos = mark
    BY <1>1, <1>2, AbsoluteAlike
<1>4. placed' = (mark \in 1..NumRows(crs) \ crs.deletedRows)
    BY <1>1 DEF MoveToBookmark
<1>5. CASE Moved(crs, mark)
  <2>1. To(at, PosOf(mark)) /\ PosOf(mark) \in Int
      BY <1>1, <1>2, <1>5, OwnPlaces DEF MoveToBookmark
  <2>2. Travels /\ crs' = at /\ absolutePos' = PosOf(mark)
      BY <1>3, <2>1, ToTravels
  <2>3. ASSUME placed' PROVE Placed(at, PosOf(mark))
    <3>1. mark \in Left(crs)
        BY <1>4, <2>3 DEF Left
    <3>2. Place(crs, mark) /\ PosOf(mark) = AbsolutePos(crs.deletedRows, mark)
        BY <3>1, OwnPlaces
    <3>3. Place(at, mark) /\ at.deletedRows = crs.deletedRows
        BY <2>2, <3>2, TravelFacts
    <3> QED BY <1>3, <1>5, <3>2, <3>3 DEF Placed
  <2> QED BY <1>4, <2>2, <2>3
<1>6. CASE ~Moved(crs, mark)
  <2>1. Formed(at)
      BY <1>1, <1>3, AlikeFacts
  <2>2. Alike(at, AfterLast(at))
      BY <2>1, StepsAlike
  <2>3. Alike(crs, AfterLast(at))
      BY <1>3, <2>2, AlikeOn
  <2>4. To(AfterLast(at), AfterLastPos)
      BY <1>2, <1>6 DEF MoveToBookmark
  <2>5. Travels
      BY <1>1, <2>3, <2>4, ToTravels
  <2>6. mark \notin 1..NumRows(crs) \ crs.deletedRows
      BY <1>3, <1>6
  <2>7. ASSUME placed' PROVE FALSE
      BY <1>4, <2>6, <2>7
  <2> QED BY <1>4, <2>5, <2>7
<1> QED BY <1>5, <1>6

\* moveRelativeToBookmark moves the cursor, and the client has not gone anywhere.
LEMMA MoveRelativeTravels ==
    ASSUME Counted, NEW mark \in Nat, NEW count \in Int, MoveRelativeToBookmark(mark, count)
    PROVE  Travels /\ placed' = FALSE
<1>1. /\ Formed(crs) /\ crs \in Cache /\ AfterLastPos \in Int /\ absolutePos \in Int
      /\ mark + count \in Int /\ mark \in Int
    BY OwnFacts DEF Counted
<1>2. PICK at : at = IF mark # OwnCursor THEN Absolute(crs, mark) ELSE crs
    OBVIOUS
<1>3. Alike(crs, at) /\ Formed(at)
  <2>1. Alike(crs, at)
      BY <1>1, <1>2, AbsoluteAlike, AlikeSelf
  <2> QED BY <1>1, <2>1, AlikeFacts
<1>4. PICK to : to = Relative(at, count)
    OBVIOUS
<1>5. Alike(crs, to) /\ Formed(to)
  <2>1. Alike(at, to)
      BY <1>3, <1>4, RelativeAlike
  <2>2. Alike(crs, to)
      BY <1>3, <2>1, AlikeOn
  <2> QED BY <1>1, <2>2, AlikeFacts
<1>6. Alike(crs, AfterLast(at)) /\ Alike(crs, AfterLast(to))
    BY <1>3, <1>5, StepsAlike, AlikeOn
<1>7. PosOf(mark + count) \in Int
    BY <1>1, OwnPlaces
<1>8. \/ To(at, absolutePos) \/ To(to, PosOf(mark + count))
      \/ To(AfterLast(to), AfterLastPos) \/ To(AfterLast(at), AfterLastPos)
    BY <1>2, <1>4 DEF MoveRelativeToBookmark
<1>9. placed' = FALSE
    BY DEF MoveRelativeToBookmark
<1>10. Travels
    BY <1>1, <1>3, <1>5, <1>6, <1>7, <1>8, ToTravels
<1> QED BY <1>9, <1>10

----------------------------------------------------------------------------
(* Calls that write.                                                       *)

\* A row keeps its id, whatever ids are given out.
KeepsId(row, new) ==
    \A n \in Nat : Named(row, Id, n) => Named(new, Id, n) /\ new.orig[Id] = row.orig[Id]

\* The rows of d are those of c, off the insert row, each with its id; dels
\* are the deleted ones.
Edits(c, d, dels) ==
    /\ d \in Cache /\ NumRows(d) = NumRows(c) /\ d.deletedRows = dels
    /\ d.showDeleted = c.showDeleted /\ ~d.onInsertRow /\ d.cursorPos = c.cursorPos
    /\ \A i \in 1..NumRows(c) : KeepsId(c.rvh[i], d.rvh[i])

\* One such call after another.
LEMMA EditsOn ==
    ASSUME NEW c, NEW d, NEW e, NEW dels, NEW more, Edits(c, d, dels), Edits(d, e, more)
    PROVE  Edits(c, e, more)
<1>1. ASSUME NEW i \in 1..NumRows(c) PROVE KeepsId(c.rvh[i], e.rvh[i])
  <2>1. KeepsId(c.rvh[i], d.rvh[i]) /\ KeepsId(d.rvh[i], e.rvh[i])
      BY DEF Edits
  <2>2. PICK row, new, last : row = c.rvh[i] /\ new = d.rvh[i] /\ last = e.rvh[i]
      OBVIOUS
  <2>3. KeepsId(row, last)
      BY <2>1, <2>2 DEF KeepsId
  <2> QED BY <2>2, <2>3
<1> QED BY <1>1 DEF Edits

\* A call that changes one row.
LEMMA EditOne ==
    ASSUME NEW c, WellCounted(c), ~c.onInsertRow, NEW i \in 1..NumRows(c), NEW row \in Row,
           KeepsId(c.rvh[i], row), NEW dels \in SUBSET (1..NumRows(c)),
           NEW d, d = [c EXCEPT !.rvh = [c.rvh EXCEPT ![i] = row], !.deletedRows = dels]
    PROVE  Edits(c, d, dels)
<1>1. Formed(c) /\ c \in Cache /\ NumRows(c) \in Nat
    BY LeftRows DEF WellCounted, Formed
<1>2. dels \in SUBSET Nat /\ IsFiniteSet(dels)
  <2>1. PICK k : k = NumRows(c)
      OBVIOUS
  <2>2. 1 \in Int /\ k \in Int
      BY <1>1, <2>1
  <2>3. IsFiniteSet(1..k)
      BY <2>2, FS_Interval
  <2> QED BY <1>1, <2>1, <2>3, FS_Subset
<1>3. Changes(c, d, i, row)
    BY <1>1, <1>2, ChangeOne
<1>4. d \in Cache /\ ~d.onInsertRow /\ NumRows(d) = NumRows(c)
    BY <1>3 DEF Changes, Formed
<1>5. d.deletedRows = dels /\ d.showDeleted = c.showDeleted /\ d.cursorPos = c.cursorPos
    BY <1>1 DEF Cache
<1>6. ASSUME NEW j \in 1..NumRows(c) PROVE KeepsId(c.rvh[j], d.rvh[j])
  <2>1. d.rvh[j] = IF j = i THEN row ELSE c.rvh[j]
      BY <1>3 DEF Changes
  <2>2. KeepsId(c.rvh[j], c.rvh[j])
      BY DEF KeepsId
  <2> QED BY <2>1, <2>2
<1> QED BY <1>4, <1>5, <1>6 DEF Edits

\* updateXXX, updateRow, cancelRowUpdates and deleteRow are.
LEMMA RowCallsEdit ==
    ASSUME NEW c, WellCounted(c), OnRow(c)
    PROVE  /\ Edits(c, UpdateColumn(c, Id, IdOf(c.rvh[c.cursorPos])), c.deletedRows)
           /\ Edits(c, UpdateRow(c), c.deletedRows)
           /\ Edits(c, CancelRowUpdates(c), c.deletedRows)
           /\ Edits(c, DeleteRow(c), c.deletedRows \cup {c.cursorPos})
<1>1. PICK p, row : p = c.cursorPos /\ row = c.rvh[p]
    OBVIOUS
<1>2. /\ Formed(c) /\ c \in Cache /\ NumRows(c) \in Nat /\ ~c.onInsertRow /\ p \in 1..NumRows(c)
      /\ row \in Row /\ Id \in Column /\ c.deletedRows \in SUBSET (1..NumRows(c))
      /\ c.rvh[p] = row
  <2>1. Formed(c) /\ p \in 1..NumRows(c) /\ ~c.onInsertRow
      BY <1>1 DEF OnRow, WellCounted
  <2> QED BY <1>1, <2>1, RowsOfCache, IdAssumption DEF WellCounted, Formed
<1>3. Edits(c, UpdateColumn(c, Id, IdOf(c.rvh[c.cursorPos])), c.deletedRows)
  <2>1. PICK val : val = IdOf(row)
      OBVIOUS
  <2>2. val \in Datum
      BY <1>2, <2>1 DEF IdOf, ColumnObject, Row, Values
  <2>3. PICK new : new = SetColumnObject(row, Id, val)
      OBVIOUS
  <2>4. new \in Row
      BY <1>2, <2>2, <2>3, RowTypes
  <2>5. KeepsId(row, new)
    <3>1. ASSUME NEW n \in Nat, Named(row, Id, n)
          PROVE  Named(new, Id, n) /\ new.orig[Id] = row.orig[Id]
      <4>1. /\ IdOf(row) = row.orig[Id]
            /\ SetColumnObject(row, Id, row.orig[Id]).orig = row.orig
            /\ Named(SetColumnObject(row, Id, row.orig[Id]), Id, n)
          BY <1>2, <3>1, RowsStayNamed DEF IdOf
      <4>2. new = SetColumnObject(row, Id, row.orig[Id])
          BY <2>1, <2>3, <4>1
      <4> QED BY <4>1, <4>2
    <3> QED BY <3>1 DEF KeepsId
  <2>6. PICK d : d = UpdateColumn(c, Id, IdOf(c.rvh[c.cursorPos]))
      OBVIOUS
  <2>7. d = [c EXCEPT !.rvh = [c.rvh EXCEPT ![p] = new], !.deletedRows = c.deletedRows]
      BY <1>1, <1>2, <2>1, <2>3, <2>6 DEF UpdateColumn, Cache
  <2> QED BY <1>2, <2>4, <2>5, <2>6, <2>7, EditOne
<1>4. Edits(c, UpdateRow(c), c.deletedRows)
  <2>1. PICK new : new = SetUpdated(row)
      OBVIOUS
  <2>2. new \in Row
      BY <1>2, <2>1, RowTypes
  <2>3. KeepsId(row, new)
      BY <1>2, <2>1, RowsStayNamed DEF KeepsId
  <2>4. PICK d : d = UpdateRow(c)
      OBVIOUS
  <2>5. d = [c EXCEPT !.rvh = [c.rvh EXCEPT ![p] = new], !.deletedRows = c.deletedRows]
      BY <1>1, <1>2, <2>1, <2>4 DEF UpdateRow, Cache
  <2> QED BY <1>2, <2>2, <2>3, <2>4, <2>5, EditOne
<1>5. Edits(c, RefreshRow(c), c.deletedRows)
  <2>1. PICK new : new = ClearUpdated(row)
      OBVIOUS
  <2>2. new \in Row
      BY <1>2, <2>1, RowTypes
  <2>3. KeepsId(row, new)
      BY <1>2, <2>1, RowsStayNamed DEF KeepsId
  <2>4. PICK d : d = RefreshRow(c)
      OBVIOUS
  <2>5. d = [c EXCEPT !.rvh = [c.rvh EXCEPT ![p] = new], !.deletedRows = c.deletedRows]
      BY <1>1, <1>2, <2>1, <2>4 DEF RefreshRow, Cache
  <2> QED BY <1>2, <2>2, <2>3, <2>4, <2>5, EditOne
<1>6. Edits(c, c, c.deletedRows)
    BY <1>2 DEF Edits, KeepsId
<1>7. Edits(c, CancelRowUpdates(c), c.deletedRows)
    BY <1>5, <1>6 DEF CancelRowUpdates
<1>8. Edits(c, DeleteRow(c), c.deletedRows \cup {c.cursorPos})
  <2>1. PICK fs, dels : fs = row.flags \cup {"removed"} /\ dels = c.deletedRows \cup {p}
      OBVIOUS
  <2>2. fs \in SUBSET Flag
      BY <1>2, <2>1 DEF Row, Flag
  <2>3. PICK new : new = [row EXCEPT !.flags = fs]
      OBVIOUS
  <2>4. new \in Row /\ dels \in SUBSET (1..NumRows(c))
      BY <1>2, <2>1, <2>2, <2>3, RowTypes
  <2>5. KeepsId(row, new)
    <3>1. new.orig = row.orig
        BY <1>2, <2>3 DEF Row
    <3> QED BY <1>2, <2>2, <2>3, <3>1, RowsStayNamed DEF KeepsId
  <2>6. PICK d : d = DeleteRow(c)
      OBVIOUS
  <2>7. d = [c EXCEPT !.rvh = [c.rvh EXCEPT ![p] = new], !.deletedRows = dels]
      BY <1>1, <1>2, <2>1, <2>3, <2>6 DEF DeleteRow, Cache
  <2>8. Edits(c, d, dels)
      BY <1>2, <2>4, <2>5, <2>7, EditOne
  <2> QED BY <1>1, <2>1, <2>6, <2>8
<1> QED BY <1>3, <1>4, <1>7, <1>8

\* An accepted row set has its rows, no longer to be written.
LEMMA AcceptedEdits ==
    ASSUME NEW c, WellCounted(c), ~c.onInsertRow, NEW d, d = Accepted(c, TRUE)
    PROVE  /\ Edits(c, d, c.deletedRows) /\ WellCounted(d)
           /\ Waiting(d) = {}
<1>1. /\ Formed(c) /\ c \in Cache /\ NumRows(c) \in Nat /\ Id \in Column
      /\ \A i \in 1..NumRows(c) : c.rvh[i] \in Row
    BY RowsOfCache, IdAssumption DEF WellCounted, Formed
<1>2. d = SetOriginal(c)
    BY DEF Accepted, AcceptChanges
<1>3. /\ Formed(d) /\ ~d.onInsertRow /\ NumRows(d) = NumRows(c)
      /\ \A i \in 1..NumRows(c) : d.rvh[i] = MakeRowOriginal(c.rvh[i])
    BY <1>1, <1>2, OriginalRows
<1>4. /\ d.deletedRows = c.deletedRows /\ d.showDeleted = c.showDeleted
      /\ d.cursorPos = c.cursorPos
    BY <1>1, <1>2 DEF SetOriginal, Cache
<1>5. ASSUME NEW i \in 1..NumRows(c) PROVE KeepsId(c.rvh[i], d.rvh[i])
  <2>1. PICK row : row = c.rvh[i]
      OBVIOUS
  <2>2. row \in Row /\ d.rvh[i] = MakeRowOriginal(row)
      BY <1>1, <1>3, <2>1
  <2>3. KeepsId(row, MakeRowOriginal(row))
      BY <1>1, <2>2, OriginalStaysNamed DEF KeepsId
  <2> QED BY <2>1, <2>2, <2>3
<1>6. Waiting(d) = {}
  <2>1. ASSUME NEW i \in 1..NumRows(c) PROVE "created" \notin d.rvh[i].flags
    <3>1. d.rvh[i] = MakeRowOriginal(c.rvh[i]) /\ c.rvh[i] \in Row
        BY <1>1, <1>3
    <3>2. MakeRowOriginal(c.rvh[i]).flags \cap {"removed", "created", "updated"} = {}
        BY <3>1, OriginalFlags
    <3> QED BY <3>1, <3>2
  <2> QED BY <1>3, <2>1 DEF Waiting
<1>7. Edits(c, d, c.deletedRows)
    BY <1>3, <1>4, <1>5 DEF Edits, Formed
<1>8. WellCounted(d)
    BY <1>3, <1>4 DEF WellCounted
<1> QED BY <1>6, <1>7, <1>8

----------------------------------------------------------------------------
(* The two layers agree.                                                   *)

\* The buffer of the insert row, once it is given a value and no insert waits,
\* holds the id to be given out next.
Ready(c, n) ==
    c.onInsertRow /\ Id \in c.insertRow.given /\ Waiting(c) = {} =>
        c.insertRow.vals[Id] = n + 1 /\ n < MaxInit + MaxInserts

\* What LayersAgree needs to be inductive: where the client is while placed,
\* its row number, and that the UNO side is on the insert row only when the
\* row set below is.
Layers ==
    /\ Counted
    /\ mOnInsert \in BOOLEAN /\ mRowInserted \in BOOLEAN /\ placed \in BOOLEAN
    /\ issued \in Nat
    /\ mOnInsert => crs.onInsertRow
    /\ placed => ~crs.onInsertRow /\ Placed(crs, absolutePos)
    /\ held.mark \in 0..(MaxRows + 1)

\* A step that appends no row, and leaves each row its id.
Calm ==
    /\ issued' = issued /\ NumRows(crs') = NumRows(crs)
    /\ crs.deletedRows \subseteq crs'.deletedRows
    /\ \A i \in 1..NumRows(crs) : KeepsId(crs.rvh[i], crs'.rvh[i])
    /\ Ready(crs, issued) => Ready(crs', issued)

\* The rows of d are those of c, each with its id, and d is off the insert row.
Rewrites(c, d, dels) ==
    /\ d \in Cache /\ NumRows(d) = NumRows(c) /\ d.deletedRows = dels
    /\ d.showDeleted = c.showDeleted /\ ~d.onInsertRow
    /\ \A i \in 1..NumRows(c) : KeepsId(c.rvh[i], d.rvh[i])

\* A step that moves the cursor keeps the agreement,
LEMMA MoveKeeps ==
    ASSUME Layers, Travels, placed' \in BOOLEAN, held'.mark \in 0..(MaxRows + 1),
           placed' => ~crs.onInsertRow /\ Placed(crs', absolutePos')
    PROVE  Layers' /\ Calm
<1>1. PICK d : d = crs'
    OBVIOUS
<1>2. Alike(crs, d) /\ mOnInsert' \in {mOnInsert, FALSE} /\ mRowInserted' = mRowInserted
      /\ issued' = issued
    BY <1>1 DEF Travels
<1>3. /\ d.rvh = crs.rvh /\ d.deletedRows = crs.deletedRows /\ d.onInsertRow = crs.onInsertRow
      /\ d.insertRow = crs.insertRow
    BY <1>2 DEF Alike
<1>4. Counted'
    BY TravelFacts DEF Layers
<1>5. Layers'
  <2>1. /\ mOnInsert \in BOOLEAN /\ mRowInserted \in BOOLEAN /\ issued \in Nat
        /\ mOnInsert => crs.onInsertRow
      BY DEF Layers
  <2>2. mOnInsert' \in BOOLEAN /\ (mOnInsert' => crs'.onInsertRow)
    <3>1. CASE mOnInsert' = FALSE
        BY <3>1
    <3>2. CASE mOnInsert' = mOnInsert
      <4>1. mOnInsert' \in BOOLEAN
          BY <2>1, <3>2
      <4>2. ASSUME mOnInsert' PROVE crs'.onInsertRow
        <5>1. mOnInsert
            BY <3>2, <4>2
        <5> QED BY <1>1, <1>3, <2>1, <5>1
      <4> QED BY <4>1, <4>2
    <3> QED BY <1>2, <3>1, <3>2
  <2>3. placed' => ~crs'.onInsertRow /\ Placed(crs', absolutePos')
      BY <1>1, <1>3
  <2>4. mRowInserted' \in BOOLEAN /\ issued' \in Nat
      BY <1>2, <2>1
  <2> QED BY <1>4, <2>2, <2>3, <2>4 DEF Layers
<1>6. NumRows(d) = NumRows(crs) /\ Waiting(d) = Waiting(crs)
    BY <1>3 DEF NumRows, Waiting
<1>7. \A i \in 1..NumRows(crs) : KeepsId(crs.rvh[i], d.rvh[i])
    BY <1>3 DEF KeepsId
<1>8. Ready(crs, issued) => Ready(d, issued)
    BY <1>3, <1>6 DEF Ready
<1>9. Calm
    BY <1>1, <1>2, <1>3, <1>6, <1>7, <1>8 DEF Calm
<1> QED BY <1>5, <1>9

\* and so does one that writes, or leaves the insert row.
LEMMA RewriteKeeps ==
    ASSUME Layers, NEW dels \in SUBSET (1..NumRows(crs)), crs.deletedRows \subseteq dels,
           Rewrites(crs, crs', dels), numRows' = numRows, deletedRows' = dels, absolutePos' \in Int,
           issued' = issued, mOnInsert' = FALSE, mRowInserted' \in BOOLEAN, placed' \in BOOLEAN,
           placed' => Placed(crs', absolutePos'), held'.mark \in 0..(MaxRows + 1)
    PROVE  Layers' /\ Calm
<1>1. PICK d : d = crs'
    OBVIOUS
<1>2. /\ d \in Cache /\ NumRows(d) = NumRows(crs) /\ d.deletedRows = dels
      /\ d.showDeleted = crs.showDeleted /\ ~d.onInsertRow
      /\ \A i \in 1..NumRows(crs) : KeepsId(crs.rvh[i], d.rvh[i])
    BY <1>1 DEF Rewrites
<1>3. /\ NumRows(crs) \in Nat /\ NumRows(crs) <= MaxRows /\ crs.showDeleted
      /\ numRows = NumRows(crs) /\ Counted /\ issued \in Nat
    BY OwnFacts DEF Layers, Counted, CountsAgree
<1>4. IsFiniteSet(dels)
  <2>1. PICK k : k = NumRows(crs)
      OBVIOUS
  <2>2. 1 \in Int /\ k \in Int
      BY <1>3, <2>1
  <2>3. IsFiniteSet(1..k)
      BY <2>2, FS_Interval
  <2> QED BY <2>1, <2>3, FS_Subset
<1>5. WellCounted(d)
    BY <1>2, <1>4 DEF WellCounted, Formed
<1>6. Counted'
    BY <1>1, <1>2, <1>3, <1>5 DEF Counted, CountsAgree
<1>7. Layers'
    BY <1>1, <1>2, <1>3, <1>6 DEF Layers
<1>8. Ready(d, issued)
    BY <1>2 DEF Ready
<1>9. Calm
    BY <1>1, <1>2, <1>8 DEF Calm
<1> QED BY <1>7, <1>9

\* Off the insert row with the cursor where it was, a placed client still is.
LEMMA EditKeeps ==
    ASSUME Layers, ~crs.onInsertRow, Edits(crs, crs', crs.deletedRows),
           UNCHANGED <<own, placed, held, mOnInsert, mRowInserted, issued>>
    PROVE  Layers' /\ Calm
<1>1. PICK d : d = crs'
    OBVIOUS
<1>2. PICK dels : dels = crs.deletedRows
    OBVIOUS
<1>3. Edits(crs, d, dels) /\ Counted
    BY <1>1, <1>2 DEF Layers
<1>4. /\ d.deletedRows = crs.deletedRows /\ NumRows(d) = NumRows(crs) /\ d.cursorPos = crs.cursorPos
      /\ Rewrites(crs, d, dels)
    BY <1>2, <1>3 DEF Edits, Rewrites
<1>5. dels \in SUBSET (1..NumRows(crs)) /\ crs.deletedRows \subseteq dels
    BY <1>2, <1>3, OwnFacts
<1>6. ASSUME placed PROVE Placed(d, absolutePos)
  <2>1. Place(crs, crs.cursorPos) /\ absolutePos = AbsolutePos(crs.deletedRows, crs.cursorPos)
      BY <1>6 DEF Layers, Placed
  <2>2. Place(d, crs.cursorPos)
      BY <1>4, <2>1 DEF Place
  <2> QED BY <1>4, <2>1, <2>2 DEF Placed
<1>7. /\ numRows' = numRows /\ deletedRows' = dels /\ absolutePos' = absolutePos /\ absolutePos \in Int
      /\ mOnInsert' = FALSE /\ mRowInserted' \in BOOLEAN /\ placed' = placed /\ placed \in BOOLEAN
      /\ held' = held /\ held.mark \in 0..(MaxRows + 1) /\ issued' = issued
    BY <1>2 DEF own, Layers, Counted, CountsAgree
<1>8. Rewrites(crs, crs', dels) /\ (placed' => Placed(crs', absolutePos')) /\ held'.mark \in 0..(MaxRows + 1)
    BY <1>1, <1>4, <1>6, <1>7
<1> QED BY <1>5, <1>7, <1>8, RewriteKeeps
----------------------------------------------------------------------------
(* Each action keeps the agreement.                                        *)

\* Navigation.
LEMMA NavigateKeeps ==
    ASSUME Layers, ~crs.onInsertRow, Navigate, UNCHANGED held
    PROVE  Layers' /\ Calm
<1>1. Counted /\ placed \in BOOLEAN /\ held'.mark \in 0..(MaxRows + 1) /\ OwnSize \in Nat
    BY OwnFacts DEF Layers
<1>2. placed => Placed(crs, absolutePos)
    BY DEF Layers
<1>3. CASE ToBeforeFirst /\ placed' = TRUE
  <2>1. Travels /\ Placed(crs', absolutePos')
      BY <1>1, <1>3, EndsPlaced
  <2> QED BY <1>1, <1>3, <2>1, MoveKeeps
<1>4. CASE ToAfterLast /\ placed' = (placed \/ OwnSize # 0)
  <2>1. /\ Travels
        /\ IF OwnSize = 0 THEN crs' = crs /\ absolutePos' = absolutePos
           ELSE Placed(crs', absolutePos')
      BY <1>1, <1>4, EndsPlaced
  <2>2. ASSUME placed' PROVE Placed(crs', absolutePos')
      BY <1>2, <1>4, <2>1, <2>2
  <2>3. placed' \in BOOLEAN
      BY <1>4
  <2> QED BY <1>1, <2>1, <2>2, <2>3, MoveKeeps
<1>5. CASE (ToFirst \/ ToLast) /\ placed' = (deletedRows = {} /\ ~IsEmpty(crs))
  <2>1. Travels /\ (deletedRows = {} /\ ~IsEmpty(crs) => Placed(crs', absolutePos'))
      BY <1>1, <1>5, FirstLastPlaced
  <2>2. placed' \in BOOLEAN /\ (placed' => Placed(crs', absolutePos'))
      BY <1>5, <2>1
  <2> QED BY <1>1, <2>1, <2>2, MoveKeeps
<1>6. CASE placed /\ (\E d \in {-1, 1} : StepRow(d)) /\ UNCHANGED placed
  <2>1. Travels /\ Placed(crs', absolutePos')
      BY <1>1, <1>2, <1>6, StepPlaced
  <2> QED BY <1>1, <1>6, <2>1, MoveKeeps
<1>7. CASE \E n \in -1..(MaxRows + 1) : ToRow(n) /\ placed' = (placed \/ OwnSize # 0)
  <2>1. PICK n \in -1..(MaxRows + 1) : ToRow(n) /\ placed' = (placed \/ OwnSize # 0)
      BY <1>7
  <2>2. n \in Int
      OBVIOUS
  <2>3. /\ Travels
        /\ \/ Placed(crs', absolutePos')
           \/ OwnSize = 0 /\ crs' = crs /\ absolutePos' = absolutePos
      BY <1>1, <2>1, <2>2, ToRowPlaced
  <2>4. ASSUME placed' PROVE Placed(crs', absolutePos')
      BY <1>2, <2>1, <2>3, <2>4
  <2>5. placed' \in BOOLEAN
      BY <2>1
  <2> QED BY <1>1, <2>3, <2>4, <2>5, MoveKeeps
<1>8. CASE placed /\ \E n \in {-1, 1} : ToRelative(n) /\ placed' = (placed \/ OwnSize # 0)
  <2>1. PICK n \in {-1, 1} : ToRelative(n)
      BY <1>8
  <2>2. n \in Int
      OBVIOUS
  <2>3. /\ Travels
        /\ \/ Placed(crs', absolutePos')
           \/ crs' = crs /\ absolutePos' = absolutePos
      BY <1>1, <2>1, <2>2, ToRelativePlaced
  <2>4. Placed(crs', absolutePos')
      BY <1>2, <1>8, <2>3
  <2>5. placed' \in BOOLEAN
      BY <1>8
  <2> QED BY <1>1, <2>3, <2>4, <2>5, MoveKeeps
<1>9. CASE placed /\ (\E n \in {-1, 1} : ToRelative(n)) /\ placed' = (placed \/ OwnSize # 0)
    BY <1>8, <1>9
<1> QED BY <1>3, <1>4, <1>5, <1>6, <1>7, <1>9 DEF Navigate

\* Moves to a bookmark.
LEMMA BookmarkMovesKeep ==
    ASSUME Layers, ~crs.onInsertRow,
           MoveToBookmark(held.mark) \/ \E n \in {-1, 0, 1} : MoveRelativeToBookmark(held.mark, n)
    PROVE  Layers' /\ Calm /\ UNCHANGED held
<1>1. Counted /\ held.mark \in 0..(MaxRows + 1) /\ MaxRows \in Nat
    BY BoundsAssumption DEF Layers
<1>2. held.mark \in Nat
    BY <1>1
<1>3. CASE MoveToBookmark(held.mark)
  <2>1. /\ Travels /\ placed' \in BOOLEAN /\ (placed' => Placed(crs', absolutePos'))
      BY <1>1, <1>2, <1>3, MoveToBookmarkPlaced
  <2>2. UNCHANGED held
      BY <1>3 DEF MoveToBookmark
  <2> QED BY <1>1, <2>1, <2>2, MoveKeeps
<1>4. CASE \E n \in {-1, 0, 1} : MoveRelativeToBookmark(held.mark, n)
  <2>1. PICK n \in {-1, 0, 1} : MoveRelativeToBookmark(held.mark, n)
      BY <1>4
  <2>2. n \in Int
      OBVIOUS
  <2>3. Travels /\ placed' = FALSE
      BY <1>1, <1>2, <2>1, <2>2, MoveRelativeTravels
  <2>4. UNCHANGED held
      BY <2>1 DEF MoveRelativeToBookmark
  <2> QED BY <1>1, <2>3, <2>4, MoveKeeps
<1> QED BY <1>3, <1>4

\* The way back from the insert row.
LEMMA BackFacts ==
    ASSUME Counted, NEW d, d = MoveToCurrentRow(crs)
    PROVE  /\ Rewrites(crs, d, crs.deletedRows) /\ WellCounted(d) /\ d.rvh = crs.rvh
           /\ BackPos \in Int /\ Place(crs, Cursor(BackPos)) /\ Cursor(BackPos) \in 0..NumRows(crs)
           /\ d.cursorPos \in Left(crs) => Cursor(BackPos) = d.cursorPos
<1>1. /\ Formed(crs) /\ crs \in Cache /\ NumRows(crs) \in Nat /\ crs.showDeleted
      /\ WellCounted(crs)
    BY OwnFacts DEF Counted
<1>2. /\ d \in Cache /\ d.rvh = crs.rvh /\ d.deletedRows = crs.deletedRows /\ ~d.onInsertRow
      /\ d.showDeleted = crs.showDeleted
    BY <1>1 DEF MoveToCurrentRow, Cache
<1>3. NumRows(d) = NumRows(crs)
    BY <1>2 DEF NumRows
<1>4. \A i \in 1..NumRows(crs) : KeepsId(crs.rvh[i], d.rvh[i])
    BY <1>2 DEF KeepsId
<1>5. Rewrites(crs, d, crs.deletedRows)
    BY <1>2, <1>3, <1>4 DEF Rewrites
<1>6. WellCounted(d)
    BY <1>1, <1>2, <1>3 DEF WellCounted, Formed
<1>7. PICK r : r = GetRow(d)
    OBVIOUS
<1>8. r \in 0..NumRows(crs) /\ r \in Int /\ (d.cursorPos \in 1..NumRows(crs) => r = d.cursorPos)
  <2>1. IsEmpty(d) <=> NumRows(crs) = 0
      BY <1>1, <1>2, <1>3 DEF IsEmpty, Size
  <2> QED BY <1>1, <1>2, <1>3, <1>7, <2>1 DEF GetRow
<1>9. BackPos = PosOf(r)
    BY <1>7 DEF BackPos
<1>10. BackPos \in Int
    BY <1>8, <1>9, OwnPlaces
<1>11. CASE r \in Left(crs)
  <2>1. Place(crs, r) /\ PosOf(r) = AbsolutePos(crs.deletedRows, r)
      BY <1>11, OwnPlaces
  <2>2. Cursor(BackPos) = r
      BY <1>9, <2>1, OwnPlaces
  <2>3. d.cursorPos \in Left(crs) => r = d.cursorPos
      BY <1>8 DEF Left
  <2> QED BY <1>2, <1>5, <1>6, <1>8, <1>10, <2>1, <2>2, <2>3
<1>12. CASE r \notin Left(crs)
  <2>1. r = 0 \/ r \in crs.deletedRows
      BY <1>1, <1>8, <1>12 DEF Left
  <2>2. PosOf(r) = 0
      BY <2>1, OwnPlaces
  <2>3. Cursor(BackPos) = 0 /\ Place(crs, 0)
      BY <1>9, <2>2, OwnPlaces
  <2>4. d.cursorPos \notin Left(crs)
      BY <1>8, <1>12 DEF Left
  <2> QED BY <1>1, <1>2, <1>5, <1>6, <1>10, <2>3, <2>4
<1> QED BY <1>11, <1>12

\* Taking a bookmark: a place in the list or next to it.
LEMMA GetBookmarkKeeps ==
    ASSUME Layers, GetBookmark
    PROVE  /\ Layers' /\ Calm
           /\ crs'.cursorPos \in Left(crs) => held'.mark = crs'.cursorPos
<1>1. /\ Counted /\ placed \in BOOLEAN /\ mOnInsert \in BOOLEAN /\ MaxRows \in Nat
      /\ NumRows(crs) \in Nat /\ NumRows(crs) <= MaxRows
      /\ crs.deletedRows \in SUBSET (1..NumRows(crs))
      /\ crs \in Cache /\ absolutePos \in Int /\ mRowInserted \in BOOLEAN
    BY OwnFacts, BoundsAssumption DEF Layers, Counted
<1>2. CASE ~mOnInsert
  <2>1. placed /\ To(crs, absolutePos)
      BY <1>2 DEF GetBookmark
  <2>2. placed' = placed
      BY <1>1, <1>2 DEF GetBookmark
  <2>3. held'.mark = Cursor(absolutePos)
      BY <1>2 DEF GetBookmark, Mark
  <2>4. Place(crs, crs.cursorPos) /\ absolutePos = AbsolutePos(crs.deletedRows, crs.cursorPos)
        /\ ~crs.onInsertRow /\ Placed(crs, absolutePos)
      BY <2>1 DEF Layers, Placed
  <2>5. Cursor(absolutePos) = crs.cursorPos /\ crs.cursorPos \in 0..(NumRows(crs) + 1)
      BY <1>1, <2>4, OwnPlaces DEF Place
  <2>6. Alike(crs, crs)
      BY <1>1, AlikeSelf
  <2>7. Travels /\ crs' = crs /\ absolutePos' = absolutePos
      BY <1>1, <2>1, <2>6, ToTravels
  <2>8. held'.mark \in 0..(MaxRows + 1) /\ held'.mark = crs'.cursorPos
      BY <1>1, <2>3, <2>5, <2>7
  <2>9. Placed(crs', absolutePos') /\ placed' \in BOOLEAN
      BY <1>1, <2>2, <2>4, <2>7
  <2> QED BY <2>4, <2>7, <2>8, <2>9, MoveKeeps
<1>3. CASE mOnInsert
  <2>1. PICK d : d = MoveToCurrentRow(crs)
      OBVIOUS
  <2>2. To(d, BackPos) /\ held'.mark = Cursor(BackPos)
      BY <1>3, <2>1 DEF GetBookmark, Mark
  <2>3. placed' = FALSE
      BY <1>3 DEF GetBookmark
  <2>4. /\ Rewrites(crs, d, crs.deletedRows) /\ BackPos \in Int
        /\ Cursor(BackPos) \in 0..NumRows(crs)
        /\ d.cursorPos \in Left(crs) => Cursor(BackPos) = d.cursorPos
      BY <1>1, <2>1, BackFacts
  <2>5. /\ crs' = d /\ absolutePos' = BackPos /\ mOnInsert' = FALSE /\ numRows' = numRows
        /\ deletedRows' = crs.deletedRows /\ mRowInserted' = mRowInserted /\ issued' = issued
      BY <1>1, <2>2 DEF To, Go, Counted, CountsAgree
  <2>6. held'.mark \in 0..(MaxRows + 1)
      BY <1>1, <2>2, <2>4
  <2>7. PICK dels : dels = crs.deletedRows
      OBVIOUS
  <2>8. /\ dels \in SUBSET (1..NumRows(crs)) /\ crs.deletedRows \subseteq dels
        /\ Rewrites(crs, crs', dels) /\ deletedRows' = dels /\ absolutePos' \in Int
        /\ mRowInserted' \in BOOLEAN /\ placed' \in BOOLEAN /\ ~placed'
      BY <1>1, <2>3, <2>4, <2>5, <2>7
  <2>9. Layers' /\ Calm
      BY <2>5, <2>6, <2>8, RewriteKeeps
  <2> QED BY <2>2, <2>4, <2>5, <2>9
<1> QED BY <1>1, <1>2, <1>3

\* The insert row is entered: nowhere, and its buffer is empty.
LEMMA EnterInsertRowKeeps ==
    ASSUME Layers, BaseMoveToInsertRow, placed' = FALSE, UNCHANGED own, UNCHANGED held
    PROVE  Layers' /\ Calm
<1>1. /\ Counted /\ crs \in Cache /\ Formed(crs) /\ absolutePos \in Int /\ NumRows(crs) \in Nat
      /\ WellCounted(crs) /\ crs.showDeleted /\ NumRows(crs) <= MaxRows
      /\ numRows = NumRows(crs) /\ deletedRows = crs.deletedRows /\ issued \in Nat
      /\ mRowInserted \in BOOLEAN /\ held.mark \in 0..(MaxRows + 1)
    BY OwnFacts DEF Layers, Counted, CountsAgree
<1>2. PICK d : d = crs'
    OBVIOUS
<1>3. /\ d \in Cache /\ d.onInsertRow /\ d.insertRow.given = {} /\ d.rvh = crs.rvh
      /\ d.deletedRows = crs.deletedRows /\ d.showDeleted = crs.showDeleted
  <2>1. PICK empty : empty = [crs.insertRow EXCEPT !.given = {}]
      OBVIOUS
  <2>2. empty \in InsertBuffer /\ empty.given = {} /\ crs.cursorPos \in Int /\ -1 \in Int
      BY <1>1, <2>1 DEF Cache, InsertBuffer
  <2>3. d = [crs EXCEPT !.onInsertRow = TRUE, !.currentRow = crs.cursorPos, !.cursorPos = -1,
                        !.insertRow = empty]
      BY <1>1, <1>2, <2>1 DEF BaseMoveToInsertRow, MoveToInsertRow, Cache
  <2> QED BY <1>1, <2>2, <2>3 DEF Cache
<1>4. NumRows(d) = NumRows(crs)
    BY <1>3 DEF NumRows
<1>5. WellCounted(d)
    BY <1>1, <1>3, <1>4 DEF WellCounted, Formed
<1>6. numRows' = numRows /\ deletedRows' = deletedRows /\ absolutePos' = absolutePos
    BY DEF own
<1>7. mOnInsert' = TRUE /\ mRowInserted' = mRowInserted /\ issued' = issued
    BY DEF BaseMoveToInsertRow
<1>8. Counted'
    BY <1>1, <1>2, <1>3, <1>4, <1>5, <1>6 DEF Counted, CountsAgree
<1>9. Layers'
    BY <1>1, <1>2, <1>3, <1>7, <1>8 DEF Layers
<1>10. \A i \in 1..NumRows(crs) : KeepsId(crs.rvh[i], d.rvh[i])
    BY <1>3 DEF KeepsId
<1>11. Ready(d, issued)
    BY <1>3 DEF Ready
<1>12. Calm
    BY <1>2, <1>3, <1>4, <1>7, <1>10, <1>11 DEF Calm
<1> QED BY <1>9, <1>12

\* updateXXX on the insert row puts the next id in the buffer.
LEMMA BufferKeeps ==
    ASSUME Layers, crs.onInsertRow, UpdateXXX, UNCHANGED <<own, placed>>, UNCHANGED held
    PROVE  Layers' /\ Calm
<1>1. /\ Counted /\ crs \in Cache /\ Formed(crs) /\ absolutePos \in Int /\ NumRows(crs) \in Nat
      /\ WellCounted(crs) /\ crs.showDeleted /\ NumRows(crs) <= MaxRows
      /\ numRows = NumRows(crs) /\ deletedRows = crs.deletedRows /\ issued \in Nat
      /\ mRowInserted \in BOOLEAN /\ held.mark \in 0..(MaxRows + 1) /\ mOnInsert \in BOOLEAN
    BY OwnFacts DEF Layers, Counted, CountsAgree
<1>2. issued < MaxInit + MaxInserts
    BY DEF UpdateXXX
<1>3. PICK d, n : d = crs' /\ n = issued + 1
    OBVIOUS
<1>4. /\ crs.insertRow \in InsertBuffer /\ crs.insertRow.vals \in Values
      /\ crs.insertRow.given \in SUBSET Column
    BY <1>1 DEF Cache, InsertBuffer
<1>5. Id \in Column /\ n \in Datum
  <2>1. MaxInit \in Nat /\ MaxInserts \in Nat
      BY BoundsAssumption
  <2>2. n \in 1..(MaxInit + MaxInserts)
      BY <1>1, <1>2, <1>3, <2>1
  <2>3. n \in Value
      BY <2>2, IdAssumption
  <2> QED BY <2>3, IdAssumption DEF Datum
<1>6. PICK v, g : /\ v = [crs.insertRow.vals EXCEPT ![Id] = n]
                  /\ g = crs.insertRow.given \cup {Id}
    OBVIOUS
<1>7. v \in Values /\ v[Id] = n /\ g \in SUBSET Column
    BY <1>4, <1>5, <1>6 DEF Values
<1>8. PICK b : b = [crs.insertRow EXCEPT !.vals = v, !.given = g]
    OBVIOUS
<1>9. b \in InsertBuffer /\ b.vals = v
    BY <1>4, <1>7, <1>8 DEF InsertBuffer
<1>10. d = [crs EXCEPT !.insertRow = b]
  <2>1. d = UpdateColumn(crs, Id, n)
      BY <1>3 DEF UpdateXXX, Step
  <2> QED BY <1>1, <1>6, <1>8, <2>1 DEF UpdateColumn, Cache, InsertBuffer
<1>11. /\ d \in Cache /\ d.onInsertRow /\ d.insertRow = b /\ d.rvh = crs.rvh
       /\ d.deletedRows = crs.deletedRows /\ d.showDeleted = crs.showDeleted
    BY <1>1, <1>9, <1>10 DEF Cache
<1>12. NumRows(d) = NumRows(crs)
    BY <1>11 DEF NumRows
<1>13. WellCounted(d)
    BY <1>1, <1>11, <1>12 DEF WellCounted, Formed
<1>14. /\ numRows' = numRows /\ deletedRows' = deletedRows /\ absolutePos' = absolutePos
       /\ placed' = placed
    BY DEF own
<1>15. mOnInsert' = mOnInsert /\ mRowInserted' = mRowInserted /\ issued' = issued
    BY DEF UpdateXXX, Step
<1>16. Counted'
    BY <1>1, <1>3, <1>11, <1>12, <1>13, <1>14 DEF Counted, CountsAgree
<1>17. placed = FALSE
    BY DEF Layers
<1>18. Layers'
    BY <1>1, <1>3, <1>11, <1>14, <1>15, <1>16, <1>17 DEF Layers
<1>19. \A i \in 1..NumRows(crs) : KeepsId(crs.rvh[i], d.rvh[i])
    BY <1>11 DEF KeepsId
<1>20. Ready(d, issued)
    BY <1>2, <1>3, <1>7, <1>9, <1>11 DEF Ready
<1>21. Calm
    BY <1>3, <1>11, <1>12, <1>15, <1>19, <1>20 DEF Calm
<1> QED BY <1>18, <1>21

\* updateXXX, cancelRowUpdates and updateRow on a row of the list.
LEMMA RowEditsKeep ==
    ASSUME Layers, ~crs.onInsertRow, UpdateXXX \/ BaseCancelRowUpdates \/ BaseUpdateRow(TRUE),
           UNCHANGED <<own, placed>>, UNCHANGED held
    PROVE  Layers' /\ Calm
<1>1. WellCounted(crs)
    BY DEF Layers, Counted
<1>2. CASE UpdateXXX
  <2>1. OnRow(crs)
      BY <1>2 DEF UpdateXXX, CheckCursor, OnRow
  <2>2. /\ crs' = UpdateColumn(crs, Id, IdOf(crs.rvh[crs.cursorPos]))
        /\ UNCHANGED <<mOnInsert, mRowInserted, issued>>
      BY <1>2 DEF UpdateXXX, Step, Here
  <2>3. Edits(crs, crs', crs.deletedRows)
      BY <1>1, <2>1, <2>2, RowCallsEdit
  <2> QED BY <2>2, <2>3, EditKeeps
<1>3. CASE BaseCancelRowUpdates
  <2>1. OnRow(crs) /\ crs' = CancelRowUpdates(crs) /\ UNCHANGED <<mOnInsert, mRowInserted, issued>>
      BY <1>3 DEF BaseCancelRowUpdates, Step
  <2>2. Edits(crs, crs', crs.deletedRows)
      BY <1>1, <2>1, RowCallsEdit
  <2> QED BY <2>1, <2>2, EditKeeps
<1>4. CASE BaseUpdateRow(TRUE)
  <2>1. /\ OnRow(crs) /\ crs' = Accepted(UpdateRow(crs), TRUE)
        /\ UNCHANGED <<mOnInsert, mRowInserted, issued>>
      BY <1>4 DEF BaseUpdateRow, Step
  <2>2. PICK d : d = UpdateRow(crs)
      OBVIOUS
  <2>3. Edits(crs, d, crs.deletedRows)
      BY <1>1, <2>1, <2>2, RowCallsEdit
  <2>4. WellCounted(d) /\ ~d.onInsertRow /\ d.deletedRows = crs.deletedRows
      BY <1>1, <2>3 DEF Edits, WellCounted, Formed
  <2>5. Edits(d, Accepted(d, TRUE), d.deletedRows)
      BY <2>4, AcceptedEdits
  <2>6. Edits(crs, Accepted(d, TRUE), d.deletedRows)
      BY <2>3, <2>5, EditsOn
  <2>7. Edits(crs, crs', crs.deletedRows)
      BY <2>1, <2>2, <2>4, <2>6
  <2> QED BY <2>1, <2>7, EditKeeps
<1> QED BY <1>2, <1>3, <1>4

\* insertRow appends the row of the buffer, which waits to be accepted.
LEMMA InsertOneKeeps ==
    ASSUME Layers, InsertOne, UNCHANGED held
    PROVE  /\ Layers'
           /\ crs'.onInsertRow /\ issued' = issued + 1 /\ NumRows(crs') = NumRows(crs) + 1
           /\ crs'.deletedRows = crs.deletedRows
           /\ \A i \in 1..NumRows(crs) : crs'.rvh[i] = crs.rvh[i]
           /\ crs'.rvh[NumRows(crs')] = [NewRow(crs.insertRow.vals) EXCEPT !.flags = {"created"}]
<1>1. /\ Counted /\ crs \in Cache /\ absolutePos \in Int /\ NumRows(crs) \in Nat
      /\ WellCounted(crs) /\ Formed(crs) /\ crs.showDeleted /\ NumRows(crs) <= MaxRows
      /\ numRows = NumRows(crs) /\ deletedRows = crs.deletedRows /\ issued \in Nat
      /\ mRowInserted \in BOOLEAN /\ held.mark \in 0..(MaxRows + 1) /\ mOnInsert \in BOOLEAN
      /\ MaxRows \in Nat
    BY OwnFacts, BoundsAssumption DEF Layers, Counted, CountsAgree
<1>2. /\ CanInsertRow(crs) /\ NumRows(crs) < MaxRows /\ crs' = InsertRow(crs)
      /\ mRowInserted' = TRUE /\ issued' = issued + 1 /\ mOnInsert' = mOnInsert
      /\ numRows' = numRows + 1 /\ deletedRows' = deletedRows /\ absolutePos' = absolutePos
      /\ placed' = placed
    BY DEF InsertOne, BaseInsertRow
<1>3. /\ crs.onInsertRow /\ crs.rvh \in Seq(Row) /\ NumRows(crs) = Len(crs.rvh)
      /\ crs.insertRow \in InsertBuffer /\ crs.insertRow.vals \in Values
    BY <1>1, <1>2 DEF CanInsertRow, Cache, InsertBuffer, NumRows
<1>4. PICK row : row = [NewRow(crs.insertRow.vals) EXCEPT !.flags = {"created"}]
    OBVIOUS
<1>5. row \in Row
    BY <1>3, <1>4, NewRowType DEF Flag
<1>6. PICK rows : rows = Append(crs.rvh, row)
    OBVIOUS
<1>7. /\ rows \in Seq(Row) /\ Len(rows) = NumRows(crs) + 1
      /\ \A i \in 1..NumRows(crs) : rows[i] = crs.rvh[i]
      /\ rows[NumRows(crs) + 1] = row
    BY <1>3, <1>5, <1>6
<1>8. PICK d : d = crs'
    OBVIOUS
<1>9. d = [crs EXCEPT !.rvh = rows]
    BY <1>2, <1>4, <1>6, <1>8 DEF InsertRow
<1>10. /\ d \in Cache /\ d.rvh = rows /\ d.onInsertRow /\ d.deletedRows = crs.deletedRows
       /\ d.showDeleted = crs.showDeleted
    BY <1>1, <1>3, <1>7, <1>9 DEF Cache
<1>11. NumRows(d) = NumRows(crs) + 1 /\ NumRows(d) <= MaxRows
    BY <1>1, <1>2, <1>7, <1>10 DEF NumRows
<1>12. WellCounted(d)
  <2>1. crs.deletedRows \subseteq 1..NumRows(d)
      BY <1>1, <1>11 DEF WellCounted
  <2> QED BY <1>1, <1>10, <2>1 DEF WellCounted, Formed
<1>13. Counted'
    BY <1>1, <1>2, <1>8, <1>10, <1>11, <1>12 DEF Counted, CountsAgree
<1>14. placed = FALSE
    BY <1>3 DEF Layers
<1>15. Layers'
    BY <1>1, <1>2, <1>8, <1>10, <1>13, <1>14 DEF Layers
<1>16. d.rvh[NumRows(d)] = row /\ \A i \in 1..NumRows(crs) : d.rvh[i] = crs.rvh[i]
    BY <1>7, <1>10, <1>11
<1> QED BY <1>2, <1>4, <1>8, <1>10, <1>11, <1>15, <1>16

\* The insert row is left, and a row inserted there accepted.
LEMMA LeaveInsertRowKeeps ==
    ASSUME Layers, LeaveInsertRow, UNCHANGED held
    PROVE  Layers' /\ Calm
<1>1. /\ Counted /\ mRowInserted \in BOOLEAN /\ held.mark \in 0..(MaxRows + 1)
      /\ NumRows(crs) \in Nat /\ crs.deletedRows \in SUBSET (1..NumRows(crs))
      /\ numRows = NumRows(crs) /\ deletedRows = crs.deletedRows
    BY OwnFacts DEF Layers, Counted, CountsAgree
<1>2. PICK d : d = MoveToCurrentRow(crs)
    OBVIOUS
<1>3. Rewrites(crs, d, crs.deletedRows) /\ WellCounted(d) /\ BackPos \in Int
    BY <1>1, <1>2, BackFacts
<1>4. PICK e : e = Accepted(d, TRUE)
    OBVIOUS
<1>5. Edits(d, e, d.deletedRows) /\ WellCounted(e)
    BY <1>3, <1>4, AcceptedEdits DEF Rewrites
<1>6. PICK f : f = Last(e)
    OBVIOUS
<1>7. Alike(e, f)
    BY <1>5, <1>6, FirstLastAlike DEF WellCounted
<1>8. Rewrites(crs, f, crs.deletedRows)
  <2>1. /\ f \in Cache /\ f.rvh = e.rvh /\ f.deletedRows = crs.deletedRows
        /\ f.showDeleted = crs.showDeleted /\ ~f.onInsertRow /\ NumRows(f) = NumRows(crs)
      BY <1>3, <1>5, <1>7 DEF Alike, Edits, Rewrites, NumRows
  <2>2. ASSUME NEW i \in 1..NumRows(crs) PROVE KeepsId(crs.rvh[i], f.rvh[i])
    <3>1. KeepsId(crs.rvh[i], d.rvh[i]) /\ KeepsId(d.rvh[i], e.rvh[i])
        BY <1>3, <1>5 DEF Edits, Rewrites
    <3>2. PICK row, new, last : row = crs.rvh[i] /\ new = d.rvh[i] /\ last = e.rvh[i]
        OBVIOUS
    <3>3. KeepsId(row, last)
        BY <3>1, <3>2 DEF KeepsId
    <3> QED BY <2>1, <3>2, <3>3
  <2> QED BY <2>1, <2>2 DEF Rewrites
<1>9. /\ crs' \in {d, f} /\ mOnInsert' = FALSE /\ mRowInserted' \in BOOLEAN /\ issued' = issued
  <2>1. CASE mOnInsert /\ InternalMoveToCurrentRow
      BY <1>1, <1>2, <2>1 DEF InternalMoveToCurrentRow, Go
  <2>2. CASE BaseMoveToCurrentRow(TRUE)
      BY <1>2, <1>4, <1>6, <2>2 DEF BaseMoveToCurrentRow, AcceptInsert
  <2> QED BY <2>1, <2>2 DEF LeaveInsertRow
<1>10. Rewrites(crs, crs', crs.deletedRows)
    BY <1>3, <1>8, <1>9
<1>11. /\ numRows' = numRows /\ deletedRows' = crs.deletedRows /\ absolutePos' \in Int
       /\ placed' = FALSE
    BY <1>1, <1>3 DEF LeaveInsertRow
<1>12. PICK dels : dels = crs.deletedRows
    OBVIOUS
<1>13. /\ dels \in SUBSET (1..NumRows(crs)) /\ crs.deletedRows \subseteq dels
       /\ Rewrites(crs, crs', dels) /\ deletedRows' = dels
       /\ placed' \in BOOLEAN /\ ~placed' /\ held'.mark \in 0..(MaxRows + 1)
    BY <1>1, <1>10, <1>11, <1>12
<1> QED BY <1>9, <1>11, <1>13, RewriteKeeps

\* A row is deleted where the client is, and marked in both layers.
LEMMA AfterDeleteKeeps ==
    ASSUME Layers, placed, UNCHANGED held, NEW c, Alike(crs, c), c.cursorPos = crs.cursorPos,
           c.cursorPos \in 1..NumRows(c), AfterDelete(c)
    PROVE  Layers' /\ Calm
<1>1. /\ Counted /\ mRowInserted \in BOOLEAN /\ held.mark \in 0..(MaxRows + 1)
      /\ NumRows(crs) \in Nat /\ crs.deletedRows \in SUBSET (1..NumRows(crs))
      /\ deletedRows = crs.deletedRows /\ absolutePos \in Int /\ WellCounted(crs)
      /\ ~crs.onInsertRow /\ Placed(crs, absolutePos) /\ mOnInsert = FALSE
    BY OwnFacts DEF Layers, Counted, CountsAgree
<1>2. /\ c \in Cache /\ c.rvh = crs.rvh /\ c.deletedRows = crs.deletedRows /\ ~c.onInsertRow
      /\ c.showDeleted = crs.showDeleted /\ NumRows(c) = NumRows(crs)
    BY <1>1 DEF Alike, NumRows
<1>3. WellCounted(c) /\ OnRow(c)
    BY <1>1, <1>2 DEF WellCounted, Formed, OnRow
<1>4. PICK d, dels : d = DeleteRow(c) /\ dels = c.deletedRows \cup {c.cursorPos}
    OBVIOUS
<1>5. Edits(c, d, dels)
    BY <1>3, <1>4, RowCallsEdit
<1>6. dels \in SUBSET (1..NumRows(crs)) /\ crs.deletedRows \subseteq dels
    BY <1>1, <1>2, <1>4
<1>7. WellCounted(d) /\ ~d.onInsertRow /\ d.deletedRows = dels
  <2>1. IsFiniteSet(dels)
      BY <1>3, <1>4, FS_AddElement DEF WellCounted, Formed
  <2> QED BY <1>2, <1>5, <1>6, <2>1 DEF Edits, WellCounted, Formed
<1>8. PICK e : e = Accepted(d, TRUE)
    OBVIOUS
<1>9. Edits(d, e, dels) /\ WellCounted(e) /\ ~e.onInsertRow /\ e.deletedRows = dels
    BY <1>7, <1>8, AcceptedEdits DEF Edits
<1>10. PICK f : f = Accepted(e, TRUE)
    OBVIOUS
<1>11. Edits(e, f, dels)
    BY <1>9, <1>10, AcceptedEdits
<1>12. Edits(c, f, dels)
    BY <1>5, <1>9, <1>11, EditsOn
<1>13. Rewrites(crs, f, dels)
    BY <1>2, <1>12 DEF Edits, Rewrites
<1>14. /\ crs' = f /\ UNCHANGED <<mOnInsert, mRowInserted, issued>> /\ deletedRows' = OwnDeleted
       /\ placed' = FALSE /\ numRows' = numRows /\ absolutePos' = absolutePos
    BY <1>4, <1>8, <1>10 DEF AfterDelete, Step
<1>15. OwnDeleted = dels
  <2>1. Place(crs, crs.cursorPos) /\ absolutePos = AbsolutePos(crs.deletedRows, crs.cursorPos)
      BY <1>1 DEF Placed
  <2>2. OwnCursor = crs.cursorPos
      BY <1>1, <2>1, OwnPlaces DEF OwnCursor
  <2>3. ~(OwnCursor < 0)
      BY <1>1, <1>2, <2>2
  <2> QED BY <1>1, <1>2, <1>4, <2>2, <2>3 DEF OwnDeleted
<1>16. /\ Rewrites(crs, crs', dels) /\ deletedRows' = dels /\ absolutePos' \in Int
       /\ issued' = issued /\ mOnInsert' = FALSE /\ mRowInserted' \in BOOLEAN
       /\ placed' \in BOOLEAN /\ ~placed' /\ held'.mark \in 0..(MaxRows + 1)
    BY <1>1, <1>13, <1>14, <1>15
<1> QED BY <1>6, <1>14, <1>16, RewriteKeeps

\* deleteRow, and deleteRows with the bookmark of the row the client is on.
LEMMA DeletesKeep ==
    ASSUME Layers, UNCHANGED held, DeleteOne \/ DeleteRows(held.mark)
    PROVE  Layers' /\ Calm
<1>1. CASE DeleteOne
  <2>1. crs \in Cache
      BY OwnFacts DEF Layers
  <2>2. Alike(crs, crs)
      BY <2>1, AlikeSelf
  <2>3. placed /\ crs.cursorPos \in 1..NumRows(crs) /\ AfterDelete(crs)
      BY <1>1 DEF DeleteOne, OnRow
  <2> QED BY <2>2, <2>3, AfterDeleteKeeps
<1>2. CASE DeleteRows(held.mark)
  <2>1. /\ Counted /\ Formed(crs) /\ crs.showDeleted /\ NumRows(crs) \in Nat
        /\ held.mark \in 0..(MaxRows + 1) /\ MaxRows \in Nat
      BY OwnFacts, BoundsAssumption DEF Layers, Counted
  <2>2. PICK mark : mark = held.mark
      OBVIOUS
  <2>3. mark \in Nat /\ mark \in Int
      BY <2>1, <2>2
  <2>4. placed /\ mark = OwnCursor /\ Moved(crs, mark)
      BY <1>2, <2>2 DEF DeleteRows
  <2>5. ~crs.onInsertRow /\ ~mOnInsert /\ Placed(crs, absolutePos)
      BY <2>4 DEF Layers
  <2>6. mark = crs.cursorPos
    <3>1. Place(crs, crs.cursorPos) /\ absolutePos = AbsolutePos(crs.deletedRows, crs.cursorPos)
        BY <2>5 DEF Placed
    <3> QED BY <2>1, <2>4, <3>1, OwnPlaces DEF OwnCursor
  <2>7. PICK at : at = Absolute(crs, mark)
      OBVIOUS
  <2>8. Alike(crs, at) /\ at.cursorPos = mark /\ mark \in 1..NumRows(crs)
      BY <2>1, <2>3, <2>4, <2>7, AbsoluteAlike
  <2>9. NumRows(at) = NumRows(crs) /\ ~at.onInsertRow
      BY <2>5, <2>8 DEF Alike, NumRows
  <2>10. OnRow(at)
      BY <2>8, <2>9 DEF OnRow
  <2>11. AfterDelete(at)
      BY <1>2, <2>2, <2>4, <2>5, <2>7, <2>10 DEF DeleteRows
  <2> QED BY <2>4, <2>6, <2>8, <2>9, <2>11, AfterDeleteKeeps
<1> QED BY <1>1, <1>2

----------------------------------------------------------------------------
(* The theorems, for any number of inserts that wait.                      *)

\* The rows of the query, each with an id of its own.
LEMMA PopulateFacts ==
    ASSUME NEW n \in 0..MaxInit,
           NEW c, c = Populate([i \in 1..n |-> [k \in Column |-> i]], TRUE)
    PROVE  /\ WellCounted(c) /\ NumRows(c) = n /\ n <= MaxRows /\ n \in Nat
           /\ c.showDeleted /\ c.deletedRows = {} /\ ~c.onInsertRow /\ c.cursorPos = 0
           /\ \A i \in 1..n : c.rvh[i].orig[Id] = i /\ Named(c.rvh[i], Id, n)
<1>1. MaxInit \in Nat /\ MaxInserts \in Nat /\ MaxRows \in Nat /\ n \in Nat /\ n <= MaxRows
    BY BoundsAssumption
<1>2. PICK rows : rows = [i \in 1..n |-> [k \in Column |-> i]]
    OBVIOUS
<1>3. rows \in [1..n -> Values]
  <2>1. \A i \in 1..n : i \in Datum
      BY <1>1, IdAssumption DEF Datum
  <2>2. \A i \in 1..n : [k \in Column |-> i] \in Values
      BY <2>1 DEF Values
  <2> QED BY <1>2, <2>2
<1>4. /\ Formed(c) /\ ~c.onInsertRow /\ NumRows(c) = n
      /\ \A i \in 1..n : c.rvh[i] = NewRow(rows[i])
    BY <1>1, <1>2, <1>3, PopulateRows
<1>5. c.deletedRows = {} /\ c.showDeleted /\ c.cursorPos = 0
    BY DEF Populate
<1>6. ASSUME NEW i \in 1..n
      PROVE  c.rvh[i].orig[Id] = i /\ Named(c.rvh[i], Id, n)
  <2>1. rows[i][Id] = i
      BY <1>2, IdAssumption
  <2>2. c.rvh[i].changed = {} /\ c.rvh[i].orig = rows[i] /\ c.rvh[i].curr = NoValues
    <3>1. PICK v, w : v = rows[i] /\ w = c.rvh[i]
        OBVIOUS
    <3>2. w = NewRow(v)
        BY <1>4, <3>1
    <3>3. w.changed = {} /\ w.orig = v /\ w.curr = NoValues
        BY <3>2 DEF NewRow
    <3> QED BY <3>1, <3>3
  <2>3. c.rvh[i].curr[Id] = NULL
      BY <2>2, IdAssumption DEF NoValues
  <2> QED BY <2>1, <2>2, <2>3 DEF Named
<1> QED BY <1>1, <1>4, <1>5, <1>6 DEF WellCounted

\* At the start the client is before the first row, in both layers.
LEMMA InitLayers == Init => Layers
<1> SUFFICES ASSUME Init PROVE Layers
    OBVIOUS
<1>1. /\ mOnInsert = FALSE /\ mRowInserted = FALSE /\ held = [mark |-> 0, id |-> 0]
      /\ numRows = NumRows(crs) /\ deletedRows = {} /\ absolutePos = 0 /\ placed = TRUE
      /\ \E n \in 0..MaxInit : /\ crs = Populate([i \in 1..n |-> [k \in Column |-> i]], TRUE)
                               /\ issued = n
    BY DEF Init, InitBase, VOID
<1>2. PICK n \in 0..MaxInit : /\ crs = Populate([i \in 1..n |-> [k \in Column |-> i]], TRUE)
                              /\ issued = n
    BY <1>1
<1>3. /\ WellCounted(crs) /\ NumRows(crs) = n /\ n <= MaxRows /\ n \in Nat
      /\ crs.showDeleted /\ crs.deletedRows = {} /\ ~crs.onInsertRow /\ crs.cursorPos = 0
    BY <1>2, PopulateFacts
<1>4. Counted
  <2>1. numRows = NumRows(crs) /\ deletedRows = crs.deletedRows
      BY <1>1, <1>3, Zenon
  <2>2. absolutePos \in Int
      BY <1>1
  <2> QED BY <1>3, <2>1, <2>2 DEF Counted, CountsAgree
<1>5. Placed(crs, absolutePos)
    BY <1>1, <1>3, <1>4, OwnPlaces DEF Placed
<1>6. held.mark \in 0..(MaxRows + 1)
    BY <1>1, BoundsAssumption
<1> QED BY <1>1, <1>2, <1>3, <1>4, <1>5, <1>6 DEF Layers

\* Every step but insertRow is calm, and all but getBookmark leave the bookmark.
LEMMA NextCalm ==
    ASSUME Layers, Next
    PROVE  /\ Layers'
           /\ \/ Calm /\ UNCHANGED held
              \/ GetBookmark
              \/ InsertOne /\ UNCHANGED held
<1>1. CASE Edit /\ UNCHANGED held
  <2>1. CASE BaseMoveToInsertRow /\ placed' = FALSE /\ UNCHANGED own
      BY <1>1, <2>1, EnterInsertRowKeeps
  <2>2. CASE /\ UpdateXXX \/ BaseCancelRowUpdates \/ BaseUpdateRow(TRUE)
             /\ UNCHANGED <<own, placed>>
    <3>1. CASE ~crs.onInsertRow
        BY <1>1, <2>2, <3>1, RowEditsKeep
    <3>2. CASE crs.onInsertRow /\ UpdateXXX
        BY <1>1, <2>2, <3>2, BufferKeeps
    <3>3. CASE crs.onInsertRow /\ ~UpdateXXX
      <4>1. OnRow(crs)
          BY <2>2, <3>3 DEF BaseCancelRowUpdates, BaseUpdateRow
      <4> QED BY <3>3, <4>1 DEF OnRow
    <3> QED BY <3>1, <3>2, <3>3
  <2>3. CASE InsertOne
      BY <1>1, <2>3, InsertOneKeeps
  <2>4. CASE LeaveInsertRow
      BY <1>1, <2>4, LeaveInsertRowKeeps
  <2>5. CASE DeleteOne \/ DeleteRows(held.mark)
      BY <1>1, <2>5, DeletesKeep
  <2> QED BY <1>1, <2>1, <2>2, <2>3, <2>4, <2>5 DEF Edit
<1>2. CASE ~crs.onInsertRow /\ Navigate /\ UNCHANGED held
    BY <1>2, NavigateKeeps
<1>3. CASE GetBookmark
    BY <1>3, GetBookmarkKeeps
<1>4. CASE /\ ~crs.onInsertRow
           /\ MoveToBookmark(held.mark) \/ \E n \in {-1, 0, 1} : MoveRelativeToBookmark(held.mark, n)
    BY <1>4, BookmarkMovesKeep
<1> QED BY <1>1, <1>2, <1>3, <1>4 DEF Next

(* Where the client is and what the class counts is agreed upon by the two *)
(* layers in every state the program can be in.                            *)
THEOREM LayersInvariant == Spec => []Layers
<1>1. Init => Layers
    BY InitLayers
<1>2. Layers /\ [Next]_vars => Layers'
  <2> SUFFICES ASSUME Layers, [Next]_vars PROVE Layers'
      OBVIOUS
  <2>1. CASE Next
      BY <2>1, NextCalm
  <2>2. CASE UNCHANGED vars
    <3>1. UNCHANGED <<crs, mOnInsert, mRowInserted, issued, numRows, deletedRows, absolutePos, held, placed>>
        BY <2>2 DEF vars, own
    <3> QED BY <3>1 DEF Layers, Counted, CountsAgree
  <2> QED BY <2>1, <2>2
<1> QED BY <1>1, <1>2, PTL DEF Spec

(* As long as the database refuses nothing, numRows and deletedRows of the *)
(* class are those of the row set below, and a client that went to its row *)
(* by number, by bookmark or off an end is on that row in both layers.     *)
THEOREM LayersAgreeInvariant == Spec => []LayersAgree
<1>1. Layers => LayersAgree
  <2> SUFFICES ASSUME Layers PROVE LayersAgree
      OBVIOUS
  <2>1. Counted /\ CountsAgree /\ (placed => Placed(crs, absolutePos))
      BY DEF Layers, Counted
  <2>2. ASSUME placed PROVE OwnCursor = crs.cursorPos /\ crs.cursorPos \notin crs.deletedRows
    <3>1. Place(crs, crs.cursorPos) /\ absolutePos = AbsolutePos(crs.deletedRows, crs.cursorPos)
        BY <2>1, <2>2 DEF Placed
    <3> QED BY <2>1, <3>1, OwnPlaces DEF OwnCursor, Place
  <2> QED BY <2>1, <2>2 DEF LayersAgree, PlacedAgrees
<1> QED BY <1>1, LayersInvariant, PTL

(* next and previous skip every row deleted between two that are left, and *)
(* absolute counts the rows that are left only, although the row set below *)
(* shows the deleted ones.                                                 *)
THEOREM NavigationSkipsDeletedHolds == Spec => NavigationSkipsDeleted
<1>1. Layers =>
        /\ placed /\ StepRow(1) => crs'.cursorPos = Min({i \in Visible : i > crs.cursorPos} \cup {NumRows(crs) + 1})
        /\ placed /\ StepRow(-1) => crs'.cursorPos = Max({i \in Visible : i < crs.cursorPos} \cup {0})
        /\ \A n \in 1..Cardinality(Visible) : ToRow(n) =>
              crs'.cursorPos \in Visible /\ Cardinality({i \in Visible : i <= crs'.cursorPos}) = n
  <2> HAVE Layers
  <2>1. /\ Counted /\ WellCounted(crs) /\ NumRows(crs) \in Nat /\ Visible = Left(crs)
        /\ Cardinality(Visible) = OwnSize /\ OwnSize \in Nat
        /\ placed => Placed(crs, absolutePos)
      BY OwnFacts DEF Layers, Counted, Visible, Left
  <2>2. \A i \in Left(crs) : i \in 1..NumRows(crs)
      BY DEF Left
  <2>3. placed => crs.cursorPos \in 0..(NumRows(crs) + 1)
      BY <2>1 DEF Placed, Place
  <2>4. ASSUME placed, StepRow(1)
        PROVE  crs'.cursorPos = Min({i \in Visible : i > crs.cursorPos} \cup {NumRows(crs) + 1})
    <3>1. NextDoor(1, crs'.cursorPos)
        BY <2>1, <2>4, StepPlaced
    <3>2. PICK p, q, S : /\ p = crs.cursorPos /\ q = crs'.cursorPos
                         /\ S = {i \in Left(crs) : i > p} \cup {NumRows(crs) + 1}
        OBVIOUS
    <3>3. /\ (q \in Left(crs) /\ p < q) \/ q = NumRows(crs) + 1
          /\ \A i \in Left(crs) : ~(p < i /\ i < q)
        BY <3>1, <3>2 DEF NextDoor
    <3>4. S \in SUBSET Nat /\ q \in S /\ p \in Int /\ q \in Int
        BY <2>1, <2>2, <2>3, <2>4, <3>2, <3>3
    <3>5. \A i \in S : q <= i
        BY <2>1, <2>2, <3>2, <3>3, <3>4
    <3>6. PICK m : m = Min(S)
        OBVIOUS
    <3>7. m \in S /\ m <= q
        BY <3>4, <3>6, MinOfNat
    <3>8. m \in Int /\ q <= m
        BY <3>4, <3>5, <3>7
    <3>9. q = m
        BY <3>4, <3>7, <3>8
    <3> QED BY <2>1, <3>2, <3>6, <3>9
  <2>5. ASSUME placed, StepRow(-1)
        PROVE  crs'.cursorPos = Max({i \in Visible : i < crs.cursorPos} \cup {0})
    <3>1. NextDoor(-1, crs'.cursorPos)
        BY <2>1, <2>5, StepPlaced
    <3>2. PICK p, q, S : /\ p = crs.cursorPos /\ q = crs'.cursorPos
                         /\ S = {i \in Left(crs) : i < p} \cup {0}
        OBVIOUS
    <3>3. /\ (q \in Left(crs) /\ q < p) \/ q = 0
          /\ \A i \in Left(crs) : ~(q < i /\ i < p)
        BY <3>1, <3>2 DEF NextDoor
    <3>4. S \in SUBSET (0..NumRows(crs)) /\ q \in S /\ p \in Int /\ q \in Int
        BY <2>1, <2>2, <2>3, <2>5, <3>2, <3>3
    <3>5. \A i \in S : i <= q
        BY <2>1, <2>2, <3>2, <3>3, <3>4
    <3>6. PICK m : m = Max(S)
        OBVIOUS
    <3>7. m \in S /\ q <= m
        BY <2>1, <3>4, <3>6, MaxOfBounded
    <3>8. m \in Int /\ m <= q
        BY <2>1, <3>4, <3>5, <3>7
    <3>9. q = m
        BY <3>4, <3>7, <3>8
    <3> QED BY <2>1, <3>2, <3>6, <3>9
  <2>6. ASSUME NEW n \in 1..Cardinality(Visible), ToRow(n)
        PROVE  crs'.cursorPos \in Visible /\ Cardinality({i \in Visible : i <= crs'.cursorPos}) = n
    <3>1. n \in 1..OwnSize /\ n \in Int
        BY <2>1
    <3>2. PICK q : q = crs'.cursorPos
        OBVIOUS
    <3>3. q = Cursor(n)
        BY <2>1, <2>6, <3>1, <3>2, ToRowPlaced
    <3>4. q \in Left(crs) /\ AbsolutePos(crs.deletedRows, q) = n
        BY <2>1, <3>1, <3>3, NumberedRow
    <3>5. PICK h : h = Hidden(crs)
        OBVIOUS
    <3>6. q \in 0..NumRows(crs)
        BY <2>1, <2>2, <3>4
    <3>7. RankAt(h, q) = n /\ Shown(h) = Left(crs)
        BY <2>1, <3>4, <3>5, <3>6, NumberIsRank, HiddenFacts
    <3>8. {i \in Left(crs) : i <= q} = UpTo(h, q)
        BY <3>7, Zenon DEF UpTo
    <3>9. Cardinality({i \in Left(crs) : i <= q}) = n
        BY <3>7, <3>8, Zenon DEF RankAt
    <3> QED BY <2>1, <3>2, <3>4, <3>9, Zenon
  <2> QED BY <2>4, <2>5, <2>6
<1> QED BY <1>1, LayersInvariant, PTL DEF NavigationSkipsDeleted

----------------------------------------------------------------------------
(* The ids, when the client comes back from the insert row before it       *)
(* inserts again (MaxWaiting = 1).                                         *)

\* Each row has an id of its own, and the row the bookmark was taken on, where
\* it is left, has not moved.
Numbers ==
    /\ issued \in 0..(MaxInit + MaxInserts)
    /\ \A i \in 1..NumRows(crs) : Named(crs.rvh[i], Id, issued)
    /\ \A i, j \in 1..NumRows(crs) : crs.rvh[i].orig[Id] = crs.rvh[j].orig[Id] => i = j
    /\ Ready(crs, issued)
    /\ held \in [mark : 0..(MaxRows + 1), id : 0..issued]
    /\ \A i \in Left(crs) : crs.rvh[i].orig[Id] = held.id => held.mark = i

\* A calm step leaves every row its id.
LEMMA CalmIds ==
    ASSUME Layers, Numbers, Calm
    PROVE  /\ issued' = issued /\ Left(crs') \subseteq Left(crs)
           /\ \A i \in 1..NumRows(crs') : /\ i \in 1..NumRows(crs)
                                          /\ Named(crs'.rvh[i], Id, issued)
                                          /\ crs'.rvh[i].orig[Id] = crs.rvh[i].orig[Id]
           /\ \A i, j \in 1..NumRows(crs') : crs'.rvh[i].orig[Id] = crs'.rvh[j].orig[Id] => i = j
           /\ Ready(crs', issued)
<1>1. PICK d : d = crs'
    OBVIOUS
<1>2. /\ issued' = issued /\ NumRows(d) = NumRows(crs) /\ crs.deletedRows \subseteq d.deletedRows
      /\ \A i \in 1..NumRows(crs) : KeepsId(crs.rvh[i], d.rvh[i])
      /\ Ready(d, issued)
    BY <1>1 DEF Calm, Numbers
<1>3. issued \in Nat
    BY DEF Layers
<1>4. ASSUME NEW i \in 1..NumRows(crs)
      PROVE  Named(d.rvh[i], Id, issued) /\ d.rvh[i].orig[Id] = crs.rvh[i].orig[Id]
  <2>1. Named(crs.rvh[i], Id, issued) /\ KeepsId(crs.rvh[i], d.rvh[i])
      BY <1>2 DEF Numbers
  <2>2. PICK row, new : row = crs.rvh[i] /\ new = d.rvh[i]
      OBVIOUS
  <2>3. Named(new, Id, issued) /\ new.orig[Id] = row.orig[Id]
      BY <1>3, <2>1, <2>2 DEF KeepsId
  <2> QED BY <2>2, <2>3
<1>5. \A i, j \in 1..NumRows(crs) : d.rvh[i].orig[Id] = d.rvh[j].orig[Id] => i = j
    BY <1>4 DEF Numbers
<1>6. Left(d) \subseteq Left(crs)
    BY <1>2 DEF Left
<1> QED BY <1>1, <1>2, <1>4, <1>5, <1>6

\* So it keeps the ids what they are, when the bookmark is left alone.
LEMMA CalmKeeps ==
    ASSUME Layers, Numbers, Calm, UNCHANGED held
    PROVE  Numbers'
<1>1. /\ issued' = issued /\ Left(crs') \subseteq Left(crs)
      /\ \A i \in 1..NumRows(crs') : /\ i \in 1..NumRows(crs)
                                     /\ Named(crs'.rvh[i], Id, issued)
                                     /\ crs'.rvh[i].orig[Id] = crs.rvh[i].orig[Id]
      /\ \A i, j \in 1..NumRows(crs') : crs'.rvh[i].orig[Id] = crs'.rvh[j].orig[Id] => i = j
      /\ Ready(crs', issued)
    BY CalmIds
<1>2. /\ issued \in 0..(MaxInit + MaxInserts) /\ held' = held
      /\ held \in [mark : 0..(MaxRows + 1), id : 0..issued]
    BY DEF Numbers
<1>3. ASSUME NEW i \in Left(crs'), crs'.rvh[i].orig[Id] = held.id PROVE held.mark = i
  <2>1. i \in 1..NumRows(crs') /\ i \in Left(crs)
      BY <1>1 DEF Left
  <2>2. crs.rvh[i].orig[Id] = held.id
      BY <1>1, <1>3, <2>1
  <2> QED BY <2>1, <2>2 DEF Numbers
<1> QED BY <1>1, <1>2, <1>3 DEF Numbers

\* Taking a bookmark: of the row the client is on, if it is left.
LEMMA GetBookmarkNumbers ==
    ASSUME Layers, Numbers, GetBookmark
    PROVE  Numbers'
<1>1. Layers' /\ Calm /\ (crs'.cursorPos \in Left(crs) => held'.mark = crs'.cursorPos)
    BY GetBookmarkKeeps
<1>2. /\ issued' = issued /\ Left(crs') \subseteq Left(crs)
      /\ \A i \in 1..NumRows(crs') : /\ i \in 1..NumRows(crs)
                                     /\ Named(crs'.rvh[i], Id, issued)
                                     /\ crs'.rvh[i].orig[Id] = crs.rvh[i].orig[Id]
      /\ \A i, j \in 1..NumRows(crs') : crs'.rvh[i].orig[Id] = crs'.rvh[j].orig[Id] => i = j
      /\ Ready(crs', issued)
    BY <1>1, CalmIds
<1>3. issued \in 0..(MaxInit + MaxInserts) /\ issued \in Nat
    BY DEF Numbers, Layers
<1>4. PICK d, id : d = crs' /\ id = IF d.cursorPos \in 1..NumRows(d) THEN IdOf(d.rvh[d.cursorPos]) ELSE 0
    OBVIOUS
<1>5. held' = [mark |-> held'.mark, id |-> id]
  <2>1. crs' = IF mOnInsert THEN MoveToCurrentRow(crs) ELSE crs
      BY DEF GetBookmark, To, Go
  <2>2. \E m : held' = [mark |-> m, id |-> id]
      BY <1>4, <2>1 DEF GetBookmark
  <2> QED BY <2>2
<1>6. d \in Cache /\ NumRows(d) \in Nat /\ Formed(d)
  <2>1. WellCounted(d)
      BY <1>1, <1>4 DEF Layers, Counted
  <2> QED BY <2>1, LeftRows DEF WellCounted, Formed
<1>7. ASSUME d.cursorPos \in 1..NumRows(d) PROVE id = d.rvh[d.cursorPos].orig[Id] /\ id \in 1..issued
  <2>1. PICK row : row = d.rvh[d.cursorPos]
      OBVIOUS
  <2>2. row \in Row /\ Named(row, Id, issued) /\ Id \in Column
      BY <1>2, <1>4, <1>6, <1>7, <2>1, RowsOfCache, IdAssumption
  <2>3. IdOf(row) = row.orig[Id]
      BY <1>3, <2>2, RowsStayNamed DEF IdOf
  <2> QED BY <1>4, <1>7, <2>1, <2>2, <2>3 DEF Named
<1>8. id \in 0..issued
    BY <1>3, <1>4, <1>7
<1>9. held' \in [mark : 0..(MaxRows + 1), id : 0..issued]
  <2>1. held'.mark \in 0..(MaxRows + 1)
      BY <1>1 DEF Layers
  <2>2. PICK m : m = held'.mark
      OBVIOUS
  <2>3. [mark |-> m, id |-> id] \in [mark : 0..(MaxRows + 1), id : 0..issued]
      BY <1>8, <2>1, <2>2
  <2> QED BY <1>5, <2>2, <2>3
<1>10. ASSUME NEW i \in Left(d), d.rvh[i].orig[Id] = held'.id PROVE held'.mark = i
  <2>1. i \in 1..NumRows(d) /\ i \in Left(crs)
      BY <1>2, <1>4 DEF Left
  <2>2. held'.id = id
      BY <1>5
  <2>3. d.rvh[i].orig[Id] \in 1..issued
      BY <1>2, <1>4, <2>1 DEF Named
  <2>4. d.cursorPos \in 1..NumRows(d)
      BY <1>3, <1>4, <1>10, <2>2, <2>3
  <2>5. d.rvh[i].orig[Id] = d.rvh[d.cursorPos].orig[Id]
      BY <1>7, <1>10, <2>2, <2>4
  <2>6. i = d.cursorPos
      BY <1>2, <1>4, <2>1, <2>4, <2>5
  <2> QED BY <1>1, <1>4, <2>1, <2>6
<1> QED BY <1>2, <1>3, <1>4, <1>9, <1>10 DEF Numbers

\* insertRow, when no other insert waits, gives out the next id.
LEMMA InsertOneNumbers ==
    ASSUME MaxWaiting = 1, Layers, Numbers, InsertOne, UNCHANGED held
    PROVE  Numbers'
<1>1. PICK d, n, m : d = crs' /\ n = issued + 1 /\ m = NumRows(crs')
    OBVIOUS
<1>2. /\ d.onInsertRow /\ issued' = n /\ m = NumRows(d) /\ m = NumRows(crs) + 1
      /\ d.deletedRows = crs.deletedRows
      /\ \A i \in 1..NumRows(crs) : d.rvh[i] = crs.rvh[i]
      /\ d.rvh[m] = [NewRow(crs.insertRow.vals) EXCEPT !.flags = {"created"}]
    BY <1>1, InsertOneKeeps
<1>3. /\ CanInsertRow(crs) /\ Cardinality(Waiting(crs)) < 1 /\ NumRows(crs) \in Nat
      /\ issued \in Nat /\ crs.deletedRows \subseteq 1..NumRows(crs)
    BY OwnFacts DEF InsertOne, BaseInsertRow, Layers
<1>4. Waiting(crs) = {}
  <2>1. PICK k : k = NumRows(crs)
      OBVIOUS
  <2>2. 1 \in Int /\ k \in Int
      BY <1>3, <2>1
  <2>3. IsFiniteSet(1..k)
      BY <2>2, FS_Interval
  <2>4. Waiting(crs) \subseteq 1..k
      BY <2>1 DEF Waiting
  <2>5. IsFiniteSet(Waiting(crs))
      BY <2>3, <2>4, FS_Subset
  <2>6. Cardinality(Waiting(crs)) \in Nat
      BY <2>5, FS_CardinalityType
  <2>7. Cardinality(Waiting(crs)) = 0
      BY <1>3, <2>6
  <2> QED BY <2>5, <2>7, FS_EmptySet
<1>5. crs.insertRow.vals[Id] = n /\ issued < MaxInit + MaxInserts
  <2>1. crs.onInsertRow /\ Id \in crs.insertRow.given
      BY <1>3, IdAssumption DEF CanInsertRow
  <2> QED BY <1>1, <1>4, <2>1 DEF Numbers, Ready
<1>6. d.rvh[m].orig[Id] = n /\ Named(d.rvh[m], Id, n) /\ d.rvh[m].flags = {"created"}
  <2>1. PICK row : row = d.rvh[m]
      OBVIOUS
  <2>2. /\ row.flags = {"created"} /\ row.orig = crs.insertRow.vals /\ row.changed = {}
        /\ row.curr = NoValues
      BY <1>2, <2>1 DEF NewRow
  <2>3. row.curr[Id] = NULL
      BY <2>2, IdAssumption DEF NoValues
  <2>4. n \in 1..n
      BY <1>1, <1>3
  <2> QED BY <1>5, <2>1, <2>2, <2>3, <2>4 DEF Named
<1>7. ASSUME NEW i \in 1..NumRows(crs)
      PROVE  Named(d.rvh[i], Id, n) /\ d.rvh[i].orig[Id] # n /\ d.rvh[i].orig[Id] = crs.rvh[i].orig[Id]
  <2>1. d.rvh[i] = crs.rvh[i] /\ Named(crs.rvh[i], Id, issued)
      BY <1>2 DEF Numbers
  <2>2. PICK row : row = crs.rvh[i]
      OBVIOUS
  <2>3. Named(row, Id, n) /\ row.orig[Id] # n
      BY <1>1, <1>3, <2>1, <2>2 DEF Named
  <2> QED BY <2>1, <2>2, <2>3
<1>8. /\ m \in 1..m /\ m \notin 1..NumRows(crs)
      /\ \A i \in 1..m : i = m \/ i \in 1..NumRows(crs)
    BY <1>2, <1>3
<1>9. \A i \in 1..m : Named(d.rvh[i], Id, n)
    BY <1>6, <1>7, <1>8
<1>10. \A i, j \in 1..m : d.rvh[i].orig[Id] = d.rvh[j].orig[Id] => i = j
  <2>1. \A i, j \in 1..NumRows(crs) : d.rvh[i].orig[Id] = d.rvh[j].orig[Id] => i = j
      BY <1>7 DEF Numbers
  <2> QED BY <1>6, <1>7, <1>8, <2>1
<1>11. Ready(d, n)
  <2>1. m \in Waiting(d)
      BY <1>2, <1>6, <1>8 DEF Waiting
  <2> QED BY <2>1 DEF Ready
<1>12. n \in 0..(MaxInit + MaxInserts)
  <2>1. MaxInit + MaxInserts \in Nat
      BY BoundsAssumption
  <2> QED BY <1>1, <1>3, <1>5, <2>1
<1>13. held \in [mark : 0..(MaxRows + 1), id : 0..n] /\ held.id # n
  <2>1. held \in [mark : 0..(MaxRows + 1), id : 0..issued]
      BY DEF Numbers
  <2>2. \A x \in 0..issued : x \in 0..n /\ x # n
      BY <1>1, <1>3
  <2> QED BY <2>1, <2>2
<1>14. ASSUME NEW i \in Left(d), d.rvh[i].orig[Id] = held.id PROVE held.mark = i
  <2>1. i \in 1..m /\ i \notin crs.deletedRows
      BY <1>2 DEF Left
  <2>2. i \in 1..NumRows(crs)
      BY <1>6, <1>8, <1>13, <1>14, <2>1
  <2>3. i \in Left(crs) /\ crs.rvh[i].orig[Id] = held.id
      BY <1>7, <1>14, <2>1, <2>2 DEF Left
  <2> QED BY <2>3 DEF Numbers
<1> QED BY <1>1, <1>2, <1>9, <1>10, <1>11, <1>12, <1>13, <1>14 DEF Numbers

\* The rows of the query are numbered, and no bookmark is taken.
LEMMA InitNumbers == Init => Numbers
<1> SUFFICES ASSUME Init PROVE Numbers
    OBVIOUS
<1>1. /\ held = [mark |-> 0, id |-> 0]
      /\ \E n \in 0..MaxInit : /\ crs = Populate([i \in 1..n |-> [k \in Column |-> i]], TRUE)
                               /\ issued = n
    BY DEF Init, InitBase, VOID
<1>2. PICK n \in 0..MaxInit : /\ crs = Populate([i \in 1..n |-> [k \in Column |-> i]], TRUE)
                              /\ issued = n
    BY <1>1
<1>3. /\ NumRows(crs) = n /\ n \in Nat /\ ~crs.onInsertRow
      /\ \A i \in 1..n : crs.rvh[i].orig[Id] = i /\ Named(crs.rvh[i], Id, n)
  <2>1. PICK c : c = crs
      OBVIOUS
  <2>2. c = Populate([i \in 1..n |-> [k \in Column |-> i]], TRUE)
      BY <1>2, <2>1
  <2>3. /\ NumRows(c) = n /\ n \in Nat /\ ~c.onInsertRow
        /\ \A i \in 1..n : c.rvh[i].orig[Id] = i /\ Named(c.rvh[i], Id, n)
      BY <2>2, PopulateFacts, ZenonT(30)
  <2> QED BY <2>1, <2>3, Zenon
<1>4. issued \in 0..(MaxInit + MaxInserts)
    BY <1>2, BoundsAssumption
<1>5. Ready(crs, issued)
    BY <1>3 DEF Ready
<1>6. held \in [mark : 0..(MaxRows + 1), id : 0..issued]
  <2>1. 0 \in 0..(MaxRows + 1) /\ 0 \in 0..issued
      BY <1>2, <1>3, BoundsAssumption
  <2> QED BY <1>1, <2>1
<1>7. ASSUME NEW i \in Left(crs), crs.rvh[i].orig[Id] = held.id PROVE held.mark = i
  <2>1. i \in 1..n /\ i = 0
      BY <1>1, <1>3, <1>7 DEF Left
  <2> QED BY <1>3, <2>1
<1>8. /\ \A i \in 1..NumRows(crs) : Named(crs.rvh[i], Id, issued)
      /\ \A i, j \in 1..NumRows(crs) : crs.rvh[i].orig[Id] = crs.rvh[j].orig[Id] => i = j
  <2>1. issued = n
      BY <1>2
  <2>2. \A i \in 1..NumRows(crs) : crs.rvh[i].orig[Id] = i /\ Named(crs.rvh[i], Id, issued)
      BY <1>3, <2>1, Zenon
  <2> QED BY <2>2
<1> QED BY <1>4, <1>5, <1>6, <1>7, <1>8 DEF Numbers

(* While one insert at a time waits, each row keeps the id it was given,   *)
(* no two have the same, and the mark of the client stays where its row is.*)
THEOREM NumbersInvariant ==
    ASSUME MaxWaiting = 1
    PROVE  Spec => []Numbers
<1>1. Init => Numbers
    BY InitNumbers
<1>2. Layers /\ Numbers /\ [Next]_vars => Numbers'
  <2> SUFFICES ASSUME Layers, Numbers, [Next]_vars PROVE Numbers'
      OBVIOUS
  <2>1. CASE Next
    <3>1. \/ Calm /\ UNCHANGED held
          \/ GetBookmark
          \/ InsertOne /\ UNCHANGED held
        BY <2>1, NextCalm
    <3> QED BY <3>1, CalmKeeps, GetBookmarkNumbers, InsertOneNumbers
  <2>2. CASE UNCHANGED vars
    <3>1. UNCHANGED <<crs, issued, held>>
        BY <2>2 DEF vars
    <3> QED BY <3>1 DEF Numbers
  <2> QED BY <2>1, <2>2
<1> QED BY <1>1, <1>2, LayersInvariant, PTL DEF Spec

(* The type of the state: no count of the class goes beyond its rows, and  *)
(* a bookmark is a place in the list or next to it.                        *)
THEOREM TypeCorrect ==
    ASSUME MaxWaiting = 1
    PROVE  Spec => []TypeOK
<1>1. Layers /\ Numbers => TypeOK
  <2> SUFFICES ASSUME Layers, Numbers PROVE TypeOK
      OBVIOUS
  <2>1. /\ crs \in Cache /\ NumRows(crs) \in Nat /\ NumRows(crs) <= MaxRows
        /\ numRows = NumRows(crs) /\ deletedRows = crs.deletedRows
        /\ crs.deletedRows \subseteq 1..NumRows(crs) /\ absolutePos \in Int
        /\ mOnInsert \in BOOLEAN /\ mRowInserted \in BOOLEAN /\ placed \in BOOLEAN
      BY OwnFacts DEF Layers, Counted, CountsAgree
  <2>2. /\ MaxRows \in Nat /\ MaxInit + MaxInserts \in Nat
        /\ issued \in 0..(MaxInit + MaxInserts)
        /\ held \in [mark : 0..(MaxRows + 1), id : 0..issued]
      BY BoundsAssumption DEF Numbers
  <2>3. numRows \in 0..MaxRows
      BY <2>1, <2>2
  <2>4. deletedRows \subseteq 1..MaxRows
    <3>1. 1..NumRows(crs) \subseteq 1..MaxRows
        BY <2>1, <2>2
    <3> QED BY <2>1, <3>1
  <2>5. held \in [mark : 0..(MaxRows + 1), id : 0..(MaxInit + MaxInserts)]
    <3>1. 0..issued \subseteq 0..(MaxInit + MaxInserts)
        BY <2>2
    <3> QED BY <2>2, <3>1
  <2>6. BaseTypeOK
      BY <2>1, <2>2 DEF BaseTypeOK
  <2> QED BY <2>1, <2>3, <2>4, <2>5, <2>6 DEF TypeOK
<1> QED BY <1>1, LayersInvariant, NumbersInvariant, PTL

(* A bookmark is the place of its row for as long as that is left, and the *)
(* row number that goes with the place counts the rows the client sees.    *)
THEOREM BookmarkFindsRowInvariant ==
    ASSUME MaxWaiting = 1
    PROVE  Spec => []BookmarkFindsRow
<1>1. Layers /\ Numbers => BookmarkFindsRow
  <2> SUFFICES ASSUME Layers, Numbers, NEW i \in Visible, IdOf(crs.rvh[i]) = held.id
               PROVE  /\ held.mark = i
                      /\ PosOf(i) = Cardinality({j \in Visible : j <= i})
      BY DEF BookmarkFindsRow
  <2>1. /\ Counted /\ WellCounted(crs) /\ Formed(crs) /\ NumRows(crs) \in Nat
        /\ Visible = Left(crs) /\ issued \in Nat
      BY OwnFacts DEF Layers, Counted, Visible, Left
  <2>2. i \in Left(crs) /\ i \in 1..NumRows(crs) /\ i \in 0..NumRows(crs)
      BY <2>1 DEF Left
  <2>3. held.mark = i
    <3>1. PICK row : row = crs.rvh[i]
        OBVIOUS
    <3>2. row \in Row /\ Named(row, Id, issued) /\ Id \in Column
        BY <2>1, <2>2, <3>1, RowsOfCache, IdAssumption DEF Numbers
    <3>3. IdOf(row) = row.orig[Id]
        BY <2>1, <3>2, RowsStayNamed DEF IdOf
    <3> QED BY <2>2, <3>1, <3>3 DEF Numbers
  <2>4. PICK h : h = Hidden(crs)
      OBVIOUS
  <2>5. PosOf(i) = RankAt(h, i) /\ Shown(h) = Left(crs)
      BY <2>1, <2>2, <2>4, OwnPlaces, NumberIsRank, HiddenFacts
  <2>6. {j \in Left(crs) : j <= i} = UpTo(h, i)
      BY <2>5, Zenon DEF UpTo
  <2>7. Cardinality({j \in Left(crs) : j <= i}) = PosOf(i)
      BY <2>5, <2>6, Zenon DEF RankAt
  <2> QED BY <2>1, <2>3, <2>7, Zenon
<1> QED BY <1>1, LayersInvariant, NumbersInvariant, PTL
=============================================================================
