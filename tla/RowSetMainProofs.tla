-------------------------- MODULE RowSetMainProofs --------------------------
(***************************************************************************)
(* What holds of RowSetMain for any number of rows, inserts and edits: the *)
(* bookmark of a row that is left finds it, and the flags of the UNO side  *)
(* tell what the row set below is doing.                                   *)
(*                                                                         *)
(* All of it rests on one inductive invariant, IInv.  Of the row set it    *)
(* asks Kept: ids are unique and edits leave a row its id (Listed), only   *)
(* an insert waits between two calls, and on no deleted row (Settled), and *)
(* what is on the insert row can become the next row (Ready).  Of a        *)
(* bookmark it asks HeldBy: the row with its id is at its place.  That     *)
(* lasts because a call never moves a row: rows come and go at the end     *)
(* only (Shrinks), although the undoing of a refused insert is a walk over *)
(* the list with the cursor elsewhere.                                     *)
(*                                                                         *)
(* The theorems assume MaxWaiting = 1: the client leaves the insert row    *)
(* with moveToCurrentRow before it inserts again.  Of two inserts that     *)
(* wait and are refused one is taken away, and the other waits forgotten.  *)
(***************************************************************************)
EXTENDS RowSetMain, RowSetBaseProofs

\* The row has one of the n ids given out, and its edits leave it that.
Fine(row, n) == Named(row, Id, n)

\* The methods of Row.java keep the row its id.
LEMMA RowsStayFine ==
    ASSUME NEW row \in Row, NEW n \in Nat, Fine(row, n)
    PROVE  /\ IdOf(row) = row.orig[Id]
           /\ \A fs \in SUBSET Flag : Fine([row EXCEPT !.flags = fs], n)
           /\ SetUpdated(row).orig = row.orig /\ Fine(SetUpdated(row), n)
           /\ ClearUpdated(row).orig = row.orig /\ Fine(ClearUpdated(row), n)
           /\ SetColumnObject(row, Id, row.orig[Id]).orig = row.orig
           /\ Fine(SetColumnObject(row, Id, row.orig[Id]), n)
<1>1. Id \in Column
    BY IdAssumption
<1> QED BY <1>1, RowsStayNamed DEF Fine, IdOf

\* Made original it still has its id, and an inserted row is marked so.
LEMMA OriginalStaysFine ==
    ASSUME NEW row \in Row, NEW n \in Nat, Fine(row, n)
    PROVE  /\ Fine(MakeRowOriginal(row), n)
           /\ MakeRowOriginal(row).orig[Id] = row.orig[Id]
           /\ "created" \in row.flags => "inserted" \in MakeRowOriginal(row).flags
<1>1. Id \in Column
    BY IdAssumption
<1> QED BY <1>1, OriginalStaysNamed DEF Fine

----------------------------------------------------------------------------
(* The rows of one record, between the calls and inside one.               *)

\* The rows have ids of their own and the bits are bits of rows; a row that
\* waits to be inserted is the last one and has the id given out last.
Listed(c, n) ==
    /\ c \in Cache /\ NumRows(c) <= MaxRows
    /\ c.deletedRows \subseteq 1..NumRows(c)
    /\ \A i \in 1..NumRows(c) : Fine(c.rvh[i], n)
    /\ \A i, j \in 1..NumRows(c) : c.rvh[i].orig[Id] = c.rvh[j].orig[Id] => i = j
    /\ \A i \in Waiting(c) : i = NumRows(c) /\ c.rvh[i].orig[Id] = n

\* Between calls nothing waits but an insert, and not on a deleted row.
Settled(c) ==
    /\ \A i \in 1..NumRows(c) : c.rvh[i].flags \cap {"removed", "updated"} = {}
    /\ c.deletedRows \cap Waiting(c) = {}

\* When a call asks for its edit to be accepted, its row is marked.
Underway(c) ==
    /\ ~c.onInsertRow
    /\ \A i \in 1..NumRows(c) : ~({"removed", "updated"} \subseteq c.rvh[i].flags)
    /\ \A i \in c.deletedRows \cap Waiting(c) : "removed" \in c.rvh[i].flags

\* d has the first rows of c and shows them alike, and no other row of it waits.
Shrinks(c, d) ==
    /\ d.showDeleted = c.showDeleted
    /\ NumRows(d) <= NumRows(c)
    /\ \A i \in 1..NumRows(d) : d.rvh[i].orig[Id] = c.rvh[i].orig[Id]
    /\ Waiting(d) \subseteq Waiting(c)

\* What the list says of its record.
LEMMA ListedFacts ==
    ASSUME NEW n, NEW c, Listed(c, n)
    PROVE  /\ Formed(c) /\ c \in Cache /\ NumRows(c) \in Nat /\ NumRows(c) = Len(c.rvh)
           /\ \A i \in 1..NumRows(c) : c.rvh[i] \in Row /\ c.rvh[i].flags \subseteq Flag
           /\ Waiting(c) \subseteq 1..NumRows(c)
           /\ \A i \in 1..NumRows(c) : i \in Waiting(c) <=> "created" \in c.rvh[i].flags
<1>1. c \in Cache /\ NumRows(c) \in Nat /\ NumRows(c) = Len(c.rvh)
    BY DEF Listed, Cache, NumRows
<1>2. IsFiniteSet(c.deletedRows)
  <2>1. IsFiniteSet(1..NumRows(c))
      BY <1>1, FS_Interval
  <2> QED BY <2>1, FS_Subset DEF Listed
<1>3. Formed(c)
    BY <1>1, <1>2 DEF Formed
<1>4. \A i \in 1..NumRows(c) : c.rvh[i] \in Row /\ c.rvh[i].flags \subseteq Flag
    BY <1>3, RowsOfCache DEF Row
<1> QED BY <1>1, <1>3, <1>4 DEF Waiting

\* As many rows with the same ids make a list again.
LEMMA ListedAgain ==
    ASSUME NEW n \in Nat, NEW c, Listed(c, n), NEW d \in Cache, Shrinks(c, d),
           d.deletedRows \subseteq 1..NumRows(d),
           \A i \in 1..NumRows(d) : Fine(d.rvh[i], n),
           \A i \in Waiting(d) : i = NumRows(d)
    PROVE  Listed(d, n)
<1>1. NumRows(c) \in Nat /\ NumRows(d) \in Nat /\ NumRows(d) <= NumRows(c) /\ MaxRows \in Nat
      /\ NumRows(c) <= MaxRows
    BY ListedFacts, BoundsAssumption DEF Cache, NumRows, Shrinks, Listed
<1>2. \A i \in 1..NumRows(d) : i \in 1..NumRows(c)
    BY <1>1
<1>3. \A i \in 1..NumRows(d) : d.rvh[i].orig[Id] = c.rvh[i].orig[Id]
    BY DEF Shrinks
<1>4. \A i, j \in 1..NumRows(d) : d.rvh[i].orig[Id] = d.rvh[j].orig[Id] => i = j
    BY <1>2, <1>3 DEF Listed
<1>5. \A i \in Waiting(d) : i \in 1..NumRows(d) /\ i \in Waiting(c)
    BY DEF Waiting, Shrinks
<1>6. \A i \in Waiting(d) : d.rvh[i].orig[Id] = n
    BY <1>3, <1>5 DEF Listed
<1>7. NumRows(d) <= MaxRows
    BY <1>1
<1> QED BY <1>4, <1>6, <1>7 DEF Listed

\* One list after another.
LEMMA ShrinksOn ==
    ASSUME NEW c, NEW d, NEW e, Shrinks(c, d), Shrinks(d, e),
           NumRows(c) \in Nat, NumRows(d) \in Nat, NumRows(e) \in Nat
    PROVE  Shrinks(c, e)
<1>1. NumRows(e) <= NumRows(d) /\ NumRows(d) <= NumRows(c)
    BY DEF Shrinks
<1>2. NumRows(e) <= NumRows(c) /\ \A i \in 1..NumRows(e) : i \in 1..NumRows(d)
    BY <1>1
<1> QED BY <1>2 DEF Shrinks

----------------------------------------------------------------------------
(* Everything is accepted. *)

\* setOriginal settles the list, and an insert that waited is in.
LEMMA OriginalSettles ==
    ASSUME NEW n \in Nat, NEW c, Listed(c, n), Underway(c)
    PROVE  /\ Listed(SetOriginal(c), n) /\ Settled(SetOriginal(c)) /\ Shrinks(c, SetOriginal(c))
           /\ ~SetOriginal(c).onInsertRow
           /\ SetOriginal(c).deletedRows = c.deletedRows
           /\ Waiting(SetOriginal(c)) = {}
           /\ NumRows(SetOriginal(c)) = NumRows(c)
           /\ \A i \in Waiting(c) : "inserted" \in SetOriginal(c).rvh[i].flags
<1>1. PICK d : d = SetOriginal(c)
    OBVIOUS
<1>2. /\ Formed(c) /\ c \in Cache /\ NumRows(c) \in Nat /\ ~c.onInsertRow
      /\ \A i \in 1..NumRows(c) : c.rvh[i] \in Row
      /\ \A i \in 1..NumRows(c) : i \in Waiting(c) <=> "created" \in c.rvh[i].flags
      /\ Waiting(c) \subseteq 1..NumRows(c)
    BY ListedFacts DEF Underway
<1>3. /\ Formed(d) /\ ~d.onInsertRow /\ NumRows(d) = NumRows(c)
      /\ \A i \in 1..NumRows(c) : d.rvh[i] = MakeRowOriginal(c.rvh[i])
    BY <1>1, <1>2, OriginalRows
<1>4. d.deletedRows = c.deletedRows /\ d.showDeleted = c.showDeleted /\ d \in Cache
    BY <1>1, <1>2, <1>3 DEF SetOriginal, Cache, Formed
<1>5. \A i \in 1..NumRows(c) : Fine(c.rvh[i], n)
    BY DEF Listed
<1>6. \A i \in 1..NumRows(c) : /\ Fine(d.rvh[i], n) /\ d.rvh[i].orig[Id] = c.rvh[i].orig[Id]
                               /\ d.rvh[i].flags \cap {"removed", "created", "updated"} = {}
                               /\ "created" \in c.rvh[i].flags => "inserted" \in d.rvh[i].flags
    BY <1>2, <1>3, <1>5, OriginalStaysFine, OriginalFlags
<1>7. Waiting(d) = {}
    BY <1>3, <1>6 DEF Waiting
<1>8. Shrinks(c, d)
    BY <1>2, <1>3, <1>4, <1>6, <1>7 DEF Shrinks
<1>9. Settled(d)
    BY <1>3, <1>6, <1>7 DEF Settled
<1>10. Listed(d, n)
  <2>1. d.deletedRows \subseteq 1..NumRows(d)
      BY <1>3, <1>4 DEF Listed
  <2> QED BY <1>3, <1>4, <1>6, <1>7, <1>8, <2>1, ListedAgain
<1>11. \A i \in Waiting(c) : "inserted" \in d.rvh[i].flags
    BY <1>2, <1>6
<1> QED BY <1>1, <1>3, <1>4, <1>7, <1>8, <1>9, <1>10, <1>11

----------------------------------------------------------------------------
(* The database refuses, and the conflicts are undone.                     *)

\* What undoing leaves of a row that is left.
Undone(row) ==
    IF "removed" \in row.flags THEN [row EXCEPT !.flags = @ \ {"removed"}]
    ELSE IF "updated" \in row.flags THEN ClearUpdated(row) ELSE row

\* The insert that waits goes, unless its row was just deleted.
Unsent(c) == NumRows(c) \in Waiting(c) /\ "removed" \notin c.rvh[NumRows(c)].flags

\* d is c after the rows up to k were looked at.
Walked(c, k, d) ==
    /\ d \in Cache /\ ~d.onInsertRow /\ d.showDeleted = c.showDeleted
    /\ NumRows(d) = IF k = NumRows(c) /\ Unsent(c) THEN NumRows(c) - 1 ELSE NumRows(c)
    /\ \A i \in 1..NumRows(d) : d.rvh[i] = IF i <= k THEN Undone(c.rvh[i]) ELSE c.rvh[i]
    /\ d.deletedRows = {i \in c.deletedRows : i <= k => "removed" \notin c.rvh[i].flags}

\* The view stays when a conflict is undone.
LEMMA UndoKeepsShow ==
    ASSUME NEW c, NEW i, UndoConflict(c, i) \in Cache
    PROVE  UndoConflict(c, i).showDeleted = c.showDeleted
<1> DEFINE at == [c EXCEPT !.cursorPos = i, !.showDeleted = TRUE]
           undone == CASE Kind(c.rvh[i]) = "update" -> UndoUpdate(at)
                       [] Kind(c.rvh[i]) = "delete" -> UndoDelete(at)
                       [] Kind(c.rvh[i]) = "insert" -> UndoInsert(at)
<1>1. PICK u : u = undone
    OBVIOUS
<1>2. UndoConflict(c, i) = [u EXCEPT !.cursorPos = c.cursorPos, !.showDeleted = c.showDeleted]
    BY <1>1 DEF UndoConflict
<1>3. "showDeleted" \in DOMAIN UndoConflict(c, i)
    BY DEF Cache
<1>4. DOMAIN UndoConflict(c, i) = DOMAIN u
    BY <1>2
<1> QED BY <1>2, <1>3, <1>4

\* One row more is looked at.
LEMMA WalkedOn ==
    ASSUME NEW n \in Nat, NEW c, Listed(c, n), Underway(c), NEW k \in 1..NumRows(c),
           NEW d, Walked(c, k - 1, d)
    PROVE  Walked(c, k, IF k \in Pending(c) /\ k <= NumRows(d) THEN UndoConflict(d, k) ELSE d)
<1>1. /\ NumRows(c) \in Nat /\ c.deletedRows \subseteq 1..NumRows(c)
      /\ \A i \in 1..NumRows(c) : i \in Waiting(c) <=> "created" \in c.rvh[i].flags
      /\ \A i \in Waiting(c) : i = NumRows(c)
      /\ c.rvh[k] \in Row
      /\ ~({"removed", "updated"} \subseteq c.rvh[k].flags)
    BY ListedFacts DEF Listed, Underway
<1>2. k \in Nat /\ k - 1 # NumRows(c) /\ k - 1 \in Nat /\ ~(k <= k - 1)
    BY <1>1
<1>3. /\ d \in Cache /\ ~d.onInsertRow /\ d.showDeleted = c.showDeleted /\ NumRows(d) = NumRows(c)
      /\ \A i \in 1..NumRows(c) : d.rvh[i] = IF i <= k - 1 THEN Undone(c.rvh[i]) ELSE c.rvh[i]
      /\ d.deletedRows = {i \in c.deletedRows : i <= k - 1 => "removed" \notin c.rvh[i].flags}
    BY <1>2 DEF Walked
<1>4. d.rvh[k] = c.rvh[k] /\ k <= NumRows(d) /\ k \in 1..NumRows(d)
    BY <1>1, <1>2, <1>3
<1>5. Formed(d)
  <2>1. IsFiniteSet(1..NumRows(c))
      BY <1>1, FS_Interval
  <2>2. d.deletedRows \subseteq 1..NumRows(c)
      BY <1>1, <1>3
  <2>3. IsFiniteSet(d.deletedRows)
      BY <2>1, <2>2, FS_Subset
  <2> QED BY <1>3, <2>3 DEF Formed
<1>6. \A i \in 1..NumRows(c) : i <= k <=> i <= k - 1 \/ i = k
    BY <1>2
<1>7. CASE k \notin Pending(c)
  <2>1. c.rvh[k].flags \cap {"removed", "created", "updated"} = {}
      BY <1>7 DEF Pending
  <2>2. Undone(c.rvh[k]) = c.rvh[k] /\ ~(k = NumRows(c) /\ Unsent(c)) /\ "removed" \notin c.rvh[k].flags
      BY <1>1, <2>1 DEF Undone, Unsent
  <2>3. \A i \in 1..NumRows(c) : d.rvh[i] = IF i <= k THEN Undone(c.rvh[i]) ELSE c.rvh[i]
      BY <1>3, <1>4, <1>6, <2>2
  <2>4. d.deletedRows = {i \in c.deletedRows : i <= k => "removed" \notin c.rvh[i].flags}
    <3>1. \A i \in c.deletedRows : (i <= k => "removed" \notin c.rvh[i].flags)
                                <=> (i <= k - 1 => "removed" \notin c.rvh[i].flags)
        BY <1>1, <1>6, <2>2
    <3> QED BY <1>3, <3>1
  <2> QED BY <1>3, <1>7, <2>2, <2>3, <2>4 DEF Walked
<1>8. CASE k \in Pending(c) /\ Kind(c.rvh[k]) = "insert"
  <2>1. PICK e : e = UndoConflict(d, k)
      OBVIOUS
  <2>2. "created" \in c.rvh[k].flags /\ "removed" \notin c.rvh[k].flags /\ k = NumRows(c) /\ Unsent(c)
      BY <1>1, <1>8 DEF Kind, Unsent
  <2>3. Shortens(d, e)
      BY <1>3, <1>4, <1>5, <1>8, <2>1, UndoShortens
  <2>4. /\ e \in Cache /\ ~e.onInsertRow /\ NumRows(e) = NumRows(c) - 1
        /\ \A i \in 1..NumRows(e) : e.rvh[i] = d.rvh[i]
      BY <1>3, <2>3 DEF Shortens, Formed
  <2>5. e.deletedRows = d.deletedRows /\ e.showDeleted = c.showDeleted
      BY <1>3, <1>4, <1>5, <1>8, <2>1, <2>4, UndoKeepsBits, UndoKeepsShow
  <2>6. \A i \in 1..NumRows(e) : e.rvh[i] = IF i <= k THEN Undone(c.rvh[i]) ELSE c.rvh[i]
    <3>1. \A i \in 1..NumRows(e) : i \in 1..NumRows(c) /\ i <= k - 1 /\ i <= k
        BY <1>1, <2>2, <2>4
    <3> QED BY <1>3, <2>4, <3>1
  <2>7. e.deletedRows = {i \in c.deletedRows : i <= k => "removed" \notin c.rvh[i].flags}
    <3>1. \A i \in c.deletedRows : (i <= k => "removed" \notin c.rvh[i].flags)
                                <=> (i <= k - 1 => "removed" \notin c.rvh[i].flags)
        BY <1>1, <1>6, <2>2
    <3> QED BY <1>3, <2>5, <3>1
  <2>8. Walked(c, k, e)
      BY <2>2, <2>4, <2>5, <2>6, <2>7 DEF Walked
  <2> QED BY <1>4, <1>8, <2>1, <2>8
<1>9. CASE k \in Pending(c) /\ Kind(c.rvh[k]) # "insert"
  <2>1. PICK e : e = UndoConflict(d, k)
      OBVIOUS
  <2>2. /\ Kind(c.rvh[k]) \in {"update", "delete"}
        /\ Kind(c.rvh[k]) = "delete" <=> "removed" \in c.rvh[k].flags
        /\ Kind(c.rvh[k]) = "update" => "updated" \in c.rvh[k].flags
        /\ ~(k = NumRows(c) /\ Unsent(c))
      BY <1>9 DEF Kind, Pending, Unsent, Waiting
  <2>3. PICK row : row = IF Kind(c.rvh[k]) = "update" THEN ClearUpdated(c.rvh[k])
                         ELSE [c.rvh[k] EXCEPT !.flags = @ \ {"removed"}]
      OBVIOUS
  <2>4. row = Undone(c.rvh[k])
      BY <2>2, <2>3 DEF Undone
  <2>5. Changes(d, e, k, row)
    <3>1. Kind(d.rvh[k]) \in {"update", "delete"}
        BY <1>4, <2>2
    <3>2. row = IF Kind(d.rvh[k]) = "update" THEN ClearUpdated(d.rvh[k])
                ELSE [d.rvh[k] EXCEPT !.flags = @ \ {"removed"}]
        BY <1>4, <2>3
    <3> QED BY <1>3, <1>4, <1>5, <2>1, <3>1, <3>2, UndoChanges
  <2>6. /\ e \in Cache /\ ~e.onInsertRow /\ NumRows(e) = NumRows(c)
        /\ \A i \in 1..NumRows(c) : e.rvh[i] = IF i = k THEN row ELSE d.rvh[i]
      BY <1>3, <2>5 DEF Changes, Formed
  <2>7. e.showDeleted = c.showDeleted
      BY <1>3, <2>1, <2>6, UndoKeepsShow
  <2>8. e.deletedRows = IF "removed" \in c.rvh[k].flags THEN d.deletedRows \ {k} ELSE d.deletedRows
      BY <1>4, <1>5, <2>1, <2>2, UndoKeepsBits
  <2>9. \A i \in 1..NumRows(e) : e.rvh[i] = IF i <= k THEN Undone(c.rvh[i]) ELSE c.rvh[i]
      BY <1>3, <1>6, <2>4, <2>6
  <2>10. e.deletedRows = {i \in c.deletedRows : i <= k => "removed" \notin c.rvh[i].flags}
    <3>1. \A i \in c.deletedRows : (i <= k => "removed" \notin c.rvh[i].flags)
                                <=> /\ i <= k - 1 => "removed" \notin c.rvh[i].flags
                                    /\ i = k => "removed" \notin c.rvh[i].flags
        BY <1>1, <1>6
    <3> QED BY <1>3, <2>8, <3>1
  <2>11. Walked(c, k, e)
      BY <2>2, <2>6, <2>7, <2>9, <2>10 DEF Walked
  <2> QED BY <1>4, <1>9, <2>1, <2>11
<1> QED BY <1>7, <1>8, <1>9

\* So all of them are.
LEMMA UndoConflictsWalks ==
    ASSUME NEW n \in Nat, NEW c, Listed(c, n), Underway(c)
    PROVE  Walked(c, NumRows(c), UndoConflicts(c, Pending(c)))
<1>1. NumRows(c) \in Nat /\ c \in Cache /\ ~c.onInsertRow /\ c.deletedRows \subseteq 1..NumRows(c)
    BY ListedFacts DEF Listed, Underway
<1>2. PICK f : Undoing(c, Pending(c), f)
    BY <1>1, UndoingExists
<1>3. UndoConflicts(c, Pending(c)) = f[NumRows(c)]
    BY <1>1, <1>2, UndoingIsUndoConflicts
<1> DEFINE Left == {k \in Nat : k <= NumRows(c) /\ ~Walked(c, k, f[k])}
<1>4. CASE Left = {}
    BY <1>1, <1>3, <1>4
<1>5. CASE Left # {}
  <2>1. PICK k \in Left : \A i \in Left : k <= i
    <3>1. Left \in SUBSET Nat
        OBVIOUS
    <3> HIDE DEF Left
    <3> QED BY <1>5, <3>1, NatLeast
  <2>2. CASE k = 0
    <3>1. f[0] = c
        BY <1>2 DEF Undoing
    <3>2. ~(0 = NumRows(c) /\ Unsent(c))
        BY <1>1 DEF Unsent, Waiting
    <3>3. \A i \in 1..NumRows(c) : ~(i <= 0)
        BY <1>1
    <3>4. c.deletedRows = {i \in c.deletedRows : i <= 0 => "removed" \notin c.rvh[i].flags}
        BY <1>1, <3>3
    <3>5. Walked(c, 0, c)
        BY <1>1, <3>2, <3>3, <3>4 DEF Walked
    <3> QED BY <2>1, <2>2, <3>1, <3>5
  <2>3. CASE k # 0
    <3>1. k \in 1..NumRows(c) /\ k - 1 \in Nat /\ k - 1 <= NumRows(c) /\ ~(k <= k - 1)
        BY <1>1, <2>1, <2>3
    <3>2. Walked(c, k - 1, f[k - 1])
        BY <2>1, <3>1
    <3>3. f[k] = IF k \in Pending(c) /\ k <= NumRows(f[k - 1]) THEN UndoConflict(f[k - 1], k)
                                                              ELSE f[k - 1]
        BY <1>2, <3>1 DEF Undoing
    <3>4. Walked(c, k, f[k])
      <4>1. PICK d : d = f[k - 1]
          OBVIOUS
      <4>2. Walked(c, k, IF k \in Pending(c) /\ k <= NumRows(d) THEN UndoConflict(d, k) ELSE d)
          BY <3>1, <3>2, <4>1, WalkedOn
      <4> QED BY <3>3, <4>1, <4>2
    <3> QED BY <2>1, <3>4
  <2> QED BY <2>2, <2>3
<1> QED BY <1>4, <1>5

\* When all is undone the list is settled: the row that waited is gone, the
\* deleted one is back.
LEMMA UndoSettles ==
    ASSUME NEW n \in Nat, NEW c, Listed(c, n), Underway(c),
           NEW d, d = CloseResolver(UndoConflicts(c, Pending(c)))
    PROVE  /\ Listed(d, n) /\ Settled(d) /\ Shrinks(c, d)
           /\ ~d.onInsertRow
           /\ d.deletedRows \subseteq c.deletedRows
           /\ Unsent(c) => NumRows(d) = NumRows(c) - 1
           /\ Settled(c) => Waiting(d) = {}
<1>1. PICK e : e = UndoConflicts(c, Pending(c))
    OBVIOUS
<1>2. Walked(c, NumRows(c), e)
    BY <1>1, UndoConflictsWalks
<1>3. /\ NumRows(c) \in Nat /\ c.deletedRows \subseteq 1..NumRows(c)
      /\ \A i \in 1..NumRows(c) : c.rvh[i] \in Row
      /\ \A i \in 1..NumRows(c) : i \in Waiting(c) <=> "created" \in c.rvh[i].flags
      /\ \A i \in Waiting(c) : i = NumRows(c)
      /\ \A i \in 1..NumRows(c) : Fine(c.rvh[i], n)
      /\ \A i \in 1..NumRows(c) : ~({"removed", "updated"} \subseteq c.rvh[i].flags)
      /\ \A i \in c.deletedRows \cap Waiting(c) : "removed" \in c.rvh[i].flags
    BY ListedFacts DEF Listed, Underway
<1>4. /\ e \in Cache /\ ~e.onInsertRow /\ e.showDeleted = c.showDeleted
      /\ NumRows(e) = IF Unsent(c) THEN NumRows(c) - 1 ELSE NumRows(c)
      /\ \A i \in 1..NumRows(e) : e.rvh[i] = IF i <= NumRows(c) THEN Undone(c.rvh[i]) ELSE c.rvh[i]
      /\ e.deletedRows = {i \in c.deletedRows : i <= NumRows(c) => "removed" \notin c.rvh[i].flags}
    BY <1>2 DEF Walked
<1>5. /\ NumRows(e) \in Nat /\ NumRows(e) <= NumRows(c)
      /\ \A i \in 1..NumRows(e) : i \in 1..NumRows(c) /\ i <= NumRows(c)
  <2>1. NumRows(e) \in Nat
      BY <1>4 DEF Cache, NumRows
  <2> QED BY <1>3, <1>4, <2>1
<1>6. /\ \A i \in 1..NumRows(e) : e.rvh[i] = Undone(c.rvh[i])
      /\ e.deletedRows = {i \in c.deletedRows : "removed" \notin c.rvh[i].flags}
  <2>1. \A i \in c.deletedRows : i <= NumRows(c)
      BY <1>3
  <2> QED BY <1>4, <1>5, <2>1
<1>7. Formed(e)
  <2>1. IsFiniteSet(1..NumRows(c))
      BY <1>3, FS_Interval
  <2>2. e.deletedRows \subseteq 1..NumRows(c)
      BY <1>3, <1>6
  <2>3. IsFiniteSet(e.deletedRows)
      BY <2>1, <2>2, FS_Subset
  <2> QED BY <1>4, <2>3 DEF Formed
<1>8. /\ Formed(d) /\ d \in Cache /\ ~d.onInsertRow /\ d.rvh = e.rvh /\ NumRows(d) = NumRows(e)
      /\ d.deletedRows = e.deletedRows /\ d.showDeleted = c.showDeleted
  <2>1. Formed(d) /\ ~d.onInsertRow /\ d.rvh = e.rvh /\ d.deletedRows = e.deletedRows
      BY <1>1, <1>4, <1>7, CloseKeeps, CallsKeepBits
  <2>2. d.showDeleted = e.showDeleted
      BY <1>1, <1>4 DEF CloseResolver, Cache
  <2> QED BY <1>4, <2>1, <2>2 DEF Formed, NumRows
<1>9. ASSUME NEW i \in 1..NumRows(d)
      PROVE  /\ Fine(d.rvh[i], n) /\ d.rvh[i].orig[Id] = c.rvh[i].orig[Id]
             /\ d.rvh[i].flags \cap {"removed", "updated"} = {}
             /\ "created" \in d.rvh[i].flags <=> "created" \in c.rvh[i].flags
  <2>1. PICK row : row = c.rvh[i]
      OBVIOUS
  <2>2. d.rvh[i] = Undone(row) /\ row \in Row /\ Fine(row, n)
        /\ ~({"removed", "updated"} \subseteq row.flags)
      BY <1>3, <1>5, <1>6, <1>8, <2>1
  <2>3. CASE "removed" \in row.flags
    <3>1. PICK fs : fs = row.flags \ {"removed"}
        OBVIOUS
    <3>2. fs \in SUBSET Flag /\ Undone(row) = [row EXCEPT !.flags = fs]
        BY <2>2, <2>3, <3>1 DEF Undone, Row
    <3>3. Fine([row EXCEPT !.flags = fs], n) /\ [row EXCEPT !.flags = fs].orig = row.orig
          /\ [row EXCEPT !.flags = fs].flags = fs
        BY <2>2, <3>2, RowsStayFine DEF Row
    <3> QED BY <2>1, <2>2, <2>3, <3>1, <3>2, <3>3
  <2>4. CASE "removed" \notin row.flags /\ "updated" \in row.flags
    <3>1. Undone(row) = ClearUpdated(row)
        BY <2>4 DEF Undone
    <3>2. ClearUpdated(row).orig = row.orig /\ Fine(ClearUpdated(row), n)
          /\ ClearUpdated(row).flags = row.flags \ {"updated"}
        BY <2>2, RowsStayFine, ClearedRow
    <3> QED BY <2>1, <2>2, <2>4, <3>1, <3>2
  <2>5. CASE "removed" \notin row.flags /\ "updated" \notin row.flags
      BY <2>1, <2>2, <2>5 DEF Undone
  <2> QED BY <2>3, <2>4, <2>5
<1>10. \A i \in 1..NumRows(d) : i \in Waiting(d) <=> i \in Waiting(c)
    BY <1>3, <1>5, <1>8, <1>9 DEF Waiting
<1>11. Waiting(d) \subseteq 1..NumRows(d)
    BY DEF Waiting
<1>12. \A i \in Waiting(d) : i \in Waiting(c) /\ i = NumRows(c) /\ i = NumRows(d) /\ ~Unsent(c)
    BY <1>3, <1>4, <1>5, <1>8, <1>10, <1>11
<1>13. Shrinks(c, d)
    BY <1>5, <1>8, <1>9, <1>12 DEF Shrinks
<1>14. d.deletedRows \subseteq 1..NumRows(d) /\ d.deletedRows \subseteq c.deletedRows
  <2>1. ASSUME NEW i \in d.deletedRows
        PROVE  i \in c.deletedRows /\ i \in 1..NumRows(d)
    <3>1. i \in c.deletedRows /\ "removed" \notin c.rvh[i].flags /\ i \in 1..NumRows(c)
        BY <1>3, <1>6, <1>8
    <3>2. i \notin Waiting(c)
        BY <1>3, <3>1
    <3>3. i = NumRows(c) => ~Unsent(c)
        BY <3>2 DEF Unsent
    <3> QED BY <1>3, <1>4, <1>8, <3>1, <3>3
  <2> QED BY <2>1
<1>15. Listed(d, n)
  <2>1. \A i \in 1..NumRows(d) : Fine(d.rvh[i], n)
      BY <1>9
  <2> QED BY <1>8, <1>12, <1>13, <1>14, <2>1, ListedAgain
<1>16. Settled(d)
  <2>1. \A i \in d.deletedRows : i \notin Waiting(c)
      BY <1>3, <1>6, <1>8
  <2>2. d.deletedRows \cap Waiting(d) = {}
      BY <1>12, <2>1
  <2> QED BY <1>9, <2>2 DEF Settled
<1>17. Settled(c) => Waiting(d) = {}
  <2>1. ASSUME Settled(c), NEW i \in Waiting(d) PROVE FALSE
    <3>1. i \in Waiting(c) /\ i = NumRows(c) /\ ~Unsent(c) /\ i \in 1..NumRows(c)
        BY <1>3, <1>12, <2>1 DEF Waiting
    <3>2. "removed" \notin c.rvh[i].flags
        BY <2>1, <3>1 DEF Settled
    <3> QED BY <3>1, <3>2 DEF Unsent
  <2> QED BY <2>1
<1> QED BY <1>4, <1>8, <1>13, <1>14, <1>15, <1>16, <1>17

\* What a call asks for settles the list, accepted or refused.
LEMMA AcceptedSettles ==
    ASSUME NEW n \in Nat, NEW c, Listed(c, n), Underway(c), NEW ok \in BOOLEAN
    PROVE  /\ Listed(Accepted(c, ok), n) /\ Settled(Accepted(c, ok)) /\ Shrinks(c, Accepted(c, ok))
           /\ ~Accepted(c, ok).onInsertRow
           /\ Accepted(c, ok).deletedRows \subseteq c.deletedRows
           /\ Settled(c) => Waiting(Accepted(c, ok)) = {}
           /\ Settled(c) /\ Waiting(c) # {} =>
                IF ok THEN /\ NumRows(Accepted(c, ok)) = NumRows(c)
                           /\ "inserted" \in Accepted(c, ok).rvh[NumRows(c)].flags
                ELSE NumRows(Accepted(c, ok)) = NumRows(c) - 1
<1>1. PICK d : d = Accepted(c, ok)
    OBVIOUS
<1>2. ~c.onInsertRow /\ NumRows(c) \in Nat /\ Waiting(c) \subseteq 1..NumRows(c)
      /\ \A i \in Waiting(c) : i = NumRows(c)
    BY ListedFacts DEF Underway, Listed
<1>3. Settled(c) /\ Waiting(c) # {} => NumRows(c) \in Waiting(c) /\ Unsent(c) /\ Pending(c) # {}
  <2>1. ASSUME Settled(c), Waiting(c) # {} PROVE Unsent(c) /\ Pending(c) # {}
    <3>1. NumRows(c) \in Waiting(c) /\ NumRows(c) \in 1..NumRows(c)
        BY <1>2, <2>1
    <3>2. "removed" \notin c.rvh[NumRows(c)].flags
        BY <2>1, <3>1 DEF Settled
    <3>3. NumRows(c) \in Pending(c)
        BY <3>1 DEF Waiting, Pending
    <3> QED BY <3>1, <3>2, <3>3 DEF Unsent
  <2> QED BY <2>1 DEF Unsent
<1>4. CASE ok \/ Pending(c) = {}
  <2>1. d = SetOriginal(c)
      BY <1>1, <1>2, <1>4 DEF Accepted, AcceptChanges
  <2>2. ~ok /\ Settled(c) => Waiting(c) = {}
      BY <1>3, <1>4
  <2>3. /\ Listed(d, n) /\ Settled(d) /\ Shrinks(c, d) /\ ~d.onInsertRow
        /\ d.deletedRows = c.deletedRows /\ Waiting(d) = {} /\ NumRows(d) = NumRows(c)
        /\ \A i \in Waiting(c) : "inserted" \in d.rvh[i].flags
      BY <2>1, OriginalSettles
  <2>4. Settled(c) /\ Waiting(c) # {} =>
          ok /\ NumRows(d) = NumRows(c) /\ "inserted" \in d.rvh[NumRows(c)].flags
      BY <1>3, <2>2, <2>3
  <2> QED BY <1>1, <2>3, <2>4
<1>5. CASE ~ok /\ Pending(c) # {}
  <2>1. d = CloseResolver(UndoConflicts(c, Pending(c)))
      BY <1>1, <1>2, <1>5 DEF Accepted, AcceptChanges
  <2>2. /\ Listed(d, n) /\ Settled(d) /\ Shrinks(c, d) /\ ~d.onInsertRow
        /\ d.deletedRows \subseteq c.deletedRows
        /\ Unsent(c) => NumRows(d) = NumRows(c) - 1
        /\ Settled(c) => Waiting(d) = {}
      BY <2>1, UndoSettles
  <2> QED BY <1>1, <1>3, <1>5, <2>2
<1> QED BY <1>4, <1>5

----------------------------------------------------------------------------
(* Bookmarks: deleted rows are shown for a moment.                         *)

\* What a bookmark finds while the deleted rows are hidden.
LEMMA MarkFacts ==
    ASSUME NEW c, Formed(c), ~c.showDeleted, NEW m \in Nat
    PROVE  /\ Alike(c, ToMark(c, m))
           /\ Located(c, m) <=> m \in 1..NumRows(c)
           /\ Located(c, m) => ToMark(c, m).cursorPos = m
<1>1. c \in Cache /\ c.cursorPos \in Int /\ c.showDeleted = FALSE
    BY DEF Formed, Cache
<1>2. PICK s : s = SetShowDeleted(c, TRUE)
    OBVIOUS
<1>3. s = [c EXCEPT !.showDeleted = TRUE, !.absolutePos = c.cursorPos]
    BY <1>1, <1>2 DEF SetShowDeleted
<1>4. /\ Formed(s) /\ s.showDeleted = TRUE /\ s.rvh = c.rvh /\ s.deletedRows = c.deletedRows
      /\ s.onInsertRow = c.onInsertRow /\ s.insertRow = c.insertRow /\ NumRows(s) = NumRows(c)
    BY <1>1, <1>3 DEF Formed, Cache, NumRows
<1>5. PICK a : a = Absolute(s, m)
    OBVIOUS
<1>6. /\ Alike(s, a)
      /\ Moved(s, m) <=> m \in 1..NumRows(c)
      /\ Moved(s, m) => a.cursorPos = m
    BY <1>4, <1>5, AbsoluteAlike
<1>7. a \in Cache /\ a.showDeleted = TRUE /\ a.cursorPos \in Int /\ Formed(a)
    BY <1>4, <1>6, AlikeFacts DEF Alike, Cache
<1>8. PICK n : n = AbsolutePos(a.deletedRows, a.cursorPos)
    OBVIOUS
<1>9. n \in Int
    BY <1>7, <1>8, AbsolutePosType
<1>10. ToMark(c, m) = [a EXCEPT !.showDeleted = FALSE, !.absolutePos = n]
    BY <1>1, <1>2, <1>5, <1>7, <1>8 DEF ToMark, SetShowDeleted
<1>11. Alike(c, ToMark(c, m)) /\ ToMark(c, m).cursorPos = a.cursorPos
    BY <1>1, <1>4, <1>6, <1>7, <1>9, <1>10, ZenonT(30) DEF Alike, Cache
<1> QED BY <1>2, <1>6, <1>11 DEF Located

\* getBookmark: the place of the row under the cursor, or none.
LEMMA TakeMark ==
    ASSUME NEW c, Formed(c), ~c.showDeleted
    PROVE  /\ Alike(c, SetShowDeleted(SetShowDeleted(c, TRUE), c.showDeleted))
           /\ Mark(c) = IF c.cursorPos \in 1..NumRows(c) THEN c.cursorPos ELSE 0
<1>1. c \in Cache /\ c.cursorPos \in Int /\ c.showDeleted = FALSE /\ NumRows(c) \in Nat
    BY FormedFacts DEF Formed, Cache
<1>2. PICK s : s = SetShowDeleted(c, TRUE)
    OBVIOUS
<1>3. s = [c EXCEPT !.showDeleted = TRUE, !.absolutePos = c.cursorPos]
    BY <1>1, <1>2 DEF SetShowDeleted
<1>4. /\ s \in Cache /\ s.showDeleted = TRUE /\ s.rvh = c.rvh /\ s.deletedRows = c.deletedRows
      /\ s.onInsertRow = c.onInsertRow /\ s.insertRow = c.insertRow /\ NumRows(s) = NumRows(c)
      /\ s.cursorPos = c.cursorPos
    BY <1>1, <1>3 DEF Cache, NumRows
<1>5. PICK a : a = AbsolutePos(s.deletedRows, s.cursorPos)
    OBVIOUS
<1>6. a \in Int
    BY <1>1, <1>4, <1>5, AbsolutePosType
<1>7. SetShowDeleted(s, FALSE) = [s EXCEPT !.showDeleted = FALSE, !.absolutePos = a]
    BY <1>4, <1>5 DEF SetShowDeleted
<1>8. Alike(c, SetShowDeleted(s, FALSE))
    BY <1>1, <1>4, <1>6, <1>7 DEF Alike, Cache
<1>9. Mark(c) = IF c.cursorPos \in 1..NumRows(c) THEN c.cursorPos ELSE 0
  <2>1. Size(s) = NumRows(c)
      BY <1>4 DEF Size
  <2>2. IsEmpty(s) => c.cursorPos \notin 1..NumRows(c)
      BY <1>1, <2>1 DEF IsEmpty
  <2>3. GetRow(s) = IF IsEmpty(s) \/ c.cursorPos \notin 1..NumRows(c) THEN 0 ELSE c.cursorPos
      BY <1>4 DEF GetRow
  <2> QED BY <1>2, <2>2, <2>3 DEF Mark
<1> QED BY <1>1, <1>2, <1>8, <1>9

----------------------------------------------------------------------------
(* The calls keep the list.                                                *)

\* The buffer of the insert row, once it is given a value and no insert waits,
\* holds the id to be given out next.
Ready(c, n) ==
    c.onInsertRow /\ Id \in c.insertRow.given /\ Waiting(c) = {} =>
        c.insertRow.vals[Id] = n + 1 /\ n < MaxInit + MaxInserts

\* Between calls, after n ids were given out.
Kept(c, n) == Listed(c, n) /\ Settled(c) /\ Ready(c, n) /\ ~c.showDeleted

\* Off the insert row its buffer does not matter.
LEMMA OffIsReady ==
    ASSUME NEW n, NEW c, ~c.onInsertRow
    PROVE  Ready(c, n)
BY DEF Ready

\* The same rows, however the rest of the record is.
LEMMA SameRowsKept ==
    ASSUME NEW n \in Nat, NEW c, Kept(c, n), NEW d \in Cache,
           d.rvh = c.rvh, d.deletedRows = c.deletedRows, d.showDeleted = c.showDeleted
    PROVE  /\ Listed(d, n) /\ Settled(d) /\ ~d.showDeleted /\ Shrinks(c, d)
           /\ Waiting(d) = Waiting(c) /\ NumRows(d) = NumRows(c)
<1>1. NumRows(d) = NumRows(c) /\ NumRows(c) \in Nat
    BY ListedFacts DEF NumRows, Kept
<1>2. Waiting(d) = Waiting(c)
    BY <1>1 DEF Waiting
<1>3. Listed(d, n)
    BY <1>1, <1>2 DEF Kept, Listed
<1>4. Settled(d)
    BY <1>1, <1>2 DEF Kept, Settled
<1>5. Shrinks(c, d)
    BY <1>1, <1>2 DEF Shrinks
<1> QED BY <1>1, <1>2, <1>3, <1>4, <1>5 DEF Kept

\* The cursor elsewhere.
LEMMA AlikeKept ==
    ASSUME NEW n \in Nat, NEW c, Kept(c, n), NEW d, Alike(c, d)
    PROVE  Kept(d, n) /\ Shrinks(c, d) /\ d.onInsertRow = c.onInsertRow
<1>1. /\ Listed(d, n) /\ Settled(d) /\ ~d.showDeleted /\ Shrinks(c, d) /\ Waiting(d) = Waiting(c)
    BY SameRowsKept DEF Alike
<1>2. Ready(d, n)
    BY <1>1 DEF Kept, Ready, Alike
<1> QED BY <1>1, <1>2 DEF Kept, Alike

\* Onto the insert row, with an empty buffer, and off it.
LEMMA InsertRowKept ==
    ASSUME NEW n \in Nat, NEW c, Kept(c, n)
    PROVE  /\ Kept(MoveToInsertRow(c), n) /\ Shrinks(c, MoveToInsertRow(c))
           /\ MoveToInsertRow(c).onInsertRow
           /\ Kept(MoveToCurrentRow(c), n) /\ Shrinks(c, MoveToCurrentRow(c))
           /\ ~MoveToCurrentRow(c).onInsertRow
           /\ MoveToCurrentRow(c).rvh = c.rvh
<1>1. c \in Cache
    BY DEF Kept, Listed
<1>2. PICK d : d = MoveToInsertRow(c)
    OBVIOUS
<1>3. /\ d \in Cache /\ d.onInsertRow /\ d.insertRow.given = {}
      /\ d.rvh = c.rvh /\ d.deletedRows = c.deletedRows /\ d.showDeleted = c.showDeleted
  <2>1. PICK empty : empty = [c.insertRow EXCEPT !.given = {}]
      OBVIOUS
  <2>2. empty \in InsertBuffer /\ empty.given = {} /\ c.cursorPos \in Int /\ -1 \in Int
      BY <1>1, <2>1 DEF Cache, InsertBuffer
  <2>3. d = [c EXCEPT !.onInsertRow = TRUE, !.currentRow = c.cursorPos, !.cursorPos = -1,
                      !.insertRow = empty]
      BY <1>1, <1>2, <2>1 DEF MoveToInsertRow, Cache
  <2> QED BY <1>1, <2>2, <2>3 DEF Cache
<1>4. /\ Listed(d, n) /\ Settled(d) /\ ~d.showDeleted /\ Shrinks(c, d)
    BY <1>3, SameRowsKept
<1>5. Ready(d, n)
    BY <1>3 DEF Ready
<1>6. PICK e : e = MoveToCurrentRow(c)
    OBVIOUS
<1>7. /\ e \in Cache /\ ~e.onInsertRow
      /\ e.rvh = c.rvh /\ e.deletedRows = c.deletedRows /\ e.showDeleted = c.showDeleted
    BY <1>1, <1>6 DEF MoveToCurrentRow, Cache
<1>8. /\ Listed(e, n) /\ Settled(e) /\ ~e.showDeleted /\ Shrinks(c, e)
    BY <1>7, SameRowsKept
<1>9. Ready(e, n)
    BY <1>7 DEF Ready
<1> QED BY <1>2, <1>3, <1>4, <1>5, <1>6, <1>7, <1>8, <1>9 DEF Kept

\* d is c with another row at p, of the same id, and those bits.
IsPut(c, n, p, row, dels, d) ==
    /\ ~c.onInsertRow /\ p \in 1..NumRows(c) /\ row \in Row /\ Fine(row, n)
    /\ row.orig[Id] = c.rvh[p].orig[Id]
    /\ "created" \in row.flags <=> "created" \in c.rvh[p].flags
    /\ dels \subseteq 1..NumRows(c)
    /\ d = [c EXCEPT !.rvh = [c.rvh EXCEPT ![p] = row], !.deletedRows = dels]

\* And what that means.
HasPut(c, p, row, dels, d) ==
    /\ Waiting(d) = Waiting(c) /\ NumRows(d) = NumRows(c) /\ ~d.onInsertRow
    /\ d.deletedRows = dels /\ d.showDeleted = c.showDeleted
    /\ \A i \in 1..NumRows(c) : d.rvh[i] = IF i = p THEN row ELSE c.rvh[i]

\* Another row with the same id in place of one.
LEMMA PutRow ==
    ASSUME NEW n \in Nat, NEW c, Listed(c, n), NEW p, NEW row, NEW dels, NEW d,
           IsPut(c, n, p, row, dels, d)
    PROVE  Listed(d, n) /\ Shrinks(c, d) /\ HasPut(c, p, row, dels, d)
<1>0. /\ ~c.onInsertRow /\ p \in 1..NumRows(c) /\ row \in Row /\ Fine(row, n)
      /\ row.orig[Id] = c.rvh[p].orig[Id]
      /\ "created" \in row.flags <=> "created" \in c.rvh[p].flags
      /\ dels \subseteq 1..NumRows(c)
      /\ d = [c EXCEPT !.rvh = [c.rvh EXCEPT ![p] = row], !.deletedRows = dels]
    BY DEF IsPut
<1>1. /\ Formed(c) /\ c \in Cache /\ NumRows(c) \in Nat
      /\ \A i \in 1..NumRows(c) : i \in Waiting(c) <=> "created" \in c.rvh[i].flags
      /\ Waiting(c) \subseteq 1..NumRows(c)
    BY ListedFacts
<1>2. dels \in SUBSET Nat /\ IsFiniteSet(dels)
  <2>1. PICK k : k = NumRows(c)
      OBVIOUS
  <2>2. 1 \in Int /\ k \in Int
      BY <1>1, <2>1
  <2>3. IsFiniteSet(1..k)
      BY <2>2, FS_Interval
  <2>4. IsFiniteSet(dels)
      BY <1>0, <2>1, <2>3, FS_Subset
  <2>5. dels \in SUBSET Nat
      BY <1>0, <1>1
  <2> QED BY <2>4, <2>5
<1>3. Changes(c, d, p, row)
    BY <1>0, <1>1, <1>2, ChangeOne
<1>4. /\ d \in Cache /\ ~d.onInsertRow /\ NumRows(d) = NumRows(c)
      /\ \A i \in 1..NumRows(c) : d.rvh[i] = IF i = p THEN row ELSE c.rvh[i]
    BY <1>0, <1>3 DEF Changes, Formed
<1>5. d.deletedRows = dels /\ d.showDeleted = c.showDeleted
    BY <1>0, <1>1 DEF Cache
<1>6. \A i \in 1..NumRows(c) : "created" \in d.rvh[i].flags <=> i \in Waiting(c)
    BY <1>0, <1>1, <1>4
<1>7. Waiting(d) = Waiting(c)
    BY <1>1, <1>4, <1>6 DEF Waiting
<1>8. Shrinks(c, d)
    BY <1>0, <1>1, <1>4, <1>5, <1>7 DEF Shrinks
<1>9. Listed(d, n)
  <2>1. \A i \in 1..NumRows(d) : Fine(d.rvh[i], n)
      BY <1>0, <1>4 DEF Listed
  <2>2. \A i \in Waiting(d) : i = NumRows(d)
      BY <1>4, <1>7 DEF Listed
  <2>3. d.deletedRows \subseteq 1..NumRows(d)
      BY <1>0, <1>4, <1>5
  <2> QED BY <1>4, <1>8, <2>1, <2>2, <2>3, ListedAgain
<1> QED BY <1>4, <1>5, <1>7, <1>8, <1>9 DEF HasPut

\* updateXXX gives a row the value it has.
LEMMA ColumnKept ==
    ASSUME NEW n \in Nat, NEW c, Kept(c, n), ~c.onInsertRow, c.cursorPos \in 1..NumRows(c),
           NEW d, d = UpdateColumn(c, Id, IdOf(c.rvh[c.cursorPos])),
           n <= MaxInit + MaxInserts
    PROVE  Kept(d, n) /\ Shrinks(c, d) /\ ~d.onInsertRow
<1>1. PICK p, row : p = c.cursorPos /\ row = c.rvh[p]
    OBVIOUS
<1>2. /\ c \in Cache /\ NumRows(c) \in Nat /\ row \in Row /\ Listed(c, n) /\ Fine(row, n)
      /\ p \in 1..NumRows(c) /\ Settled(c) /\ c.deletedRows \in SUBSET (1..NumRows(c))
    BY <1>1, ListedFacts DEF Kept, Listed
<1>3. PICK new : new = SetColumnObject(row, Id, row.orig[Id])
    OBVIOUS
<1>4. /\ new \in Row /\ Fine(new, n) /\ new.orig = row.orig /\ new.flags = row.flags
  <2>1. Id \in Column /\ row.orig[Id] \in Datum
      BY <1>2, IdAssumption DEF Row, Values
  <2>2. new \in Row
      BY <1>2, <1>3, <2>1, RowTypes
  <2>3. new.flags = row.flags
      BY <1>2, <1>3 DEF SetColumnObject, Row
  <2> QED BY <1>2, <1>3, <2>2, <2>3, RowsStayFine
<1>5. d = [c EXCEPT !.rvh = [c.rvh EXCEPT ![p] = new], !.deletedRows = c.deletedRows]
  <2>1. IdOf(row) = row.orig[Id]
      BY <1>2, RowsStayFine
  <2> QED BY <1>1, <1>2, <1>3, <2>1 DEF UpdateColumn, Cache
<1>6. /\ Listed(d, n) /\ Shrinks(c, d) /\ Waiting(d) = Waiting(c)
      /\ NumRows(d) = NumRows(c) /\ ~d.onInsertRow /\ d.deletedRows = c.deletedRows
      /\ d.showDeleted = c.showDeleted
      /\ \A i \in 1..NumRows(c) : d.rvh[i] = IF i = p THEN new ELSE c.rvh[i]
  <2>1. PICK dels : dels = c.deletedRows
      OBVIOUS
  <2>2. dels \subseteq 1..NumRows(c) /\ ~c.onInsertRow
      BY <1>2, <2>1
  <2>3. /\ new.orig[Id] = c.rvh[p].orig[Id]
        /\ "created" \in new.flags <=> "created" \in c.rvh[p].flags
      BY <1>1, <1>4
  <2>4. IsPut(c, n, p, new, dels, d)
      BY <1>2, <1>4, <1>5, <2>1, <2>2, <2>3 DEF IsPut
  <2>5. Listed(d, n) /\ Shrinks(c, d) /\ HasPut(c, p, new, dels, d)
      BY <1>2, <2>4, PutRow
  <2> QED BY <2>1, <2>5 DEF HasPut
<1>7. Settled(d)
    BY <1>1, <1>2, <1>4, <1>6, SMTT(30) DEF Settled
<1> QED BY <1>6, <1>7, OffIsReady DEF Kept

\* updateRow marks the row of the cursor,
LEMMA UpdateUnderway ==
    ASSUME NEW n \in Nat, NEW c, Kept(c, n), OnRow(c), NEW d, d = UpdateRow(c)
    PROVE  Listed(d, n) /\ Underway(d) /\ Shrinks(c, d) /\ d.deletedRows = c.deletedRows
<1>1. PICK p, row : p = c.cursorPos /\ row = c.rvh[p]
    OBVIOUS
<1>2. /\ c \in Cache /\ NumRows(c) \in Nat /\ row \in Row /\ Listed(c, n) /\ Fine(row, n)
      /\ p \in 1..NumRows(c) /\ Settled(c) /\ ~c.onInsertRow
      /\ c.deletedRows \in SUBSET (1..NumRows(c))
    BY <1>1, ListedFacts DEF Kept, Listed, OnRow
<1>3. PICK new : new = SetUpdated(row)
    OBVIOUS
<1>4. /\ new \in Row /\ Fine(new, n) /\ new.orig = row.orig
      /\ new.flags \in {row.flags \cup {"updated"}, row.flags \ {"updated"}}
  <2>1. new.flags \in {row.flags \cup {"updated"}, row.flags \ {"updated"}}
      BY <1>2, <1>3 DEF SetUpdated, Row
  <2> QED BY <1>2, <1>3, <2>1, RowTypes, RowsStayFine
<1>5. d = [c EXCEPT !.rvh = [c.rvh EXCEPT ![p] = new], !.deletedRows = c.deletedRows]
    BY <1>1, <1>2, <1>3 DEF UpdateRow, Cache
<1>6. "created" \in new.flags <=> "created" \in row.flags
    BY <1>4
<1>7. /\ Listed(d, n) /\ Shrinks(c, d) /\ Waiting(d) = Waiting(c)
      /\ NumRows(d) = NumRows(c) /\ ~d.onInsertRow /\ d.deletedRows = c.deletedRows
      /\ \A i \in 1..NumRows(c) : d.rvh[i] = IF i = p THEN new ELSE c.rvh[i]
  <2>1. PICK dels : dels = c.deletedRows
      OBVIOUS
  <2>2. dels \subseteq 1..NumRows(c) /\ ~c.onInsertRow
      BY <1>2, <2>1
  <2>3. /\ new.orig[Id] = c.rvh[p].orig[Id]
        /\ "created" \in new.flags <=> "created" \in c.rvh[p].flags
      BY <1>1, <1>4, <1>6
  <2>4. IsPut(c, n, p, new, dels, d)
      BY <1>2, <1>4, <1>5, <2>1, <2>2, <2>3 DEF IsPut
  <2>5. Listed(d, n) /\ Shrinks(c, d) /\ HasPut(c, p, new, dels, d)
      BY <1>2, <2>4, PutRow
  <2> QED BY <2>1, <2>5 DEF HasPut
<1>8. Underway(d)
  <2>1. \A i \in 1..NumRows(c) : "removed" \notin c.rvh[i].flags
      BY <1>2 DEF Settled
  <2>2. \A i \in 1..NumRows(c) : "removed" \notin d.rvh[i].flags
      BY <1>1, <1>2, <1>4, <1>7, <2>1
  <2>3. d.deletedRows \cap Waiting(d) = {}
      BY <1>2, <1>7 DEF Settled
  <2> QED BY <1>7, <2>2, <2>3 DEF Underway
<1> QED BY <1>7, <1>8

\* and deleteRow too, the bit of the row as well.
LEMMA DeleteUnderway ==
    ASSUME NEW n \in Nat, NEW c, Kept(c, n), OnRow(c), NEW d, d = DeleteRow(c)
    PROVE  /\ Listed(d, n) /\ Underway(d) /\ Shrinks(c, d)
           /\ d.deletedRows = c.deletedRows \cup {c.cursorPos}
<1>1. PICK p, row : p = c.cursorPos /\ row = c.rvh[p]
    OBVIOUS
<1>2. /\ c \in Cache /\ NumRows(c) \in Nat /\ row \in Row /\ Listed(c, n) /\ Fine(row, n)
      /\ p \in 1..NumRows(c) /\ Settled(c) /\ ~c.onInsertRow
      /\ c.deletedRows \in SUBSET (1..NumRows(c))
    BY <1>1, ListedFacts DEF Kept, Listed, OnRow
<1>3. PICK fs : fs = row.flags \cup {"removed"}
    OBVIOUS
<1>4. PICK new : new = [row EXCEPT !.flags = fs]
    OBVIOUS
<1>5. new \in Row /\ Fine(new, n) /\ new.orig = row.orig /\ new.flags = fs
  <2>1. fs \in SUBSET Flag
      BY <1>2, <1>3 DEF Row, Flag
  <2>2. new.orig = row.orig /\ new.flags = fs
      BY <1>2, <1>4 DEF Row
  <2> QED BY <1>2, <1>4, <2>1, <2>2, RowTypes, RowsStayFine
<1>6. PICK dels : dels = c.deletedRows \cup {p}
    OBVIOUS
<1>7. dels \in SUBSET (1..NumRows(c))
    BY <1>2, <1>6
<1>8. d = [c EXCEPT !.rvh = [c.rvh EXCEPT ![p] = new], !.deletedRows = dels]
    BY <1>1, <1>2, <1>3, <1>4, <1>6 DEF DeleteRow, Cache
<1>9. "created" \in new.flags <=> "created" \in row.flags
    BY <1>3, <1>5
<1>10. /\ Listed(d, n) /\ Shrinks(c, d) /\ Waiting(d) = Waiting(c)
       /\ NumRows(d) = NumRows(c) /\ ~d.onInsertRow /\ d.deletedRows = dels
       /\ \A i \in 1..NumRows(c) : d.rvh[i] = IF i = p THEN new ELSE c.rvh[i]
  <2>1. /\ new.orig[Id] = c.rvh[p].orig[Id]
        /\ "created" \in new.flags <=> "created" \in c.rvh[p].flags
      BY <1>1, <1>5, <1>9
  <2>2. dels \subseteq 1..NumRows(c)
      BY <1>7
  <2>3. IsPut(c, n, p, new, dels, d)
      BY <1>2, <1>5, <1>8, <2>1, <2>2 DEF IsPut
  <2>4. Listed(d, n) /\ Shrinks(c, d) /\ HasPut(c, p, new, dels, d)
      BY <1>2, <2>3, PutRow
  <2> QED BY <2>4 DEF HasPut
<1>11. Underway(d)
  <2>1. \A i \in 1..NumRows(c) : "updated" \notin c.rvh[i].flags
      BY <1>2 DEF Settled
  <2>2. \A i \in 1..NumRows(c) : "updated" \notin d.rvh[i].flags
      BY <1>1, <1>2, <1>3, <1>5, <1>10, <2>1
  <2>3. \A i \in d.deletedRows \cap Waiting(d) : i = p
      BY <1>2, <1>6, <1>10 DEF Settled
  <2>4. "removed" \in d.rvh[p].flags
      BY <1>2, <1>3, <1>5, <1>10
  <2> QED BY <1>10, <2>2, <2>3, <2>4 DEF Underway
<1> QED BY <1>1, <1>6, <1>10, <1>11

\* updateXXX on the insert row puts the next id in the buffer.
LEMMA BufferKept ==
    ASSUME NEW n \in Nat, NEW c, Kept(c, n), c.onInsertRow, n < MaxInit + MaxInserts,
           NEW d, d = UpdateColumn(c, Id, n + 1)
    PROVE  Kept(d, n) /\ Shrinks(c, d) /\ d.onInsertRow
<1>1. /\ c \in Cache /\ c.insertRow \in InsertBuffer /\ c.insertRow.vals \in Values
      /\ c.insertRow.given \in SUBSET Column
    BY DEF Kept, Listed, Cache, InsertBuffer
<1>2. Id \in Column /\ n + 1 \in Datum
  <2>1. MaxInit \in Nat /\ MaxInserts \in Nat
      BY BoundsAssumption
  <2>2. n + 1 \in 1..(MaxInit + MaxInserts)
      BY <2>1
  <2>3. n + 1 \in Value
      BY <2>2, IdAssumption
  <2> QED BY <2>3, IdAssumption DEF Datum
<1>3. PICK v : v = [c.insertRow.vals EXCEPT ![Id] = n + 1]
    OBVIOUS
<1>4. v \in Values /\ v[Id] = n + 1
    BY <1>1, <1>2, <1>3 DEF Values
<1>5. PICK g : g = c.insertRow.given \cup {Id}
    OBVIOUS
<1>6. g \in SUBSET Column /\ Id \in g
    BY <1>1, <1>2, <1>5
<1>7. PICK b : b = [c.insertRow EXCEPT !.vals = v, !.given = g]
    OBVIOUS
<1>8. b \in InsertBuffer /\ b.vals = v /\ b.given = g
    BY <1>1, <1>4, <1>6, <1>7 DEF InsertBuffer
<1>9. d = [c EXCEPT !.insertRow = b]
    BY <1>1, <1>3, <1>5, <1>7 DEF UpdateColumn, Cache, InsertBuffer
<1>10. /\ d \in Cache /\ d.rvh = c.rvh /\ d.deletedRows = c.deletedRows
       /\ d.showDeleted = c.showDeleted /\ d.onInsertRow /\ d.insertRow = b
    BY <1>1, <1>8, <1>9 DEF Cache
<1>11. Listed(d, n) /\ Settled(d) /\ ~d.showDeleted /\ Shrinks(c, d)
    BY <1>10, SameRowsKept
<1>12. Ready(d, n)
    BY <1>4, <1>8, <1>10 DEF Ready
<1> QED BY <1>10, <1>11, <1>12 DEF Kept

\* insertRow, when no other insert waits, appends the row that waits now.
LEMMA InsertKept ==
    ASSUME NEW n \in Nat, NEW c, Kept(c, n), CanInsertRow(c), Waiting(c) = {},
           NumRows(c) < MaxRows, NEW d, d = InsertRow(c)
    PROVE  /\ Kept(d, n + 1) /\ d.onInsertRow /\ n < MaxInit + MaxInserts
           /\ NumRows(d) = NumRows(c) + 1
           /\ \A i \in 1..NumRows(c) : d.rvh[i] = c.rvh[i]
           /\ d.rvh[NumRows(d)].orig[Id] = n + 1
<1>1. /\ c \in Cache /\ c.onInsertRow /\ ~c.showDeleted /\ NumRows(c) \in Nat
      /\ c.rvh \in Seq(Row) /\ NumRows(c) = Len(c.rvh)
      /\ c.insertRow \in InsertBuffer /\ c.insertRow.vals \in Values
      /\ c.deletedRows \subseteq 1..NumRows(c)
      /\ \A i \in 1..NumRows(c) : Fine(c.rvh[i], n)
      /\ \A i, j \in 1..NumRows(c) : c.rvh[i].orig[Id] = c.rvh[j].orig[Id] => i = j
    BY ListedFacts DEF Kept, Listed, CanInsertRow, Cache, InsertBuffer
<1>2. c.insertRow.vals[Id] = n + 1 /\ n < MaxInit + MaxInserts
  <2>1. Id \in c.insertRow.given
      BY IdAssumption DEF CanInsertRow
  <2> QED BY <1>1, <2>1 DEF Kept, Ready
<1>3. PICK row : row = [NewRow(c.insertRow.vals) EXCEPT !.flags = {"created"}]
    OBVIOUS
<1>4. /\ row \in Row /\ row.flags = {"created"} /\ row.orig[Id] = n + 1 /\ Fine(row, n + 1)
  <2>1. row \in Row
      BY <1>1, <1>3, NewRowType DEF Flag
  <2>2. /\ row.flags = {"created"} /\ row.orig = c.insertRow.vals /\ row.changed = {}
        /\ row.curr = NoValues
      BY <1>3 DEF NewRow
  <2>3. row.curr[Id] = NULL
      BY <2>2, IdAssumption DEF NoValues
  <2>4. row.orig[Id] = n + 1 /\ n + 1 \in 1..(n + 1)
      BY <1>2, <2>2
  <2> QED BY <2>1, <2>2, <2>3, <2>4 DEF Fine, Named
<1>5. PICK rows : rows = Append(c.rvh, row)
    OBVIOUS
<1>6. /\ rows \in Seq(Row) /\ Len(rows) = NumRows(c) + 1
      /\ \A i \in 1..NumRows(c) : rows[i] = c.rvh[i]
      /\ rows[NumRows(c) + 1] = row
    BY <1>1, <1>4, <1>5
<1>7. d = [c EXCEPT !.rvh = rows]
    BY <1>3, <1>5 DEF InsertRow
<1>8. /\ d \in Cache /\ d.rvh = rows /\ d.onInsertRow /\ ~d.showDeleted
      /\ d.deletedRows = c.deletedRows
    BY <1>1, <1>6, <1>7 DEF Cache
<1>9. PICK m : m = NumRows(d)
    OBVIOUS
<1>10. /\ m = NumRows(c) + 1 /\ m \in 1..m /\ 1..m = 1..NumRows(c) \cup {m} /\ m \notin 1..NumRows(c)
       /\ \A i \in 1..NumRows(c) : d.rvh[i] = c.rvh[i]
       /\ d.rvh[m] = row
  <2>1. m = NumRows(c) + 1
      BY <1>6, <1>8, <1>9 DEF NumRows
  <2>2. m \in 1..m /\ 1..m = 1..NumRows(c) \cup {m} /\ m \notin 1..NumRows(c)
      BY <1>1, <2>1
  <2> QED BY <1>6, <1>8, <2>1, <2>2
<1>11. Waiting(d) = {m}
  <2>1. \A i \in 1..NumRows(c) : "created" \notin c.rvh[i].flags
      BY DEF Waiting
  <2>2. \A i \in 1..m : "created" \in d.rvh[i].flags <=> i = m
      BY <1>4, <1>10, <2>1
  <2> QED BY <1>9, <1>10, <2>2 DEF Waiting
<1>12. Listed(d, n + 1)
  <2>1. NumRows(d) <= MaxRows
      BY <1>1, <1>9, <1>10, BoundsAssumption
  <2>2. \A i \in 1..NumRows(c) : Fine(c.rvh[i], n + 1) /\ c.rvh[i].orig[Id] # n + 1
      BY <1>1 DEF Fine, Named
  <2>3. \A i \in 1..m : Fine(d.rvh[i], n + 1)
      BY <1>4, <1>10, <2>2
  <2>4. \A i, j \in 1..m : d.rvh[i].orig[Id] = d.rvh[j].orig[Id] => i = j
    <3>1. ASSUME NEW i \in 1..m, NEW j \in 1..m, d.rvh[i].orig[Id] = d.rvh[j].orig[Id]
          PROVE  i = j
      <4>1. i \in 1..NumRows(c) \/ i = m
          BY <1>10
      <4>2. j \in 1..NumRows(c) \/ j = m
          BY <1>10
      <4>3. CASE i = m \/ j = m
          BY <1>4, <1>10, <2>2, <3>1, <4>1, <4>2, <4>3
      <4>4. CASE i \in 1..NumRows(c) /\ j \in 1..NumRows(c)
          BY <1>1, <1>10, <3>1, <4>4
      <4> QED BY <4>1, <4>2, <4>3, <4>4
    <3> QED BY <3>1
  <2>5. d.deletedRows \subseteq 1..m
      BY <1>1, <1>8, <1>10
  <2>6. \A i \in Waiting(d) : i = m /\ d.rvh[i].orig[Id] = n + 1
      BY <1>4, <1>10, <1>11
  <2> QED BY <1>8, <1>9, <2>1, <2>3, <2>4, <2>5, <2>6 DEF Listed
<1>13. Settled(d)
  <2>1. \A i \in 1..NumRows(c) : c.rvh[i].flags \cap {"removed", "updated"} = {}
      BY DEF Kept, Settled
  <2>2. \A i \in 1..m : d.rvh[i].flags \cap {"removed", "updated"} = {}
      BY <1>4, <1>10, <2>1
  <2>3. d.deletedRows \cap Waiting(d) = {}
      BY <1>1, <1>8, <1>10, <1>11
  <2> QED BY <1>9, <2>2, <2>3 DEF Settled
<1>14. Ready(d, n + 1)
    BY <1>11 DEF Ready
<1> QED BY <1>2, <1>4, <1>8, <1>9, <1>10, <1>12, <1>13, <1>14 DEF Kept

\* populate gives the first ids.
LEMMA PopulateKept ==
    ASSUME NEW n \in 0..MaxInit,
           NEW c, c = Populate([i \in 1..n |-> [k \in Column |-> i]], FALSE)
    PROVE  Kept(c, n) /\ ~c.onInsertRow /\ Waiting(c) = {}
<1>1. MaxInit \in Nat /\ MaxInserts \in Nat /\ MaxRows \in Nat /\ n \in Nat /\ n <= MaxRows
      /\ n <= MaxInit + MaxInserts
    BY BoundsAssumption
<1>2. PICK rows : rows = [i \in 1..n |-> [k \in Column |-> i]]
    OBVIOUS
<1>3. rows \in [1..n -> Values]
  <2>1. \A i \in 1..n : i \in Datum
      BY <1>1, IdAssumption DEF Datum
  <2>2. \A i \in 1..n : [k \in Column |-> i] \in Values
      BY <2>1 DEF Values
  <2> QED BY <1>2, <2>2
<1>4. /\ Formed(c) /\ ~c.onInsertRow /\ NumRows(c) = n
      /\ \A i \in 1..n : c.rvh[i] = NewRow(rows[i])
    BY <1>1, <1>2, <1>3, PopulateRows
<1>5. c.deletedRows = {} /\ ~c.showDeleted
    BY DEF Populate
<1>6. ASSUME NEW i \in 1..n
      PROVE  c.rvh[i].flags = {} /\ c.rvh[i].orig[Id] = i /\ Fine(c.rvh[i], n)
  <2>1. rows[i][Id] = i
      BY <1>2, IdAssumption
  <2>2. /\ c.rvh[i].flags = {} /\ c.rvh[i].changed = {} /\ c.rvh[i].orig = rows[i]
        /\ c.rvh[i].curr = NoValues
    <3>1. PICK v, w : v = rows[i] /\ w = c.rvh[i]
        OBVIOUS
    <3>2. w = NewRow(v)
        BY <1>4, <3>1
    <3>3. w.flags = {} /\ w.changed = {} /\ w.orig = v /\ w.curr = NoValues
        BY <3>2 DEF NewRow
    <3> QED BY <3>1, <3>3
  <2>3. c.rvh[i].curr[Id] = NULL
      BY <2>2, IdAssumption DEF NoValues
  <2> QED BY <2>1, <2>2, <2>3 DEF Fine, Named
<1>7. Waiting(c) = {}
    BY <1>4, <1>6 DEF Waiting
<1>8. Listed(c, n)
  <2>1. c \in Cache /\ NumRows(c) <= MaxRows
      BY <1>1, <1>4 DEF Formed
  <2>2. \A i, j \in 1..NumRows(c) : c.rvh[i].orig[Id] = c.rvh[j].orig[Id] => i = j
    <3>1. \A i \in 1..n : c.rvh[i].orig[Id] = i
        BY <1>6
    <3> QED BY <1>4, <3>1
  <2> QED BY <1>4, <1>5, <1>6, <1>7, <2>1, <2>2 DEF Listed
<1>9. Settled(c)
    BY <1>4, <1>6, <1>7 DEF Settled
<1> QED BY <1>4, <1>5, <1>7, <1>8, <1>9, OffIsReady DEF Kept

----------------------------------------------------------------------------
(* The inductive invariant.                                                *)

\* The row the bookmark was taken on, where it is still there, has not moved.
HeldBy(c, h) == \A i \in 1..NumRows(c) : c.rvh[i].orig[Id] = h.id => h.mark = i

\* What holds of the five variables.
Good(c, n, on, ins, h) ==
    /\ n \in 0..(MaxInit + MaxInserts)
    /\ Kept(c, n)
    /\ on \in BOOLEAN /\ ins \in BOOLEAN
    /\ h \in [mark : 0..MaxRows, id : 0..n]
    /\ HeldBy(c, h)
    /\ Waiting(c) # {} => ins
    /\ on => c.onInsertRow

IInv == Good(crs, issued, mOnInsert, mRowInserted, held)

\* Rows are only taken away, at the end.
LEMMA GoesOn ==
    ASSUME NEW c, NEW n, NEW on, NEW ins, NEW h, Good(c, n, on, ins, h),
           NEW d, Kept(d, n), Shrinks(c, d), NEW on2 \in BOOLEAN, NEW ins2 \in BOOLEAN,
           Waiting(d) # {} => ins2, on2 => d.onInsertRow
    PROVE  Good(d, n, on2, ins2, h)
<1>1. NumRows(c) \in Nat /\ NumRows(d) \in Nat /\ NumRows(d) <= NumRows(c)
    BY ListedFacts DEF Good, Kept, Shrinks
<1>2. \A i \in 1..NumRows(d) : i \in 1..NumRows(c)
    BY <1>1
<1>3. HeldBy(d, h)
    BY <1>2 DEF Good, HeldBy, Shrinks
<1> QED BY <1>3 DEF Good

\* With the two flags as they were.
LEMMA GoesOnAlike ==
    ASSUME NEW c, NEW n, NEW on, NEW ins, NEW h, Good(c, n, on, ins, h),
           NEW d, Kept(d, n), Shrinks(c, d), on => d.onInsertRow
    PROVE  Good(d, n, on, ins, h) /\ Good(d, n, FALSE, ins, h)
<1>1. Waiting(d) # {} => ins
    BY DEF Good, Shrinks
<1>2. on \in BOOLEAN /\ ins \in BOOLEAN /\ FALSE \in BOOLEAN
    BY DEF Good
<1>3. Good(d, n, on, ins, h)
    BY <1>1, <1>2, GoesOn
<1>4. Good(d, n, FALSE, ins, h)
    BY <1>1, <1>2, GoesOn
<1> QED BY <1>3, <1>4

\* With the cursor elsewhere.
LEMMA MovesOn ==
    ASSUME NEW c, NEW n, NEW on, NEW ins, NEW h, Good(c, n, on, ins, h), NEW d, Alike(c, d)
    PROVE  Good(d, n, on, ins, h) /\ Good(d, n, FALSE, ins, h)
<1>1. n \in Nat /\ Kept(c, n)
    BY BoundsAssumption DEF Good
<1>2. Kept(d, n) /\ Shrinks(c, d) /\ d.onInsertRow = c.onInsertRow
    BY <1>1, AlikeKept
<1>3. on => d.onInsertRow
    BY <1>2 DEF Good
<1> QED BY <1>2, <1>3, GoesOnAlike

\* What Good says of its record.
LEMMA GoodFacts ==
    ASSUME NEW c, NEW n, NEW on, NEW ins, NEW h, Good(c, n, on, ins, h)
    PROVE  /\ n \in Nat /\ Kept(c, n) /\ Listed(c, n) /\ Settled(c) /\ Formed(c) /\ c \in Cache
           /\ ~c.showDeleted /\ NumRows(c) \in Nat /\ h.mark \in Nat /\ WellCounted(c)
           /\ \A i \in 1..NumRows(c) : c.rvh[i] \in Row /\ IdOf(c.rvh[i]) = c.rvh[i].orig[Id]
<1>1. n \in Nat /\ Kept(c, n) /\ Listed(c, n) /\ Settled(c) /\ ~c.showDeleted /\ h.mark \in Nat
    BY BoundsAssumption DEF Good, Kept
<1>2. /\ Formed(c) /\ c \in Cache /\ NumRows(c) \in Nat
      /\ \A i \in 1..NumRows(c) : c.rvh[i] \in Row
    BY <1>1, ListedFacts
<1>3. \A i \in 1..NumRows(c) : Fine(c.rvh[i], n)
    BY <1>1 DEF Listed
<1>4. \A i \in 1..NumRows(c) : IdOf(c.rvh[i]) = c.rvh[i].orig[Id]
    BY <1>1, <1>2, <1>3, RowsStayFine
<1>5. WellCounted(c)
    BY <1>1, <1>2 DEF Listed, WellCounted
<1> QED BY <1>1, <1>2, <1>4, <1>5

\* Before its edit is accepted a settled list is under way.
LEMMA SettledIsUnderway ==
    ASSUME NEW c, Settled(c), ~c.onInsertRow
    PROVE  Underway(c)
BY DEF Settled, Underway

\* updateRow, accepted or refused.
LEMMA UpdateAccepted ==
    ASSUME NEW n \in Nat, NEW c, Kept(c, n), OnRow(c), NEW ok \in BOOLEAN,
           NEW d, d = Accepted(UpdateRow(c), ok)
    PROVE  Kept(d, n) /\ Shrinks(c, d)
<1>1. PICK u : u = UpdateRow(c)
    OBVIOUS
<1>2. Listed(u, n) /\ Underway(u) /\ Shrinks(c, u)
    BY <1>1, UpdateUnderway
<1>3. d = Accepted(u, ok)
    BY <1>1
<1>4. Listed(d, n) /\ Settled(d) /\ Shrinks(u, d) /\ ~d.onInsertRow
    BY <1>2, <1>3, AcceptedSettles
<1>5. NumRows(c) \in Nat /\ NumRows(u) \in Nat /\ NumRows(d) \in Nat
    BY <1>2, <1>4, ListedFacts DEF Kept
<1>6. Shrinks(c, d)
    BY <1>2, <1>4, <1>5, ShrinksOn
<1>7. ~d.showDeleted
    BY <1>6 DEF Shrinks, Kept
<1> QED BY <1>4, <1>6, <1>7, OffIsReady DEF Kept

\* deleteRow, accepted or refused: no other bit is set.
LEMMA DeleteAccepted ==
    ASSUME NEW n \in Nat, NEW c, Kept(c, n), OnRow(c), NEW ok \in BOOLEAN,
           NEW d, d = Accepted(DeleteRow(c), ok)
    PROVE  Kept(d, n) /\ Shrinks(c, d) /\ d.deletedRows \subseteq c.deletedRows \cup {c.cursorPos}
<1>1. PICK u : u = DeleteRow(c)
    OBVIOUS
<1>2. /\ Listed(u, n) /\ Underway(u) /\ Shrinks(c, u)
      /\ u.deletedRows = c.deletedRows \cup {c.cursorPos}
    BY <1>1, DeleteUnderway
<1>3. d = Accepted(u, ok)
    BY <1>1
<1>4. Listed(d, n) /\ Settled(d) /\ Shrinks(u, d) /\ ~d.onInsertRow /\ d.deletedRows \subseteq u.deletedRows
    BY <1>2, <1>3, AcceptedSettles
<1>5. NumRows(c) \in Nat /\ NumRows(u) \in Nat /\ NumRows(d) \in Nat
    BY <1>2, <1>4, ListedFacts DEF Kept
<1>6. Shrinks(c, d)
    BY <1>2, <1>4, <1>5, ShrinksOn
<1>7. ~d.showDeleted
    BY <1>6 DEF Shrinks, Kept
<1> QED BY <1>2, <1>4, <1>6, <1>7, OffIsReady DEF Kept

\* acceptInsert from off the insert row: nothing waits, the cursor is on the
\* last row to see, and where a row waited it is in and current or it is gone.
LEMMA InsertAccepted ==
    ASSUME NEW n \in Nat, NEW c, Kept(c, n), ~c.onInsertRow, NEW ok \in BOOLEAN,
           NEW d, d = AcceptInsert(c, ok)
    PROVE  /\ Kept(d, n) /\ Shrinks(c, d) /\ Waiting(d) = {} /\ ~d.onInsertRow
           /\ Waiting(c) # {} =>
                \/ /\ ok /\ OnRow(d) /\ d.cursorPos = NumRows(c) /\ NumRows(d) = NumRows(c)
                   /\ "inserted" \in d.rvh[NumRows(c)].flags
                \/ ~ok /\ NumRows(d) = NumRows(c) - 1
<1>1. PICK e : e = Accepted(c, ok)
    OBVIOUS
<1>2. Underway(c) /\ Listed(c, n) /\ Settled(c) /\ ~c.showDeleted /\ NumRows(c) \in Nat
    BY SettledIsUnderway, ListedFacts DEF Kept
<1>3. /\ Listed(e, n) /\ Settled(e) /\ Shrinks(c, e) /\ ~e.onInsertRow
      /\ e.deletedRows \subseteq c.deletedRows /\ Waiting(e) = {}
      /\ Waiting(c) # {} =>
           IF ok THEN NumRows(e) = NumRows(c) /\ "inserted" \in e.rvh[NumRows(c)].flags
           ELSE NumRows(e) = NumRows(c) - 1
    BY <1>1, <1>2, AcceptedSettles
<1>4. Kept(e, n)
  <2>1. ~e.showDeleted
      BY <1>2, <1>3 DEF Shrinks
  <2> QED BY <1>3, <2>1, OffIsReady DEF Kept
<1>5. d = Last(e)
    BY <1>1 DEF AcceptInsert
<1>6. Formed(e) /\ NumRows(e) \in Nat /\ ~e.showDeleted
    BY <1>3, <1>4, ListedFacts DEF Kept
<1>7. Alike(e, d)
    BY <1>5, <1>6, FirstLastAlike
<1>8. Kept(d, n) /\ Shrinks(e, d) /\ d.onInsertRow = e.onInsertRow /\ NumRows(d) = NumRows(e)
      /\ d.rvh = e.rvh
    BY <1>4, <1>6, <1>7, AlikeKept, AlikeFacts DEF Alike
<1>9. Shrinks(c, d)
    BY <1>2, <1>3, <1>6, <1>8, ShrinksOn
<1>10. Waiting(d) = {}
    BY <1>3, <1>8 DEF Shrinks
<1>11. ASSUME Waiting(c) # {}, ok PROVE d.cursorPos = NumRows(c) /\ NumRows(c) \in 1..NumRows(d)
  <2>1. PICK k : k = NumRows(c)
      OBVIOUS
  <2>2. k \in Waiting(c) /\ k \in 1..k /\ k \notin c.deletedRows /\ k \in Nat
    <3>1. Waiting(c) \subseteq 1..k /\ \A i \in Waiting(c) : i = k
        BY <1>2, <2>1, ListedFacts DEF Listed
    <3>2. k \in Waiting(c) /\ k \in 1..k
        BY <1>11, <3>1
    <3> QED BY <1>2, <2>1, <3>2 DEF Settled
  <2>3. NumRows(e) = k /\ k \in Shown(e)
    <3>1. NumRows(e) = k /\ k \notin e.deletedRows
        BY <1>3, <1>11, <2>1, <2>2
    <3> QED BY <1>6, <2>2, <3>1 DEF Shown
  <2>4. ~IsEmpty(e)
      BY <1>3, <1>6, <2>3, ShownIsNotEmpty DEF Listed, WellCounted
  <2>5. PICK f : f = InternalAfterLast(e)
      OBVIOUS
  <2>6. /\ Alike(e, f) /\ f.cursorPos = k + 1 /\ d = InternalPrevious(f)
    <3>1. f.cursorPos = k + 1
        BY <1>6, <2>3, <2>5 DEF InternalAfterLast, Formed, Cache
    <3>2. d = InternalPrevious(f)
        BY <1>5, <2>4, <2>5 DEF Last
    <3> QED BY <1>6, <2>5, <3>1, <3>2, StepsAlike
  <2>7. Formed(f) /\ Shown(f) = Shown(e) /\ NumRows(f) = k
      BY <1>6, <2>3, <2>6, AlikeFacts
  <2>8. PICK S : S = {i \in Shown(f) : i < f.cursorPos}
      OBVIOUS
  <2>9. k \in S /\ S \in SUBSET (0..k)
    <3>1. Shown(f) \subseteq 1..k
        BY <2>7 DEF Shown
    <3> QED BY <2>2, <2>3, <2>6, <2>7, <2>8, <3>1
  <2>10. Max(S) = k
    <3>1. PICK m : m = Max(S)
        OBVIOUS
    <3>2. m \in S /\ \A i \in S : i <= m
        BY <2>2, <2>9, <3>1, MaxOfBounded
    <3>3. m \in 0..k /\ k <= m
        BY <2>9, <3>2
    <3> QED BY <2>2, <3>1, <3>3
  <2>11. PICK a : a = f.absolutePos - 1
      OBVIOUS
  <2>12. d = [f EXCEPT !.cursorPos = k, !.absolutePos = a]
    <3>1. ~(f.cursorPos <= 0) /\ S # {}
        BY <2>2, <2>6, <2>9
    <3>2. InternalPrevious(f) = [f EXCEPT !.cursorPos = Max(S), !.absolutePos = @ - 1]
        BY <2>8, <3>1 DEF InternalPrevious
    <3> QED BY <2>6, <2>10, <2>11, <3>2
  <2>13. d.cursorPos = k
      BY <2>7, <2>12 DEF Formed, Cache
  <2> QED BY <1>8, <2>1, <2>2, <2>3, <2>13
<1>12. ASSUME Waiting(c) # {}
       PROVE  \/ /\ ok /\ OnRow(d) /\ d.cursorPos = NumRows(c) /\ NumRows(d) = NumRows(c)
                 /\ "inserted" \in d.rvh[NumRows(c)].flags
              \/ ~ok /\ NumRows(d) = NumRows(c) - 1
  <2>1. CASE ok
    <3>1. NumRows(d) = NumRows(c) /\ "inserted" \in d.rvh[NumRows(c)].flags /\ ~d.onInsertRow
        BY <1>3, <1>8, <1>12, <2>1
    <3>2. OnRow(d)
        BY <1>11, <1>12, <2>1, <3>1 DEF OnRow
    <3> QED BY <1>11, <1>12, <2>1, <3>1, <3>2
  <2>2. CASE ~ok
      BY <1>3, <1>8, <1>12, <2>2
  <2> QED BY <2>1, <2>2
<1> QED BY <1>3, <1>8, <1>9, <1>10, <1>12

----------------------------------------------------------------------------
(* Every step keeps it: navigation and bookmarks move the cursor only.     *)

\* Moves to a bookmark and from one.
LEMMA MarkMoves ==
    ASSUME NEW c, Formed(c), ~c.showDeleted, NEW m \in Nat
    PROVE  Alike(c, AtMarkOrEnd(c, m)) /\ \A n \in Int : Alike(c, FromMark(c, m, n))
<1>1. PICK t : t = ToMark(c, m)
    OBVIOUS
<1>2. Alike(c, t) /\ Formed(t)
    BY <1>1, MarkFacts, AlikeFacts
<1>3. Alike(c, AtMarkOrEnd(c, m))
  <2>1. Alike(t, AfterLast(t))
      BY <1>2, StepsAlike
  <2>2. Alike(c, AfterLast(t))
      BY <1>2, <2>1, AlikeOn
  <2> QED BY <1>1, <1>2, <2>2 DEF AtMarkOrEnd
<1>4. ASSUME NEW n \in Int PROVE Alike(c, FromMark(c, m, n))
  <2>1. PICK to : to = Relative(t, n)
      OBVIOUS
  <2>2. Alike(c, to) /\ Formed(to)
    <3>1. Alike(t, to)
        BY <1>2, <2>1, RelativeAlike
    <3> QED BY <1>2, <3>1, AlikeOn, AlikeFacts
  <2>3. Alike(to, AfterLast(to))
      BY <2>2, StepsAlike
  <2>4. Alike(c, AfterLast(to))
      BY <2>2, <2>3, AlikeOn
  <2>5. FromMark(c, m, n) \in {t, to, AfterLast(to)}
      BY <1>1, <2>1 DEF FromMark
  <2> QED BY <1>2, <2>2, <2>4, <2>5
<1> QED BY <1>3, <1>4

\* A step that moves the cursor, and may forget the insert row.
LEMMA AlikeStep ==
    ASSUME IInv, Alike(crs, crs'), mOnInsert' \in {mOnInsert, FALSE},
           mRowInserted' = mRowInserted, issued' = issued, held' = held
    PROVE  IInv'
<1>1. /\ Good(crs', issued, mOnInsert, mRowInserted, held)
      /\ Good(crs', issued, FALSE, mRowInserted, held)
    BY MovesOn DEF IInv
<1>2. Good(crs', issued', mOnInsert', mRowInserted', held')
    BY <1>1
<1> QED BY <1>2 DEF IInv

\* What the invariant says of the state.
LEMMA IInvFacts ==
    ASSUME IInv
    PROVE  /\ issued \in Nat /\ Kept(crs, issued) /\ Listed(crs, issued) /\ Settled(crs)
           /\ Formed(crs) /\ crs \in Cache /\ ~crs.showDeleted /\ NumRows(crs) \in Nat
           /\ held.mark \in Nat /\ WellCounted(crs)
           /\ \A i \in 1..NumRows(crs) : crs.rvh[i] \in Row /\ IdOf(crs.rvh[i]) = crs.rvh[i].orig[Id]
BY GoodFacts DEF IInv

\* first, last, next and the like.
LEMMA NavigateKeeps ==
    ASSUME IInv, Navigate
    PROVE  IInv'
<1>1. Formed(crs) /\ crs \in Cache
    BY IInvFacts
<1>2. held' = held /\ mRowInserted' = mRowInserted /\ issued' = issued
      /\ mOnInsert' \in {mOnInsert, FALSE}
    BY DEF Navigate, Go, Step
<1>3. \/ crs' \in {InternalNext(crs), InternalPrevious(crs), First(crs), Last(crs),
                   BeforeFirst(crs), AfterLast(crs)}
      \/ \E n \in 1..MaxRows : crs' = Absolute(crs, n)
      \/ \E n \in {-1, 1} : crs' = IF CanRelative(crs) THEN Relative(crs, n) ELSE crs
    BY DEF Navigate, Go, Step
<1>4. CASE crs' \in {InternalNext(crs), InternalPrevious(crs), First(crs), Last(crs),
                     BeforeFirst(crs), AfterLast(crs)}
  <2>1. Alike(crs, crs')
      BY <1>1, <1>4, StepsAlike, FirstLastAlike
  <2> QED BY <1>2, <2>1, AlikeStep
<1>5. CASE \E n \in 1..MaxRows : crs' = Absolute(crs, n)
  <2>1. PICK n \in 1..MaxRows : crs' = Absolute(crs, n)
      BY <1>5
  <2>2. n \in Int
      OBVIOUS
  <2>3. Alike(crs, crs')
      BY <1>1, <2>1, <2>2, AbsoluteAlike
  <2> QED BY <1>2, <2>3, AlikeStep
<1>6. CASE \E n \in {-1, 1} : crs' = IF CanRelative(crs) THEN Relative(crs, n) ELSE crs
  <2>1. PICK n \in {-1, 1} : crs' = IF CanRelative(crs) THEN Relative(crs, n) ELSE crs
      BY <1>6
  <2>2. n \in Int
      BY <2>1
  <2>3. Alike(crs, Relative(crs, n)) /\ Alike(crs, crs)
      BY <1>1, <2>2, RelativeAlike, AlikeSelf
  <2>4. Alike(crs, crs')
      BY <2>1, <2>3
  <2> QED BY <1>2, <2>4, AlikeStep
<1> QED BY <1>3, <1>4, <1>5, <1>6

\* moveToBookmark.
LEMMA MoveToBookmarkKeeps ==
    ASSUME IInv, MoveToBookmark(held.mark)
    PROVE  IInv'
<1>1. Alike(crs, AtMarkOrEnd(crs, held.mark))
    BY IInvFacts, MarkMoves
<1>2. Alike(crs, crs')
    BY <1>1 DEF MoveToBookmark
<1>3. mRowInserted' = mRowInserted /\ issued' = issued /\ held' = held
    BY DEF MoveToBookmark
<1>4. mOnInsert' \in {mOnInsert, FALSE}
    BY DEF MoveToBookmark, IInv, Good
<1> QED BY <1>2, <1>3, <1>4, AlikeStep

\* moveRelativeToBookmark.
LEMMA MoveRelativeKeeps ==
    ASSUME IInv, NEW n \in {-1, 0, 1}, MoveRelativeToBookmark(held.mark, n)
    PROVE  IInv'
<1>1. n \in Int
    OBVIOUS
<1>2. Alike(crs, AtMarkOrEnd(crs, held.mark)) /\ Alike(crs, FromMark(crs, held.mark, n))
    BY <1>1, IInvFacts, MarkMoves
<1>3. crs' \in {AtMarkOrEnd(crs, held.mark), FromMark(crs, held.mark, n)}
    BY DEF MoveRelativeToBookmark, Go
<1>4. Alike(crs, crs')
    BY <1>2, <1>3
<1>5. mRowInserted' = mRowInserted /\ issued' = issued /\ held' = held /\ mOnInsert' = FALSE
    BY DEF MoveRelativeToBookmark, Go
<1> QED BY <1>4, <1>5, AlikeStep

\* getBookmark: the place of the row, which no other row has the id of.
LEMMA GetBookmarkKeeps ==
    ASSUME IInv, GetBookmark
    PROVE  IInv'
<1>1. PICK c : c = IF mOnInsert THEN MoveToCurrentRow(crs) ELSE crs
    OBVIOUS
<1>2. Good(c, issued, FALSE, mRowInserted, held)
  <2>1. Good(crs, issued, mOnInsert, mRowInserted, held)
      BY DEF IInv
  <2>2. Good(crs, issued, FALSE, mRowInserted, held)
      BY <2>1 DEF Good
  <2>3. CASE mOnInsert
    <3>1. c = MoveToCurrentRow(crs)
        BY <1>1, <2>3
    <3>2. Kept(c, issued) /\ Shrinks(crs, c)
        BY <3>1, IInvFacts, InsertRowKept
    <3> QED BY <2>2, <3>2, GoesOnAlike
  <2>4. CASE ~mOnInsert
      BY <1>1, <2>2, <2>4
  <2> QED BY <2>3, <2>4
<1>3. /\ Formed(c) /\ ~c.showDeleted /\ NumRows(c) \in Nat /\ Listed(c, issued)
      /\ \A i \in 1..NumRows(c) : IdOf(c.rvh[i]) = c.rvh[i].orig[Id]
    BY <1>2, GoodFacts
<1>4. /\ crs' = SetShowDeleted(SetShowDeleted(c, TRUE), c.showDeleted)
      /\ mOnInsert' = FALSE /\ mRowInserted' = mRowInserted /\ issued' = issued
      /\ held' = [mark |-> Mark(c),
                  id |-> IF c.cursorPos \in 1..NumRows(c) THEN IdOf(c.rvh[c.cursorPos]) ELSE 0]
    BY <1>1 DEF GetBookmark, Go
<1>5. Alike(c, crs') /\ Mark(c) = IF c.cursorPos \in 1..NumRows(c) THEN c.cursorPos ELSE 0
    BY <1>3, <1>4, TakeMark
<1>6. Good(crs', issued, FALSE, mRowInserted, held)
    BY <1>2, <1>5, MovesOn
<1>7. crs'.rvh = c.rvh /\ NumRows(crs') = NumRows(c)
    BY <1>5 DEF Alike, NumRows
<1>8. PICK h : h = [mark |-> Mark(c),
                    id |-> IF c.cursorPos \in 1..NumRows(c) THEN IdOf(c.rvh[c.cursorPos]) ELSE 0]
    OBVIOUS
<1>9. CASE c.cursorPos \in 1..NumRows(c)
  <2>1. PICK p : p = c.cursorPos
      OBVIOUS
  <2>2. p \in 1..NumRows(c) /\ h.mark = p /\ h.id = c.rvh[p].orig[Id]
        /\ DOMAIN h = {"mark", "id"}
      BY <1>3, <1>5, <1>8, <1>9, <2>1
  <2>3. h \in [mark : 0..MaxRows, id : 0..issued]
    <3>1. h.id \in 0..issued
        BY <1>3, <2>2 DEF Listed, Fine, Named
    <3>2. h.mark \in 0..MaxRows
        BY <1>3, <2>2, BoundsAssumption DEF Listed
    <3>3. h = [mark |-> h.mark, id |-> h.id]
        BY <1>8
    <3> QED BY <3>1, <3>2, <3>3
  <2>4. HeldBy(crs', h)
      BY <1>3, <1>7, <2>2 DEF HeldBy, Listed
  <2>5. Good(crs', issued, FALSE, mRowInserted, h)
      BY <1>6, <2>3, <2>4 DEF Good
  <2> QED BY <1>4, <1>8, <2>5 DEF IInv
<1>10. CASE c.cursorPos \notin 1..NumRows(c)
  <2>1. h = [mark |-> 0, id |-> 0]
      BY <1>5, <1>8, <1>10
  <2>2. h \in [mark : 0..MaxRows, id : 0..issued]
      BY <2>1, IInvFacts, BoundsAssumption
  <2>3. HeldBy(crs', h)
    <3>1. \A i \in 1..NumRows(c) : c.rvh[i].orig[Id] # 0
        BY <1>3 DEF Listed, Fine, Named
    <3> QED BY <1>7, <2>1, <3>1 DEF HeldBy
  <2>4. Good(crs', issued, FALSE, mRowInserted, h)
      BY <1>6, <2>2, <2>3 DEF Good
  <2> QED BY <1>4, <1>8, <2>4 DEF IInv
<1> QED BY <1>9, <1>10

----------------------------------------------------------------------------
(* Edits.                                                                  *)

\* A step that takes no row in.
LEMMA ShrinkStep ==
    ASSUME IInv, Kept(crs', issued), Shrinks(crs, crs'), mOnInsert' \in {mOnInsert, FALSE},
           mOnInsert' => crs'.onInsertRow,
           mRowInserted' = mRowInserted, issued' = issued, held' = held
    PROVE  IInv'
<1>1. /\ mOnInsert' \in BOOLEAN /\ mRowInserted \in BOOLEAN
      /\ Waiting(crs) # {} => mRowInserted
    BY DEF IInv, Good
<1>2. Waiting(crs') # {} => mRowInserted
    BY <1>1 DEF Shrinks
<1>3. PICK on : on = mOnInsert'
    OBVIOUS
<1>4. Good(crs', issued, on, mRowInserted, held)
    BY <1>1, <1>2, <1>3, GoesOn DEF IInv
<1>5. Good(crs', issued', mOnInsert', mRowInserted', held')
    BY <1>3, <1>4
<1> QED BY <1>5 DEF IInv

\* updateXXX.
LEMMA UpdateXXXKeeps ==
    ASSUME IInv, UpdateXXX, held' = held
    PROVE  IInv'
<1>1. /\ issued \in Nat /\ Kept(crs, issued)
      /\ mOnInsert' = mOnInsert /\ mRowInserted' = mRowInserted /\ issued' = issued
      /\ crs' = UpdateColumn(crs, Id, IF crs.onInsertRow THEN issued + 1 ELSE IdOf(Here))
      /\ mOnInsert => crs.onInsertRow
    BY IInvFacts DEF UpdateXXX, Step, IInv, Good
<1>2. CASE crs.onInsertRow
  <2>1. issued < MaxInit + MaxInserts /\ crs' = UpdateColumn(crs, Id, issued + 1)
      BY <1>1, <1>2 DEF UpdateXXX
  <2>2. Kept(crs', issued) /\ Shrinks(crs, crs') /\ crs'.onInsertRow
      BY <1>1, <1>2, <2>1, BufferKept
  <2> QED BY <1>1, <2>2, ShrinkStep
<1>3. CASE ~crs.onInsertRow
  <2>1. crs.cursorPos \in 1..NumRows(crs)
      BY <1>3 DEF UpdateXXX, CheckCursor
  <2>2. issued <= MaxInit + MaxInserts
      BY BoundsAssumption DEF IInv, Good
  <2>3. crs' = UpdateColumn(crs, Id, IdOf(crs.rvh[crs.cursorPos]))
      BY <1>1, <1>3 DEF Here
  <2>4. Kept(crs', issued) /\ Shrinks(crs, crs')
      BY <1>1, <1>3, <2>1, <2>2, <2>3, ColumnKept
  <2> QED BY <1>1, <1>3, <2>4, ShrinkStep
<1> QED BY <1>2, <1>3

\* moveToInsertRow and the way back.
LEMMA InsertRowMovesKeep ==
    ASSUME IInv, BaseMoveToInsertRow \/ InternalMoveToCurrentRow, held' = held
    PROVE  IInv'
<1>1. /\ issued \in Nat /\ Kept(crs, issued)
      /\ mRowInserted \in BOOLEAN /\ (Waiting(crs) # {} => mRowInserted)
    BY IInvFacts DEF IInv, Good
<1>2. CASE BaseMoveToInsertRow
  <2>1. /\ crs' = MoveToInsertRow(crs) /\ mOnInsert' = TRUE
        /\ mRowInserted' = mRowInserted /\ issued' = issued
      BY <1>2 DEF BaseMoveToInsertRow
  <2>2. Kept(crs', issued) /\ Shrinks(crs, crs') /\ crs'.onInsertRow
      BY <1>1, <2>1, InsertRowKept
  <2>3. Waiting(crs') # {} => mRowInserted
      BY <1>1, <2>2 DEF Shrinks
  <2>4. Good(crs', issued, TRUE, mRowInserted, held)
      BY <1>1, <2>2, <2>3, GoesOn DEF IInv
  <2> QED BY <2>1, <2>4 DEF IInv
<1>3. CASE InternalMoveToCurrentRow
  <2>1. /\ crs' = MoveToCurrentRow(crs) /\ mOnInsert' = FALSE
        /\ mRowInserted' = mRowInserted /\ issued' = issued
      BY <1>3 DEF InternalMoveToCurrentRow, Go
  <2>2. Kept(crs', issued) /\ Shrinks(crs, crs')
      BY <1>1, <2>1, InsertRowKept
  <2> QED BY <2>1, <2>2, ShrinkStep
<1> QED BY <1>2, <1>3

\* insertRow: with one insert waiting at a time, the new row is the only one.
LEMMA BaseInsertRowKeeps ==
    ASSUME MaxWaiting = 1, IInv, BaseInsertRow, held' = held
    PROVE  IInv'
<1>1. /\ issued \in Nat /\ Kept(crs, issued) /\ NumRows(crs) \in Nat
      /\ held \in [mark : 0..MaxRows, id : 0..issued] /\ HeldBy(crs, held)
      /\ mOnInsert' = mOnInsert /\ mOnInsert /\ mRowInserted' = TRUE /\ issued' = issued + 1
      /\ crs' = InsertRow(crs) /\ CanInsertRow(crs) /\ NumRows(crs) < MaxRows
      /\ Cardinality(Waiting(crs)) < 1
    BY IInvFacts DEF IInv, Good, BaseInsertRow
<1>2. Waiting(crs) = {}
  <2>1. IsFiniteSet(1..NumRows(crs))
      BY <1>1, FS_Interval
  <2>2. Waiting(crs) \subseteq 1..NumRows(crs)
      BY DEF Waiting
  <2>3. IsFiniteSet(Waiting(crs)) /\ Cardinality(Waiting(crs)) \in Nat
      BY <2>1, <2>2, FS_Subset, FS_CardinalityType
  <2> QED BY <1>1, <2>3, FS_EmptySet
<1>3. PICK d : d = InsertRow(crs)
    OBVIOUS
<1>4. /\ Kept(d, issued + 1) /\ d.onInsertRow /\ issued < MaxInit + MaxInserts
      /\ NumRows(d) = NumRows(crs) + 1
      /\ \A i \in 1..NumRows(crs) : d.rvh[i] = crs.rvh[i]
      /\ d.rvh[NumRows(d)].orig[Id] = issued + 1
    BY <1>1, <1>2, <1>3, InsertKept
<1>5. issued + 1 \in 0..(MaxInit + MaxInserts)
    BY <1>1, <1>4, BoundsAssumption
<1>6. held \in [mark : 0..MaxRows, id : 0..(issued + 1)]
  <2>1. \A x \in 0..issued : x \in 0..(issued + 1)
      BY <1>1
  <2> QED BY <1>1, <2>1
<1>7. HeldBy(d, held)
  <2>1. \A i \in 1..NumRows(d) : i \in 1..NumRows(crs) \/ i = NumRows(d)
      BY <1>1, <1>4
  <2>2. held.id # issued + 1
      BY <1>1
  <2>3. \A i \in 1..NumRows(crs) : crs.rvh[i].orig[Id] = held.id => held.mark = i
      BY <1>1 DEF HeldBy
  <2>4. ASSUME NEW i \in 1..NumRows(d), d.rvh[i].orig[Id] = held.id PROVE held.mark = i
    <3>1. i # NumRows(d)
        BY <1>4, <2>2, <2>4
    <3>2. i \in 1..NumRows(crs)
        BY <2>1, <3>1
    <3> QED BY <1>4, <2>3, <2>4, <3>2
  <2> QED BY <2>4 DEF HeldBy
<1>8. Good(d, issued + 1, TRUE, TRUE, held)
    BY <1>4, <1>5, <1>6, <1>7 DEF Good
<1>9. mOnInsert = TRUE
    BY <1>1 DEF IInv, Good
<1> QED BY <1>1, <1>3, <1>8, <1>9 DEF IInv

\* moveToCurrentRow.
LEMMA BaseMoveToCurrentRowKeeps ==
    ASSUME IInv, NEW ok \in BOOLEAN, BaseMoveToCurrentRow(ok), held' = held
    PROVE  IInv'
<1>1. issued \in Nat /\ Kept(crs, issued) /\ NumRows(crs) \in Nat
      /\ (Waiting(crs) # {} => mRowInserted)
    BY IInvFacts DEF IInv, Good
<1>2. PICK c : c = MoveToCurrentRow(crs)
    OBVIOUS
<1>3. Kept(c, issued) /\ Shrinks(crs, c) /\ ~c.onInsertRow /\ NumRows(c) \in Nat
  <2>1. Kept(c, issued) /\ Shrinks(crs, c) /\ ~c.onInsertRow
      BY <1>1, <1>2, InsertRowKept
  <2> QED BY <2>1, ListedFacts DEF Kept
<1>4. /\ crs' = IF mRowInserted THEN AcceptInsert(c, ok) ELSE c
      /\ mOnInsert' = FALSE /\ mRowInserted' = FALSE /\ issued' = issued
    BY <1>2 DEF BaseMoveToCurrentRow
<1>5. Kept(crs', issued) /\ Shrinks(crs, crs') /\ Waiting(crs') = {}
  <2>1. CASE mRowInserted
    <3>1. crs' = AcceptInsert(c, ok)
        BY <1>4, <2>1
    <3>2. Kept(crs', issued) /\ Shrinks(c, crs') /\ Waiting(crs') = {}
        BY <1>1, <1>3, <3>1, InsertAccepted
    <3>3. NumRows(crs') \in Nat
        BY <3>2, ListedFacts DEF Kept
    <3> QED BY <1>1, <1>3, <3>2, <3>3, ShrinksOn
  <2>2. CASE ~mRowInserted
    <3>1. crs' = c /\ Waiting(crs) = {}
        BY <1>1, <1>4, <2>2
    <3> QED BY <1>3, <3>1 DEF Shrinks
  <2> QED BY <2>1, <2>2
<1>6. Good(crs', issued, FALSE, FALSE, held)
    BY <1>5, GoesOn DEF IInv
<1> QED BY <1>4, <1>6 DEF IInv

\* updateRow, deleteRow and cancelRowUpdates.
LEMMA RowEditsKeep ==
    ASSUME IInv, NEW ok \in BOOLEAN, held' = held,
           BaseUpdateRow(ok) \/ BaseDeleteRow(ok) \/ BaseCancelRowUpdates
    PROVE  IInv'
<1>1. issued \in Nat /\ Kept(crs, issued) /\ Settled(crs) /\ (mOnInsert => crs.onInsertRow)
      /\ crs \in Cache
    BY IInvFacts DEF IInv, Good
<1>2. /\ OnRow(crs) /\ mOnInsert' = mOnInsert /\ mRowInserted' = mRowInserted /\ issued' = issued
      /\ crs' \in {Accepted(UpdateRow(crs), ok), Accepted(DeleteRow(crs), ok),
                   CancelRowUpdates(crs)}
    BY DEF BaseUpdateRow, BaseDeleteRow, BaseCancelRowUpdates, Step
<1>3. ~mOnInsert
    BY <1>1, <1>2 DEF OnRow
<1>4. CancelRowUpdates(crs) = crs
    BY <1>1, <1>2 DEF CancelRowUpdates, Settled, OnRow
<1>5. Kept(crs', issued) /\ Shrinks(crs, crs')
  <2>1. CASE crs' = Accepted(UpdateRow(crs), ok)
      BY <1>1, <1>2, <2>1, UpdateAccepted
  <2>2. CASE crs' = Accepted(DeleteRow(crs), ok)
      BY <1>1, <1>2, <2>2, DeleteAccepted
  <2>3. CASE crs' = CancelRowUpdates(crs)
    <3>1. Alike(crs, crs')
        BY <1>1, <1>4, <2>3, AlikeSelf
    <3> QED BY <1>1, <3>1, AlikeKept
  <2> QED BY <1>2, <2>1, <2>2, <2>3
<1> QED BY <1>2, <1>3, <1>5, ShrinkStep

\* deleteRows.
LEMMA DeleteRowsKeeps ==
    ASSUME IInv, NEW ok \in BOOLEAN, DeleteRows(held.mark, ok)
    PROVE  IInv'
<1>1. issued \in Nat /\ Kept(crs, issued) /\ (mOnInsert => crs.onInsertRow) /\ Formed(crs)
      /\ held.mark \in Int /\ NumRows(crs) \in Nat
    BY IInvFacts DEF IInv, Good
<1>2. PICK c : c = Absolute(crs, held.mark)
    OBVIOUS
<1>3. Alike(crs, c)
    BY <1>1, <1>2, AbsoluteAlike
<1>4. Kept(c, issued) /\ Shrinks(crs, c) /\ c.onInsertRow = crs.onInsertRow /\ NumRows(c) \in Nat
  <2>1. Kept(c, issued) /\ Shrinks(crs, c) /\ c.onInsertRow = crs.onInsertRow
      BY <1>1, <1>3, AlikeKept
  <2> QED BY <2>1, ListedFacts DEF Kept
<1>5. /\ crs' = IF Moved(crs, held.mark) /\ ~mOnInsert /\ OnRow(c)
                THEN Accepted(DeleteRow(c), ok) ELSE c
      /\ held' = held
      /\ mOnInsert' = mOnInsert /\ mRowInserted' = mRowInserted /\ issued' = issued
    BY <1>2 DEF DeleteRows, Step
<1>6. CASE Moved(crs, held.mark) /\ ~mOnInsert /\ OnRow(c)
  <2>1. Kept(crs', issued) /\ Shrinks(c, crs')
      BY <1>1, <1>4, <1>5, <1>6, DeleteAccepted
  <2>2. NumRows(crs') \in Nat
      BY <2>1, ListedFacts DEF Kept
  <2>3. Shrinks(crs, crs')
      BY <1>1, <1>4, <2>1, <2>2, ShrinksOn
  <2> QED BY <1>5, <1>6, <2>1, <2>3, ShrinkStep
<1>7. CASE ~(Moved(crs, held.mark) /\ ~mOnInsert /\ OnRow(c))
  <2>1. crs' = c
      BY <1>5, <1>7
  <2> QED BY <1>1, <1>3, <1>5, <2>1, AlikeStep
<1> QED BY <1>6, <1>7

----------------------------------------------------------------------------
(* The theorems.  MaxWaiting = 1: the client comes back from the insert    *)
(* row before it inserts again.                                            *)

\* The query's rows have their ids, and no bookmark is held.
LEMMA InitGood == Init => IInv
<1> SUFFICES ASSUME Init PROVE IInv
    OBVIOUS
<1>1. /\ mOnInsert = FALSE /\ mRowInserted = FALSE /\ held = [mark |-> 0, id |-> 0]
      /\ \E n \in 0..MaxInit : /\ crs = Populate([i \in 1..n |-> [k \in Column |-> i]], FALSE)
                               /\ issued = n
    BY DEF Init, InitBase, VOID
<1>2. PICK n \in 0..MaxInit : /\ crs = Populate([i \in 1..n |-> [k \in Column |-> i]], FALSE)
                              /\ issued = n
    BY <1>1
<1>3. Kept(crs, issued) /\ ~crs.onInsertRow /\ Waiting(crs) = {}
    BY <1>2, PopulateKept
<1>4. issued \in 0..(MaxInit + MaxInserts) /\ 0 \in 0..MaxRows /\ 0 \in 0..issued
    BY <1>2, BoundsAssumption
<1>5. HeldBy(crs, held)
  <2>1. \A i \in 1..NumRows(crs) : crs.rvh[i].orig[Id] # 0
    <3>1. \A i \in 1..NumRows(crs) : Fine(crs.rvh[i], issued)
        BY <1>3 DEF Kept, Listed
    <3>2. ASSUME NEW row, Fine(row, issued) PROVE row.orig[Id] # 0
        BY <1>4, <3>2 DEF Fine, Named
    <3> QED BY <3>1, <3>2
  <2> QED BY <1>1, <2>1 DEF HeldBy
<1>6. held \in [mark : 0..MaxRows, id : 0..issued]
    BY <1>1, <1>4
<1> QED BY <1>1, <1>3, <1>4, <1>5, <1>6 DEF IInv, Good

\* Every step of the program keeps the invariant.
LEMMA NextKeeps ==
    ASSUME MaxWaiting = 1, IInv, [Next]_vars
    PROVE  IInv'
<1>1. CASE UNCHANGED vars
  <2>1. /\ crs' = crs /\ mOnInsert' = mOnInsert /\ mRowInserted' = mRowInserted
        /\ issued' = issued /\ held' = held
      BY <1>1 DEF vars
  <2> QED BY <2>1 DEF IInv
<1>2. CASE Navigate
    BY <1>2, NavigateKeeps
<1>3. CASE Edit
  <2>1. held' = held
      BY <1>3 DEF Edit
  <2>2. CASE UpdateXXX
      BY <2>1, <2>2, UpdateXXXKeeps
  <2>3. CASE BaseMoveToInsertRow \/ InternalMoveToCurrentRow
      BY <2>1, <2>3, InsertRowMovesKeep
  <2>4. CASE BaseInsertRow
      BY <2>1, <2>4, BaseInsertRowKeeps
  <2>5. CASE BaseCancelRowUpdates
      BY <2>1, <2>5, RowEditsKeep
  <2>6. ASSUME NEW ok \in BOOLEAN, BaseMoveToCurrentRow(ok) PROVE IInv'
      BY <2>1, <2>6, BaseMoveToCurrentRowKeeps
  <2>7. ASSUME NEW ok \in BOOLEAN, BaseUpdateRow(ok) \/ BaseDeleteRow(ok) PROVE IInv'
      BY <2>1, <2>7, RowEditsKeep
  <2> QED BY <1>3, <2>2, <2>3, <2>4, <2>5, <2>6, <2>7 DEF Edit
<1>4. CASE GetBookmark
    BY <1>4, GetBookmarkKeeps
<1>5. CASE MoveToBookmark(held.mark)
    BY <1>5, MoveToBookmarkKeeps
<1>6. ASSUME NEW n \in {-1, 0, 1}, MoveRelativeToBookmark(held.mark, n) PROVE IInv'
    BY <1>6, MoveRelativeKeeps
<1>7. ASSUME NEW ok \in BOOLEAN, DeleteRows(held.mark, ok) PROVE IInv'
    BY <1>7, DeleteRowsKeeps
<1> QED BY <1>1, <1>2, <1>3, <1>4, <1>5, <1>6, <1>7 DEF Next

(* The invariant holds in every state the program can be in.               *)
THEOREM Invariant ==
    ASSUME MaxWaiting = 1
    PROVE  Spec => []IInv
<1>1. Init => IInv
    BY InitGood
<1>2. IInv /\ [Next]_vars => IInv'
    BY NextKeeps
<1> QED BY <1>1, <1>2, PTL DEF Spec

(* The row set stays a row set of at most MaxRows rows, the flags Booleans *)
(* and the bookmark one of a row there was.                                *)
THEOREM TypeCorrect ==
    ASSUME MaxWaiting = 1
    PROVE  Spec => []TypeOK
<1>1. IInv => TypeOK
  <2> SUFFICES ASSUME IInv PROVE TypeOK
      OBVIOUS
  <2>1. crs \in Cache /\ NumRows(crs) <= MaxRows
      BY IInvFacts DEF Listed
  <2>2. /\ mOnInsert \in BOOLEAN /\ mRowInserted \in BOOLEAN /\ issued \in 0..(MaxInit + MaxInserts)
        /\ held \in [mark : 0..MaxRows, id : 0..issued]
      BY DEF IInv, Good
  <2>3. \A x \in 0..issued : x \in 0..(MaxInit + MaxInserts)
      BY <2>2, BoundsAssumption
  <2>4. held \in [mark : 0..MaxRows, id : 0..(MaxInit + MaxInserts)]
      BY <2>2, <2>3
  <2> QED BY <2>1, <2>2, <2>4 DEF TypeOK, BaseTypeOK
<1> QED BY <1>1, Invariant, PTL

(* A row that waits to be inserted is remembered by mRowInserted, and      *)
(* mOnInsert is never true off the insert row of the row set below.        *)
THEOREM FlagsAgreeInvariant ==
    ASSUME MaxWaiting = 1
    PROVE  Spec => []FlagsAgree
<1>1. IInv => FlagsAgree
    BY DEF IInv, Good, FlagsAgree, WaitingInsertRemembered, InsertRowKnown
<1> QED BY <1>1, Invariant, PTL

(* However many rows were deleted, inserted, refused or undone since it    *)
(* was taken, moveToBookmark finds the row of the bookmark if it is left.  *)
THEOREM BookmarkFindsRowInvariant ==
    ASSUME MaxWaiting = 1
    PROVE  Spec => []BookmarkFindsRow
<1>1. IInv => BookmarkFindsRow
  <2> SUFFICES ASSUME IInv, NEW i \in 1..NumRows(crs), IdOf(crs.rvh[i]) = held.id
               PROVE  /\ AtMarkOrEnd(crs, held.mark).cursorPos
                           \in 1..NumRows(AtMarkOrEnd(crs, held.mark))
                      /\ IdOf(AtMarkOrEnd(crs, held.mark).rvh[AtMarkOrEnd(crs, held.mark).cursorPos])
                           = held.id
      BY DEF BookmarkFindsRow
  <2>1. crs.rvh[i].orig[Id] = held.id /\ HeldBy(crs, held)
      BY IInvFacts DEF IInv, Good
  <2>2. held.mark = i
      BY <2>1 DEF HeldBy
  <2>3. PICK m : m = held.mark
      OBVIOUS
  <2>4. PICK t : t = ToMark(crs, m)
      OBVIOUS
  <2>5. m \in Nat /\ Formed(crs) /\ ~crs.showDeleted
      BY <2>3, IInvFacts
  <2>6. Alike(crs, t) /\ (Located(crs, m) <=> m \in 1..NumRows(crs))
        /\ (Located(crs, m) => t.cursorPos = m)
      BY <2>4, <2>5, MarkFacts
  <2>7. t.cursorPos = i /\ t.rvh = crs.rvh /\ NumRows(t) = NumRows(crs)
      BY <2>2, <2>3, <2>6 DEF Alike, NumRows
  <2>8. AtMarkOrEnd(crs, m) = t
      BY <2>2, <2>3, <2>4, <2>6 DEF AtMarkOrEnd
  <2> QED BY <2>3, <2>7, <2>8
<1> QED BY <1>1, Invariant, PTL

\* From a place q in the count that a relative move was to reach.
LEMMA LandsOrEnds ==
    ASSUME NEW c, WellCounted(c), ~IsEmpty(c), NEW to, Alike(c, to), NEW q \in Int,
           \/ to.cursorPos \in Shown(c) /\ RankAt(c, to.cursorPos) = q
           \/ to.cursorPos \in {0, NumRows(c) + 1} /\ q \notin 1..Size(c),
           NEW f, f = IF OnRow([to EXCEPT !.onInsertRow = FALSE]) THEN to ELSE AfterLast(to)
    PROVE  IF q \in 1..Size(c)
           THEN f.cursorPos \in Shown(c) /\ RankAt(c, f.cursorPos) = q
           ELSE f.cursorPos = NumRows(c) + 1
<1>1. /\ NumRows(c) \in Nat /\ Size(c) \in Nat /\ Shown(c) \subseteq 1..NumRows(c)
      /\ to \in Cache /\ NumRows(to) = NumRows(c) /\ ~IsEmpty(to)
  <2>1. NumRows(c) \in Nat /\ Size(c) \in Nat /\ Shown(c) \subseteq 1..NumRows(c)
      BY LeftRows
  <2>2. NumRows(to) = NumRows(c) /\ ~IsEmpty(to)
      BY AlikeFacts DEF WellCounted
  <2> QED BY <2>1, <2>2 DEF Alike
<1>2. OnRow([to EXCEPT !.onInsertRow = FALSE]) <=> to.cursorPos \in 1..NumRows(c)
  <2>1. PICK off : off = [to EXCEPT !.onInsertRow = FALSE]
      OBVIOUS
  <2>2. ~off.onInsertRow /\ off.cursorPos = to.cursorPos /\ off.rvh = to.rvh
      BY <1>1, <2>1 DEF Cache
  <2>3. NumRows(off) = NumRows(c)
      BY <1>1, <2>2 DEF NumRows
  <2> QED BY <2>1, <2>2, <2>3 DEF OnRow
<1>3. CASE to.cursorPos \in Shown(c) /\ RankAt(c, to.cursorPos) = q
  <2>1. f = to /\ to.cursorPos \in Int
      BY <1>1, <1>2, <1>3
  <2>2. q \in 1..Size(c)
      BY <1>3, <2>1, CountFacts
  <2> QED BY <1>3, <2>1, <2>2
<1>4. CASE to.cursorPos \in {0, NumRows(c) + 1} /\ q \notin 1..Size(c)
  <2>1. to.cursorPos \notin 1..NumRows(c)
      BY <1>1, <1>4
  <2>2. f = InternalAfterLast(to)
      BY <1>1, <1>2, <2>1 DEF AfterLast
  <2>3. f.cursorPos = NumRows(c) + 1
      BY <1>1, <2>2 DEF InternalAfterLast, Cache
  <2> QED BY <1>4, <2>3
<1> QED BY <1>3, <1>4

\* moveRelativeToBookmark from a row that is left.
LEMMA FromMarkLands ==
    ASSUME NEW c, WellCounted(c), ~c.showDeleted, NEW m \in Shown(c), NEW n \in -1..1,
           NEW f, f = FromMark(c, m, n)
    PROVE  /\ Alike(c, f)
           /\ IF RankAt(c, m) + n \in 1..Size(c)
              THEN f.cursorPos \in Shown(c) /\ RankAt(c, f.cursorPos) = RankAt(c, m) + n
              ELSE f.cursorPos = NumRows(c) + 1
<1>1. /\ Formed(c) /\ m \in Nat /\ m \in 1..NumRows(c) /\ NumRows(c) \in Nat /\ n \in Int
      /\ Size(c) \in Nat /\ Shown(c) \subseteq 1..NumRows(c)
    BY LeftRows DEF WellCounted
<1>2. Alike(c, f)
    BY <1>1, MarkMoves
<1>3. PICK t : t = ToMark(c, m)
    OBVIOUS
<1>4. Alike(c, t) /\ t.cursorPos = m
    BY <1>1, <1>3, MarkFacts
<1>5. /\ Formed(t) /\ NumRows(t) = NumRows(c) /\ Size(t) = Size(c) /\ Shown(t) = Shown(c)
      /\ WellCounted(t) /\ ~t.showDeleted /\ t \in Cache
    BY <1>1, <1>4, AlikeFacts DEF WellCounted, Alike
<1>6. \A i : RankAt(t, i) = RankAt(c, i)
    BY <1>5 DEF RankAt, UpTo
<1>7. PICK to : to = Relative(t, n)
    OBVIOUS
<1>8. Alike(c, to)
  <2>1. Alike(t, to)
      BY <1>1, <1>5, <1>7, RelativeAlike
  <2> QED BY <1>4, <2>1, AlikeOn
<1>9. f = IF OnRow([to EXCEPT !.onInsertRow = FALSE]) THEN to ELSE AfterLast(to)
  <2>1. ~IsEmpty(t)
      BY <1>1, <1>5, ShownIsNotEmpty
  <2>2. t.cursorPos # 0 /\ t.cursorPos # NumRows(t) + 1
      BY <1>1, <1>4, <1>5
  <2>3. CanRelative(t)
      BY <2>1, <2>2 DEF CanRelative
  <2> QED BY <1>3, <1>7, <2>3 DEF FromMark
<1>10. PICK q : q = RankAt(c, m) + n
    OBVIOUS
<1>11. RankAt(c, m) \in Nat /\ q \in Int /\ ~IsEmpty(c)
       /\ RankAt(c, m) >= 1 /\ RankAt(c, m) = RankAt(c, m - 1) + 1
       /\ RankAt(c, m - 1) \in Nat /\ RankAt(c, m) <= Size(c)
  <2>1. m - 1 \in Int /\ m \in Int
      BY <1>1
  <2>2. RankAt(c, m) \in Nat /\ RankAt(c, m) >= 1 /\ RankAt(c, m) = RankAt(c, m - 1) + 1
        /\ RankAt(c, m) <= Size(c)
      BY <2>1, CountFacts
  <2>3. RankAt(c, m - 1) \in Nat
      BY <2>1, CountFacts
  <2> QED BY <1>1, <1>10, <2>2, <2>3, ShownIsNotEmpty
<1>12. \/ to.cursorPos \in Shown(c) /\ RankAt(c, to.cursorPos) = q
       \/ to.cursorPos \in {0, NumRows(c) + 1} /\ q \notin 1..Size(c)
  <2>1. CASE n = 0
    <3>1. to = t
        BY <1>7, <2>1 DEF Relative
    <3> QED BY <1>4, <1>10, <1>11, <2>1, <3>1
  <2>2. CASE n = 1
    <3>1. to = RelativeWithoutDeleted(t, 1)
        BY <1>5, <1>7, <2>2 DEF Relative
    <3>2. q = RankAt(t, t.cursorPos) + 1 /\ t.cursorPos \in 1..NumRows(t)
        BY <1>1, <1>4, <1>5, <1>6, <1>10, <2>2
    <3>3. \/ q > Size(t) /\ to = InternalAfterLast(t)
          \/ \E k \in Shown(t) : /\ RankAt(t, k) = q
                                 /\ to = [t EXCEPT !.cursorPos = k, !.absolutePos = @ + 1]
      <4>1. PICK u : u = 1
          OBVIOUS
      <4>2. u \in Nat /\ u >= 1
          BY <4>1
      <4>3. \/ /\ RankAt(t, t.cursorPos) + u > Size(t)
               /\ RelativeWithoutDeleted(t, u) = InternalAfterLast(t)
            \/ \E k \in Shown(t) : /\ RankAt(t, k) = RankAt(t, t.cursorPos) + u
                                   /\ RelativeWithoutDeleted(t, u) =
                                        [t EXCEPT !.cursorPos = k, !.absolutePos = @ + u]
          BY <1>5, <3>2, <4>2, RelativeForward
      <4> QED BY <3>1, <3>2, <4>1, <4>3
    <3>4. CASE q > Size(t) /\ to = InternalAfterLast(t)
      <4>1. to.cursorPos = NumRows(c) + 1
          BY <1>5, <3>4 DEF InternalAfterLast, Cache
      <4>2. q \notin 1..Size(c)
          BY <1>1, <1>5, <1>11, <3>4
      <4> QED BY <4>1, <4>2
    <3>5. CASE \E k \in Shown(t) : /\ RankAt(t, k) = q
                                   /\ to = [t EXCEPT !.cursorPos = k, !.absolutePos = @ + 1]
      <4>1. PICK k \in Shown(t) : /\ RankAt(t, k) = q
                                  /\ to = [t EXCEPT !.cursorPos = k, !.absolutePos = @ + 1]
          BY <3>5
      <4>2. to.cursorPos = k
          BY <1>5, <4>1 DEF Cache
      <4> QED BY <1>5, <1>6, <4>1, <4>2
    <3> QED BY <3>3, <3>4, <3>5
  <2>3. CASE n = -1
    <3>1. to = RelativeWithoutDeleted(t, -1)
        BY <1>5, <1>7, <2>3 DEF Relative
    <3>2. q = RankAt(t, t.cursorPos - 1) - 1 + 1 /\ t.cursorPos \in 1..NumRows(t)
        BY <1>1, <1>4, <1>5, <1>6, <1>10, <1>11, <2>3
    <3>3. \/ q < 1 /\ to = BeforeFirst(t)
          \/ \E k \in Shown(t) : /\ RankAt(t, k) = q
                                 /\ to = [t EXCEPT !.cursorPos = k, !.absolutePos = @ + (-1)]
      <4>1. PICK u : u = 1
          OBVIOUS
      <4>2. u \in Nat /\ u >= 1 /\ -u = -1
          BY <4>1
      <4>3. \/ /\ RankAt(t, t.cursorPos - 1) - u + 1 < 1
               /\ RelativeWithoutDeleted(t, -u) = BeforeFirst(t)
            \/ \E k \in Shown(t) : /\ RankAt(t, k) = RankAt(t, t.cursorPos - 1) - u + 1
                                   /\ RelativeWithoutDeleted(t, -u) =
                                        [t EXCEPT !.cursorPos = k, !.absolutePos = @ + (-u)]
          BY <1>5, <3>2, <4>2, RelativeBackward
      <4>4. RankAt(t, t.cursorPos - 1) - u + 1 = q
          BY <3>2, <4>1
      <4> QED BY <3>1, <4>2, <4>3, <4>4
    <3>4. CASE q < 1 /\ to = BeforeFirst(t)
      <4>1. to.cursorPos = 0
          BY <1>5, <3>4 DEF BeforeFirst, Cache
      <4>2. q \notin 1..Size(c)
          BY <1>11, <3>4
      <4> QED BY <4>1, <4>2
    <3>5. CASE \E k \in Shown(t) : /\ RankAt(t, k) = q
                                   /\ to = [t EXCEPT !.cursorPos = k, !.absolutePos = @ + (-1)]
      <4>1. PICK k \in Shown(t) : /\ RankAt(t, k) = q
                                  /\ to = [t EXCEPT !.cursorPos = k, !.absolutePos = @ + (-1)]
          BY <3>5
      <4>2. to.cursorPos = k
          BY <1>5, <4>1 DEF Cache
      <4> QED BY <1>5, <1>6, <4>1, <4>2
    <3> QED BY <3>3, <3>4, <3>5
  <2> QED BY <2>1, <2>2, <2>3
<1>13. IF q \in 1..Size(c) THEN f.cursorPos \in Shown(c) /\ RankAt(c, f.cursorPos) = q
       ELSE f.cursorPos = NumRows(c) + 1
    BY <1>8, <1>9, <1>11, <1>12, LandsOrEnds
<1> QED BY <1>2, <1>10, <1>13

(* From the bookmark of a row that is left, moveRelativeToBookmark counts  *)
(* the rows that are left, over the deleted ones between.                  *)
THEOREM RelativeCountsLeftRowsInvariant ==
    ASSUME MaxWaiting = 1
    PROVE  Spec => []RelativeCountsLeftRows
<1>1. IInv => RelativeCountsLeftRows
  <2> SUFFICES ASSUME IInv PROVE RelativeCountsLeftRows
      OBVIOUS
  <2>1. WellCounted(crs) /\ ~crs.showDeleted /\ Formed(crs)
      BY IInvFacts
  <2>2. ASSUME NEW n \in -1..1, held.mark \in Shown(crs),
               NEW c, c = FromMark(crs, held.mark, n),
               NEW rank, rank = Cardinality({i \in Shown(crs) : i <= held.mark}) + n
        PROVE  IF rank \in 1..Size(crs)
               THEN /\ c.cursorPos \in Shown(c)
                    /\ Cardinality({i \in Shown(c) : i <= c.cursorPos}) = rank
               ELSE c.cursorPos = NumRows(c) + 1
    <3>1. PICK m : m = held.mark
        OBVIOUS
    <3>2. rank = RankAt(crs, m) + n
        BY <2>2, <3>1 DEF RankAt, UpTo
    <3>3. /\ Alike(crs, c)
          /\ IF rank \in 1..Size(crs)
             THEN c.cursorPos \in Shown(crs) /\ RankAt(crs, c.cursorPos) = rank
             ELSE c.cursorPos = NumRows(crs) + 1
        BY <2>1, <2>2, <3>1, <3>2, FromMarkLands
    <3>4. Shown(c) = Shown(crs) /\ NumRows(c) = NumRows(crs)
        BY <2>1, <3>3, AlikeFacts
    <3>5. Cardinality({i \in Shown(c) : i <= c.cursorPos}) = RankAt(crs, c.cursorPos)
        BY <3>4 DEF RankAt, UpTo
    <3> QED BY <3>3, <3>4, <3>5
  <2> QED BY <2>2 DEF RelativeCountsLeftRows
<1> QED BY <1>1, Invariant, PTL

(* moveToCurrentRow leaves no insert waiting: the new row is accepted and  *)
(* current, or it was refused and is gone.                                 *)
THEOREM AcceptedInsertIsCurrentHolds ==
    ASSUME MaxWaiting = 1
    PROVE  Spec => AcceptedInsertIsCurrent
<1>1. ASSUME IInv, NEW ok \in BOOLEAN, BaseMoveToCurrentRow(ok), Waiting(crs) # {}
      PROVE  /\ Waiting(crs') = {}
             /\ (\E i \in 1..NumRows(crs') : IdOf(crs'.rvh[i]) = issued)
                => /\ OnRow(crs') /\ IdOf(crs'.rvh[crs'.cursorPos]) = issued
                   /\ "inserted" \in crs'.rvh[crs'.cursorPos].flags
  <2>1. /\ issued \in Nat /\ Kept(crs, issued) /\ Listed(crs, issued) /\ NumRows(crs) \in Nat
        /\ mRowInserted
      BY <1>1, IInvFacts DEF IInv, Good
  <2>2. PICK c : c = MoveToCurrentRow(crs)
      OBVIOUS
  <2>3. PICK d : d = crs'
      OBVIOUS
  <2>4. Kept(c, issued) /\ ~c.onInsertRow /\ c.rvh = crs.rvh
      BY <2>1, <2>2, InsertRowKept
  <2>5. NumRows(c) = NumRows(crs) /\ Waiting(c) = Waiting(crs)
      BY <2>4 DEF NumRows, Waiting
  <2>6. d = AcceptInsert(c, ok)
      BY <1>1, <2>1, <2>2, <2>3 DEF BaseMoveToCurrentRow
  <2>7. /\ Kept(d, issued) /\ Shrinks(c, d) /\ Waiting(d) = {} /\ ~d.onInsertRow
        /\ \/ /\ ok /\ OnRow(d) /\ d.cursorPos = NumRows(c) /\ NumRows(d) = NumRows(c)
              /\ "inserted" \in d.rvh[NumRows(c)].flags
           \/ ~ok /\ NumRows(d) = NumRows(c) - 1
      BY <1>1, <2>1, <2>4, <2>5, <2>6, InsertAccepted
  <2>8. PICK k : k = NumRows(crs)
      OBVIOUS
  <2>9. k \in 1..k /\ crs.rvh[k].orig[Id] = issued /\ k \in Nat
        /\ \A i, j \in 1..k : crs.rvh[i].orig[Id] = crs.rvh[j].orig[Id] => i = j
    <3>1. Waiting(crs) \subseteq 1..k
        BY <2>8 DEF Waiting
    <3> QED BY <1>1, <2>1, <2>8, <3>1 DEF Listed
  <2>10. \A i \in 1..NumRows(d) : IdOf(d.rvh[i]) = d.rvh[i].orig[Id]
    <3>1. \A i \in 1..NumRows(d) : Fine(d.rvh[i], issued)
        BY <2>7 DEF Kept, Listed
    <3>2. \A i \in 1..NumRows(d) : d.rvh[i] \in Row
        BY <2>7, ListedFacts DEF Kept
    <3> QED BY <2>1, <3>1, <3>2, RowsStayFine
  <2>11. \A i \in 1..NumRows(d) : d.rvh[i].orig[Id] = crs.rvh[i].orig[Id]
      BY <2>4, <2>7 DEF Shrinks
  <2>12. CASE /\ ok /\ OnRow(d) /\ d.cursorPos = NumRows(c) /\ NumRows(d) = NumRows(c)
              /\ "inserted" \in d.rvh[NumRows(c)].flags
    <3>1. d.cursorPos = k /\ k \in 1..NumRows(d) /\ "inserted" \in d.rvh[k].flags
        BY <2>5, <2>8, <2>9, <2>12
    <3>2. IdOf(d.rvh[k]) = issued
        BY <2>9, <2>10, <2>11, <3>1
    <3> QED BY <2>3, <2>7, <2>12, <3>1, <3>2
  <2>13. CASE ~ok /\ NumRows(d) = NumRows(c) - 1
    <3>1. ASSUME NEW i \in 1..NumRows(d), IdOf(d.rvh[i]) = issued PROVE FALSE
      <4>1. i \in 1..k /\ i # k
          BY <2>5, <2>8, <2>9, <2>13
      <4>2. crs.rvh[i].orig[Id] = issued
          BY <2>10, <2>11, <3>1
      <4> QED BY <2>9, <4>1, <4>2
    <3> QED BY <2>3, <2>7, <3>1
  <2> QED BY <2>7, <2>12, <2>13
<1>2. IInv => ((\E ok \in BOOLEAN : BaseMoveToCurrentRow(ok)) /\ Waiting(crs) # {} =>
          /\ Waiting(crs)' = {}
          /\ (\E i \in 1..NumRows(crs)' : IdOf(crs'.rvh[i]) = issued)
             => OnRow(crs)' /\ IdOf(Here)' = issued /\ "inserted" \in Here'.flags)
    BY <1>1 DEF Here
<1> QED BY <1>2, Invariant, PTL DEF AcceptedInsertIsCurrent

(* deleteRows deletes the row of the bookmark, and no other, while no row  *)
(* up to it is deleted.                                                    *)
THEOREM DeleteRowsHitsBookmarkHolds ==
    ASSUME MaxWaiting = 1
    PROVE  Spec => DeleteRowsHitsBookmark
<1>1. ASSUME IInv, NEW ok \in BOOLEAN, DeleteRows(held.mark, ok),
             \A d \in crs.deletedRows : d > held.mark
      PROVE  crs'.deletedRows \ crs.deletedRows \subseteq {held.mark}
  <2>1. /\ issued \in Nat /\ Kept(crs, issued) /\ Formed(crs) /\ ~crs.showDeleted
        /\ held.mark \in Nat /\ NumRows(crs) \in Nat
      BY <1>1, IInvFacts
  <2>2. PICK m : m = held.mark
      OBVIOUS
  <2>3. PICK c : c = Absolute(crs, m)
      OBVIOUS
  <2>4. m \in Nat /\ m \in Int /\ Alike(crs, c)
      BY <2>1, <2>2, <2>3, AbsoluteAlike
  <2>5. Kept(c, issued) /\ c.deletedRows = crs.deletedRows
      BY <2>1, <2>4, AlikeKept DEF Alike
  <2>6. crs' = IF Moved(crs, m) /\ ~mOnInsert /\ OnRow(c) THEN Accepted(DeleteRow(c), ok) ELSE c
      BY <1>1, <2>2, <2>3 DEF DeleteRows, Step
  <2>7. CASE Moved(crs, m) /\ ~mOnInsert /\ OnRow(c)
    <3>1. crs'.deletedRows \subseteq crs.deletedRows \cup {c.cursorPos}
        BY <2>1, <2>5, <2>6, <2>7, DeleteAccepted
    <3>2. c.cursorPos = m
      <4>1. m # 0 /\ m \in 1..Size(crs) /\ Size(crs) \in Int
          BY <2>1, <2>4, <2>7, FormedFacts DEF Moved
      <4>2. PICK p : p = CursorPos(crs, m)
          OBVIOUS
      <4>3. p = m
        <5>1. PICK k : k = Cardinality(crs.deletedRows)
            OBVIOUS
        <5>2. k \in Nat
            BY <2>1, <5>1, FormedFacts
        <5>3. PICK S : S = {i \in m..(m + k) : AbsolutePos(crs.deletedRows, i) = m}
            OBVIOUS
        <5>4. AbsolutePos(crs.deletedRows, m) = m
          <6>1. {d \in crs.deletedRows : 1 <= d /\ d <= m} = {}
            <7>1. \A d \in crs.deletedRows : d \in Nat /\ ~(d <= m)
                BY <1>1, <2>1, <2>2, <2>4 DEF Formed, Cache
            <7> QED BY <7>1
          <6>2. AbsolutePos(crs.deletedRows, m) = m - Cardinality({})
              BY <6>1 DEF AbsolutePos
          <6> QED BY <2>4, <6>2, FS_EmptySet
        <5>5. m \in S /\ S \in SUBSET Nat /\ \A i \in S : m <= i
            BY <2>4, <5>2, <5>3, <5>4
        <5>6. p = Min(S)
            BY <4>2, <5>1, <5>3 DEF CursorPos
        <5>7. p \in S /\ \A y \in S : p <= y
            BY <5>5, <5>6, MinOfNat
        <5>8. p \in Nat /\ p <= m /\ m <= p
            BY <5>5, <5>7
        <5> QED BY <2>4, <5>8
      <4>4. c = [crs EXCEPT !.cursorPos = p, !.absolutePos = m]
        <5>1. ~(m < 0) /\ ~(m = 0 \/ m <= 0) /\ ~(m > Size(crs))
            BY <2>4, <4>1
        <5> QED BY <2>1, <2>3, <4>2, <5>1 DEF Absolute
      <4> QED BY <2>1, <4>3, <4>4 DEF Formed, Cache
    <3> QED BY <2>2, <3>1, <3>2
  <2>8. CASE ~(Moved(crs, m) /\ ~mOnInsert /\ OnRow(c))
      BY <2>5, <2>6, <2>8
  <2> QED BY <2>7, <2>8
<1>2. IInv => ((\E ok \in BOOLEAN : DeleteRows(held.mark, ok))
               /\ (\A d \in crs.deletedRows : d > held.mark)
               => crs'.deletedRows \ crs.deletedRows \subseteq {held.mark})
    BY <1>1
<1> QED BY <1>2, Invariant, PTL DEF DeleteRowsHitsBookmark
=============================================================================
