-------------------------- MODULE RowSetSyncProofs --------------------------
(***************************************************************************)
(* What holds of RowSetSync however many rows, records, columns, edits and *)
(* other sessions there are: its shapes and that no record is changed      *)
(* unseen; when one edit waits at a time, that no insert is sent twice and *)
(* that the row set does not drift from the table; that the cursor stays   *)
(* usable when two wait; and that it implements AtomicRowSet.              *)
(***************************************************************************)
EXTENDS RowSetSync, RowSetBaseProofs

----------------------------------------------------------------------------
(* Where the writer goes. *)

WriterType == [pc : {"idle", "check", "write", "keys", "accept", "resolve"}, row : Nat,
               failed : SUBSET Nat, last : BOOLEAN, was : Cache \cup {NULL}]

\* From w, with the rows f in conflict by now, the writer of c comes to d: to
\* the next row that waits, or past the last one.
Arrived(c, w, f, d) ==
    /\ d \in WriterType
    /\ d.failed = f
    /\ \/ /\ d.row = 0
          /\ d.pc = IF f = {} THEN "accept" ELSE "resolve"
          /\ \A i \in Pending(c) : i <= w.row
       \/ /\ d.row \in Pending(c) /\ d.row > w.row
          /\ d.pc = IF Kind(c.rvh[d.row]) = "insert" THEN "write" ELSE "check"
          /\ \A i \in Pending(c) : i <= w.row \/ d.row <= i

\* That is where the loop goes.
LEMMA ArriveArrives ==
    ASSUME NEW c, Formed(c), NEW w \in WriterType
    PROVE  Arrived(c, w, w.failed, Arrive(c, w))
<1> DEFINE rest == {i \in Pending(c) : i > w.row}
<1>1. Pending(c) \in SUBSET Nat /\ w.row \in Nat
    BY RowsOfCache DEF Pending, WriterType
<1>2. PICK d : d = Arrive(c, w)
    OBVIOUS
<1>3. CASE rest = {}
  <2>1. PICK pc : pc = IF w.failed = {} THEN "accept" ELSE "resolve"
      OBVIOUS
  <2>2. d = [w EXCEPT !.pc = pc, !.row = 0]
      BY <1>2, <1>3, <2>1 DEF Arrive
  <2>3. d \in WriterType /\ d.row = 0 /\ d.pc = pc /\ d.failed = w.failed
      BY <2>1, <2>2 DEF WriterType
  <2>4. \A i \in Pending(c) : i <= w.row
      BY <1>1, <1>3
  <2> QED BY <1>2, <2>1, <2>3, <2>4 DEF Arrived
<1>4. CASE rest # {}
  <2>1. PICK m : m = Min(rest)
      OBVIOUS
  <2>2. m \in rest /\ \A i \in rest : m <= i
    <3>1. rest \in SUBSET Nat
        BY <1>1
    <3> HIDE DEF rest
    <3> QED BY <1>4, <2>1, <3>1, MinOfNat
  <2>3. PICK pc : pc = IF Kind(c.rvh[m]) = "insert" THEN "write" ELSE "check"
      OBVIOUS
  <2>4. d = [w EXCEPT !.pc = pc, !.row = m]
      BY <1>2, <1>4, <2>1, <2>3 DEF Arrive
  <2>5. d \in WriterType /\ d.row = m /\ d.pc = pc /\ d.failed = w.failed
      BY <1>1, <2>2, <2>3, <2>4 DEF WriterType
  <2>6. \A i \in Pending(c) : i <= w.row \/ m <= i
      BY <1>1, <2>2
  <2>7. m \in Pending(c) /\ m > w.row
      BY <2>2
  <2> HIDE DEF rest
  <2> QED BY <1>2, <2>3, <2>5, <2>6, <2>7 DEF Arrived
<1> QED BY <1>3, <1>4

\* A refused row is noted on the way, a row that went well is not; a call
\* starts with no row in conflict.
LEMMA RefuseArrives ==
    ASSUME Formed(crs), wr \in WriterType, Refuse
    PROVE  Arrived(crs, wr, wr.failed \cup {wr.row}, wr')
<1>1. PICK w : w = [wr EXCEPT !.failed = wr.failed \cup {wr.row}]
    OBVIOUS
<1>2. w \in WriterType /\ w.row = wr.row /\ w.failed = wr.failed \cup {wr.row}
    BY <1>1 DEF WriterType
<1>3. wr' = Arrive(crs, w)
    BY <1>1 DEF Refuse
<1>4. Arrived(crs, w, w.failed, wr')
    BY <1>2, <1>3, ArriveArrives
<1> QED BY <1>2, <1>4 DEF Arrived

\* One that went well.
LEMMA ProceedArrives ==
    ASSUME Formed(crs), wr \in WriterType, Proceed
    PROVE  Arrived(crs, wr, wr.failed, wr')
BY ArriveArrives DEF Proceed

\* The first row of a call.
LEMMA StartArrives ==
    ASSUME NEW c, Formed(c), Formed(crs), NEW last \in BOOLEAN, Start(c, last)
    PROVE  crs' = c /\ Arrived(c, Idle, {}, wr')
<1>1. PICK w : w = [Idle EXCEPT !.last = last, !.was = crs]
    OBVIOUS
<1>2. w \in WriterType /\ w.row = 0 /\ w.failed = {}
    BY <1>1 DEF WriterType, Idle, Formed
<1>3. wr' = Arrive(c, w) /\ crs' = c
    BY <1>1 DEF Start
<1>4. Arrived(c, w, w.failed, wr')
    BY <1>2, <1>3, ArriveArrives
<1>5. Idle.row = 0
    BY DEF Idle
<1> QED BY <1>2, <1>3, <1>4, <1>5 DEF Arrived

\* Two row sets with the same marks wait for the same.
SameMarks(c, d) ==
    /\ NumRows(d) = NumRows(c)
    /\ \A i \in 1..NumRows(c) : d.rvh[i].flags = c.rvh[i].flags

\* The kind of an edit is told from the marks.
LEMMA SameMarksWait ==
    ASSUME NEW c, NEW d, SameMarks(c, d)
    PROVE  /\ Pending(d) = Pending(c)
           /\ \A i \in 1..NumRows(c) : Kind(d.rvh[i]) = Kind(c.rvh[i])
BY DEF SameMarks, Pending, Kind

----------------------------------------------------------------------------
(* The inductive invariant behind TypeOK. *)

Created(i) == "created" \in crs.rvh[i].flags

HistoryType == [link : Seq(Nat), issued : Nat, others : Nat,
                touched : SUBSET Nat, window : SUBSET Nat]

Typed ==
    /\ Formed(crs) /\ ~crs.onInsertRow
    /\ table \in Tables
    /\ DOMAIN db \subseteq 1..hist.issued
    /\ \A id \in DOMAIN db : db[id] \in Values
    /\ Allowed(db)
    /\ wr \in WriterType
    /\ hist \in HistoryType
    /\ Len(hist.link) = NumRows(crs)

\* The writer is at a row that waits, and at a place of its loop that fits it.
AtRow ==
    /\ wr.pc = "idle" => wr = Idle
    /\ wr.pc \in {"check", "write", "keys"} <=> wr.row # 0
    /\ wr.row # 0 => wr.row \in Pending(crs)
    /\ wr.pc = "check" => Kind(Here) # "insert"
    /\ wr.pc = "keys" => Kind(Here) = "insert" /\ hist.link[wr.row] # 0
    /\ wr.pc = "accept" => wr.failed = {}
    /\ \A i \in wr.failed : i \in Pending(crs) \/ i > NumRows(crs)

\* Only a row marked as created has no record, no such row is removed, and
\* the ones the writer has passed have got their record or are in conflict.
Linked ==
    \A i \in 1..NumRows(crs) :
        /\ hist.link[i] = 0 => Created(i)
        /\ Created(i) => "removed" \notin crs.rvh[i].flags
        /\ Created(i) /\ wr.pc = "accept" => hist.link[i] # 0
        /\ Created(i) /\ i < wr.row /\ i \notin wr.failed => hist.link[i] # 0

Shaped == Typed /\ AtRow /\ Linked
\* What the pending row is.
LEMMA HereIsRow ==
    ASSUME Typed, AtRow, wr.row # 0
    PROVE  /\ wr.row \in 1..NumRows(crs) /\ Here \in Row
           /\ Kind(Here) \in {"delete", "insert", "update"}
           /\ NumRows(crs) \in Nat
BY RowsOfCache DEF Typed, AtRow, Pending, Here, Kind

\* A statement of the writer stores values, and takes at most the next number.
LEMMA WrittenTyped ==
    ASSUME Typed, AtRow, wr.row # 0, NEW vals \in Values
    PROVE  /\ \A id \in DOMAIN Written(Here, vals) : Written(Here, vals)[id] \in Values
           /\ Kind(Here) = "insert" =>
                 DOMAIN Written(Here, vals) = DOMAIN db \cup {hist.issued + 1}
           /\ Kind(Here) # "insert" => DOMAIN Written(Here, vals) \subseteq DOMAIN db
<1>1. Here \in Row /\ Kind(Here) \in {"delete", "insert", "update"}
    BY HereIsRow
<1>2. \A id \in DOMAIN db : db[id] \in Values
    BY DEF Typed
<1>3. CASE Kind(Here) = "delete"
    BY <1>2, <1>3 DEF Written
<1>4. CASE Kind(Here) = "insert"
    BY <1>2, <1>4 DEF Written
<1>5. CASE Kind(Here) = "update"
  <2>1. \A id \in DOMAIN db : [k \in Column |-> IF k \in UpdateParameters(Here)
                                               THEN Here.curr[k] ELSE db[id][k]] \in Values
      BY <1>1, <1>2 DEF Row, Values
  <2> QED BY <1>2, <1>5, <2>1 DEF Written
<1> QED BY <1>1, <1>3, <1>4, <1>5

\* The resolver undoes the first row in conflict, which waits.
LEMMA ResolveUndoes ==
    ASSUME Typed, AtRow, ResolveRow
    PROVE  \E m \in Pending(crs) :
              /\ m \in wr.failed /\ m \in 1..NumRows(crs)
              /\ \A i \in wr.failed : m <= i
              /\ wr' = [wr EXCEPT !.failed = wr.failed \ {m}]
              /\ hist' = [hist EXCEPT !.link = SubSeq(hist.link, 1, NumRows(crs)')]
              /\ UNCHANGED <<table, db>>
              /\ \/ Kind(crs.rvh[m]) = "insert" /\ Shortens(crs, crs')
                 \/ /\ Kind(crs.rvh[m]) = "update"
                    /\ Changes(crs, crs', m, ClearUpdated(crs.rvh[m]))
                 \/ /\ Kind(crs.rvh[m]) = "delete"
                    /\ Changes(crs, crs', m, [crs.rvh[m] EXCEPT !.flags = @ \ {"removed"}])
<1>1. PICK m : m = Min(wr.failed)
    OBVIOUS
<1>2. m \in wr.failed /\ \A i \in wr.failed : m <= i
  <2>1. wr.failed \in SUBSET Nat /\ wr.failed # {}
      BY DEF Typed, WriterType, ResolveRow
  <2> QED BY <1>1, <2>1, MinOfNat
<1>3. m <= NumRows(crs) /\ crs' = UndoConflict(crs, m)
    BY <1>1 DEF ResolveRow
<1>4. m \in Pending(crs) /\ m \in 1..NumRows(crs)
  <2>1. m \in Nat /\ NumRows(crs) \in Nat
      BY <1>2, RowsOfCache DEF Typed, WriterType
  <2> QED BY <1>2, <1>3, <2>1 DEF AtRow, Pending
<1>5. /\ wr' = [wr EXCEPT !.failed = wr.failed \ {m}]
      /\ hist' = [hist EXCEPT !.link = SubSeq(hist.link, 1, NumRows(crs)')]
      /\ UNCHANGED <<table, db>>
    BY <1>1 DEF ResolveRow, Typed, WriterType, HistoryType
<1>6. Formed(crs) /\ ~crs.onInsertRow
    BY DEF Typed
<1>7. \/ Kind(crs.rvh[m]) = "insert" /\ Shortens(crs, crs')
      \/ /\ Kind(crs.rvh[m]) = "update"
         /\ Changes(crs, crs', m, ClearUpdated(crs.rvh[m]))
      \/ /\ Kind(crs.rvh[m]) = "delete"
         /\ Changes(crs, crs', m, [crs.rvh[m] EXCEPT !.flags = @ \ {"removed"}])
  <2>1. CASE Kind(crs.rvh[m]) = "insert"
      BY <1>3, <1>4, <1>6, <2>1, UndoShortens
  <2>2. CASE Kind(crs.rvh[m]) = "update"
    <3>1. Changes(crs, UndoConflict(crs, m), m,
                  IF Kind(crs.rvh[m]) = "update" THEN ClearUpdated(crs.rvh[m])
                  ELSE [crs.rvh[m] EXCEPT !.flags = @ \ {"removed"}])
        BY <1>4, <1>6, <2>2, UndoChanges
    <3> QED BY <1>3, <2>2, <3>1
  <2>3. CASE Kind(crs.rvh[m]) = "delete"
    <3>1. Changes(crs, UndoConflict(crs, m), m,
                  IF Kind(crs.rvh[m]) = "update" THEN ClearUpdated(crs.rvh[m])
                  ELSE [crs.rvh[m] EXCEPT !.flags = @ \ {"removed"}])
        BY <1>4, <1>6, <2>3, UndoChanges
    <3> QED BY <1>3, <2>3, <3>1
  <2> QED BY <2>1, <2>2, <2>3 DEF Kind
<1> QED BY <1>2, <1>4, <1>5, <1>7

\* The row set and the writer keep their shape when the rest is unchanged.
LEMMA SameRecordsTyped ==
    ASSUME Typed, Formed(crs'), ~crs'.onInsertRow, NumRows(crs)' = NumRows(crs),
           wr' \in WriterType, UNCHANGED <<table, db>>,
           hist' \in HistoryType, hist'.issued = hist.issued, Len(hist'.link) = Len(hist.link)
    PROVE  Typed'
BY DEF Typed, Allowed, NumRows, Formed

\* The steps of the writer keep the shapes.
LEMMA WriterTyped ==
    ASSUME Typed, AtRow, Writer
    PROVE  Typed'
<1>1. /\ Formed(crs) /\ ~crs.onInsertRow /\ wr \in WriterType /\ hist \in HistoryType
      /\ Len(hist.link) = NumRows(crs) /\ NumRows(crs) \in Nat
    BY RowsOfCache DEF Typed
<1>2. ASSUME wr.row # 0, Refuse \/ Proceed
      PROVE  wr' \in WriterType
    BY <1>1, <1>2, RefuseArrives, ProceedArrives DEF Arrived
<1>3. Idle \in WriterType
    BY DEF Idle, WriterType
<1>4. CASE CheckRow
  <2>1. wr' \in WriterType
      BY <1>1, <1>4 DEF CheckRow, WriterType
  <2>2. hist' \in HistoryType /\ hist'.issued = hist.issued /\ hist'.link = hist.link
      BY <1>1, <1>4 DEF CheckRow, HistoryType
  <2>3. UNCHANGED <<crs, table, db>>
      BY <1>4 DEF CheckRow
  <2> QED BY <1>1, <2>1, <2>2, <2>3, SameRecordsTyped DEF NumRows
<1>5. CASE RefuseRow \/ FailStatement
  <2>1. wr.row # 0 /\ Refuse /\ UNCHANGED <<crs, table, db, hist>>
      BY <1>5 DEF RefuseRow, FailStatement, AtRow
  <2> QED BY <1>1, <1>2, <2>1, SameRecordsTyped DEF NumRows
<1>6. CASE WriteRow
  <2>1. wr.row # 0 /\ (Refuse \/ Proceed)
      BY <1>6 DEF WriteRow, AtRow
  <2>2. NoValues \in Values
      BY DEF NoValues, Values, Datum
  <2>3. /\ DOMAIN db' \subseteq DOMAIN db /\ \A id \in DOMAIN db' : db'[id] \in Values
      BY <1>6, <2>1, <2>2, WrittenTyped DEF WriteRow
  <2>4. Mistaken \subseteq Nat
      BY DEF Mistaken, Matches, Typed
  <2>5. hist' \in HistoryType /\ hist'.issued = hist.issued /\ hist'.link = hist.link
      BY <1>1, <1>6, <2>4 DEF WriteRow, HistoryType
  <2>6. Allowed(db)'
      BY <1>6 DEF WriteRow, Allowed
  <2>7. UNCHANGED <<crs, table>>
      BY <1>6 DEF WriteRow
  <2> QED BY <1>1, <1>2, <2>1, <2>3, <2>5, <2>6, <2>7 DEF Typed, NumRows
<1>7. CASE InsertRecord
  <2>1. wr.row # 0 /\ Kind(Here) = "insert" /\ wr.row \in 1..NumRows(crs)
      BY <1>7, HereIsRow DEF InsertRecord, AtRow
  <2>2. PICK vals \in Values : db' = Written(Here, vals)
      BY <1>7 DEF InsertRecord, Stored
  <2>3. DOMAIN db' = DOMAIN db \cup {hist.issued + 1} /\ \A id \in DOMAIN db' : db'[id] \in Values
      BY <2>1, <2>2, WrittenTyped
  <2>4. wr' \in WriterType
    <3>1. CASE Proceed
        BY <1>2, <2>1, <3>1
    <3>2. CASE wr' = [wr EXCEPT !.pc = "keys"]
        BY <1>1, <3>2 DEF WriterType
    <3> QED BY <1>7, <3>1, <3>2 DEF InsertRecord
  <2>5. /\ hist' \in HistoryType /\ hist'.issued = hist.issued + 1
        /\ Len(hist'.link) = Len(hist.link)
    <3>1. PICK link : link = [hist.link EXCEPT ![wr.row] = hist.issued + 1]
        OBVIOUS
    <3>2. link \in Seq(Nat) /\ Len(link) = Len(hist.link)
        BY <1>1, <2>1, <3>1 DEF HistoryType
    <3>3. hist' = [hist EXCEPT !.link = link, !.issued = hist.issued + 1]
        BY <1>1, <1>7, <3>1 DEF InsertRecord, HistoryType
    <3>4. hist.issued + 1 \in Nat
        BY <1>1 DEF HistoryType
    <3>5. hist' \in HistoryType /\ hist'.issued = hist.issued + 1 /\ hist'.link = link
        BY <1>1, <3>2, <3>3, <3>4 DEF HistoryType
    <3> QED BY <3>2, <3>5
  <2>6. Allowed(db)'
      BY <1>7 DEF InsertRecord, Allowed
  <2>7. UNCHANGED <<crs, table>>
      BY <1>7 DEF InsertRecord
  <2>8. DOMAIN db' \subseteq 1..hist'.issued
    <3>1. DOMAIN db \subseteq 1..hist.issued /\ hist.issued \in Nat
        BY <1>1 DEF Typed, HistoryType
    <3> QED BY <2>3, <2>5, <3>1
  <2> QED BY <1>1, <2>3, <2>4, <2>5, <2>6, <2>7, <2>8 DEF Typed, NumRows
<1>8. CASE FetchKeys
  <2>1. wr.row # 0 /\ wr.row \in 1..NumRows(crs) /\ Proceed /\ UNCHANGED <<table, db, hist>>
      BY <1>8, HereIsRow DEF FetchKeys, AtRow
  <2>2. Formed(crs') /\ ~crs'.onInsertRow /\ NumRows(crs') = NumRows(crs)
    <3> DEFINE id == hist.link[wr.row]
    <3>1. CASE id \in DOMAIN db
      <4>1. crs' = UpdateKeys(crs, wr.row, db[id]) /\ db[id] \in Values
          BY <1>8, <3>1 DEF FetchKeys, Typed
      <4>2. PICK vals : vals = db[id]
          OBVIOUS
      <4>3. PICK row : row = [crs.rvh[wr.row] EXCEPT !.curr = vals, !.changed = Column]
          OBVIOUS
      <4>4. vals \in Values /\ Formed(crs) /\ ~crs.onInsertRow
          BY <1>1, <4>1, <4>2
      <4>5. Changes(crs, UpdateKeys(crs, wr.row, vals), wr.row, row)
          BY <2>1, <4>3, <4>4, KeysChange
      <4>6. Changes(crs, crs', wr.row, row)
          BY <4>1, <4>2, <4>5
      <4> QED BY <4>6 DEF Changes
    <3>2. CASE id \notin DOMAIN db
        BY <1>1, <1>8, <3>2 DEF FetchKeys
    <3> QED BY <3>1, <3>2
  <2> QED BY <1>1, <1>2, <2>1, <2>2, SameRecordsTyped DEF NumRows
<1>9. CASE FinishAccept
  <2>1. PICK c : c = SetOriginal(crs)
      OBVIOUS
  <2>2. Formed(c) /\ ~c.onInsertRow /\ NumRows(c) = NumRows(crs)
      BY <1>1, <2>1, OriginalRows
  <2>3. wr' = Idle /\ (crs' = Last(c) \/ crs' = c) /\ UNCHANGED <<table, db, hist>>
      BY <1>9, <2>1 DEF FinishAccept, Return
  <2>4. Formed(crs') /\ ~crs'.onInsertRow /\ NumRows(crs') = NumRows(crs)
      BY <2>2, <2>3, LastKeeps DEF NumRows
  <2> QED BY <1>1, <1>3, <2>3, <2>4, SameRecordsTyped DEF NumRows
<1>10. CASE EndResolve
  <2>1. PICK c : c = CloseResolver(crs)
      OBVIOUS
  <2>2. Formed(c) /\ ~c.onInsertRow /\ NumRows(c) = NumRows(crs)
      BY <1>1, <2>1, CloseKeeps DEF NumRows
  <2>3. wr' = Idle /\ (crs' = Last(c) \/ crs' = c) /\ UNCHANGED <<table, db, hist>>
      BY <1>10, <2>1 DEF EndResolve, Return
  <2>4. Formed(crs') /\ ~crs'.onInsertRow /\ NumRows(crs') = NumRows(crs)
      BY <2>2, <2>3, LastKeeps DEF NumRows
  <2> QED BY <1>1, <1>3, <2>3, <2>4, SameRecordsTyped DEF NumRows
<1>11. CASE ResolveRow
  <2>1. PICK m \in Pending(crs) :
              /\ m \in 1..NumRows(crs)
              /\ wr' = [wr EXCEPT !.failed = wr.failed \ {m}]
              /\ hist' = [hist EXCEPT !.link = SubSeq(hist.link, 1, NumRows(crs)')]
              /\ UNCHANGED <<table, db>>
              /\ \/ Shortens(crs, crs')
                 \/ \E row : Changes(crs, crs', m, row)
      BY <1>11, ResolveUndoes
  <2>2. /\ Formed(crs') /\ ~crs'.onInsertRow
        /\ NumRows(crs') \in 0..NumRows(crs)
    <3>1. NumRows(crs') = NumRows(crs) - 1 \/ NumRows(crs') = NumRows(crs)
        BY <2>1 DEF Shortens, Changes
    <3> QED BY <1>1, <2>1, <3>1 DEF Shortens, Changes
  <2>3. wr' \in WriterType
      BY <1>1, <2>1 DEF WriterType
  <2>4. PICK link : link = SubSeq(hist.link, 1, NumRows(crs'))
      OBVIOUS
  <2>5. link \in Seq(Nat) /\ Len(link) = NumRows(crs')
    <3>1. hist.link \in Seq(Nat) /\ NumRows(crs') \in 0..Len(hist.link)
        BY <1>1, <2>2 DEF HistoryType
    <3> QED BY <2>4, <3>1
  <2>6. NumRows(crs)' = NumRows(crs')
      BY DEF NumRows
  <2>7. hist' = [hist EXCEPT !.link = link]
      BY <2>1, <2>4, <2>6
  <2>8. hist' \in HistoryType /\ hist'.link = link /\ hist'.issued = hist.issued
      BY <1>1, <2>5, <2>7 DEF HistoryType
  <2>9. Allowed(db)'
      BY <2>1 DEF Typed, Allowed
  <2> QED BY <2>1, <2>2, <2>3, <2>5, <2>6, <2>8, <2>9 DEF Typed
<1> QED BY <1>4, <1>5, <1>6, <1>7, <1>8, <1>9, <1>10, <1>11 DEF Writer
\* The client edits a row it sees and the writer sets out.
LEMMA UpdateEdits ==
    ASSUME Typed, NEW n \in Int, NEW col \in Column, NEW val \in Writable, UpdateAt(n, col, val)
    PROVE  /\ wr = Idle /\ UNCHANGED <<table, db, hist>>
           /\ Arrived(crs', Idle, {}, wr')
           /\ \E p \in 1..NumRows(crs) :
                 /\ "deleted" \notin crs.rvh[p].flags
                 /\ Cardinality(Pending(crs) \cup {p}) <= MaxPending
                 /\ Changes(crs, crs', p, SetUpdated(SetColumnObject(crs.rvh[p], col, val)))
<1>1. Formed(crs) /\ ~crs.onInsertRow
    BY DEF Typed
<1>2. PICK at : at = Absolute(crs, n)
    OBVIOUS
<1>3. Steers(crs, at) /\ Formed(at) /\ ~at.onInsertRow /\ at.cursorPos \in 1..NumRows(crs)
  <2>1. Moved(crs, n)
      BY DEF UpdateAt
  <2>2. Steers(crs, at) /\ at.cursorPos \in 1..NumRows(crs)
      BY <1>1, <1>2, <2>1, AbsoluteSteers
  <2> QED BY <1>1, <2>2 DEF Steers
<1>4. at.rvh = crs.rvh /\ NumRows(at) = NumRows(crs) /\ val \in Datum
    BY <1>3, WritableAssumption DEF Steers, NumRows
<1>5. PICK e : e = UpdateRow(UpdateColumn(at, col, val))
    OBVIOUS
<1>6. PICK p : p = at.cursorPos
    OBVIOUS
<1>7. Changes(at, e, p, SetUpdated(SetColumnObject(at.rvh[p], col, val)))
    BY <1>3, <1>4, <1>5, <1>6, UpdateChanges
<1>8. Changes(crs, e, p, SetUpdated(SetColumnObject(crs.rvh[p], col, val)))
  <2>1. PICK row : row = SetUpdated(SetColumnObject(crs.rvh[p], col, val))
      OBVIOUS
  <2>2. Changes(at, e, p, row)
      BY <1>4, <1>7, <2>1
  <2>3. Changes(crs, e, p, row)
      BY <1>3, <2>2, ChangesOn
  <2> QED BY <2>1, <2>3
<1>9. Start(e, FALSE)
    BY <1>2, <1>5 DEF UpdateAt
<1>10. crs' = e /\ Arrived(e, Idle, {}, wr')
    BY <1>1, <1>8, <1>9, StartArrives DEF Changes
<1>11. /\ "deleted" \notin crs.rvh[p].flags /\ p \in 1..NumRows(crs)
       /\ Cardinality(Pending(crs) \cup {p}) <= MaxPending
       /\ wr = Idle /\ UNCHANGED <<table, db, hist>>
    BY <1>2, <1>3, <1>4, <1>6 DEF UpdateAt
<1> QED BY <1>8, <1>10, <1>11

\* So it is when it deletes one.
LEMMA DeleteEdits ==
    ASSUME Typed, NEW n \in Int, DeleteAt(n)
    PROVE  /\ wr = Idle /\ UNCHANGED <<table, db, hist>>
           /\ Arrived(crs', Idle, {}, wr')
           /\ \E p \in 1..NumRows(crs) :
                 /\ crs.rvh[p].flags \cap {"deleted", "created", "removed"} = {}
                 /\ Cardinality(Pending(crs) \cup {p}) <= MaxPending
                 /\ Changes(crs, crs', p, [crs.rvh[p] EXCEPT !.flags = @ \cup {"removed"}])
<1>1. Formed(crs) /\ ~crs.onInsertRow
    BY DEF Typed
<1>2. PICK at : at = Absolute(crs, n)
    OBVIOUS
<1>3. Steers(crs, at) /\ Formed(at) /\ ~at.onInsertRow /\ at.cursorPos \in 1..NumRows(crs)
  <2>1. Moved(crs, n)
      BY DEF DeleteAt
  <2>2. Steers(crs, at) /\ at.cursorPos \in 1..NumRows(crs)
      BY <1>1, <1>2, <2>1, AbsoluteSteers
  <2> QED BY <1>1, <2>2 DEF Steers
<1>4. at.rvh = crs.rvh /\ NumRows(at) = NumRows(crs)
    BY <1>3 DEF Steers, NumRows
<1>5. PICK e : e = DeleteRow(at)
    OBVIOUS
<1>6. PICK p : p = at.cursorPos
    OBVIOUS
<1>7. Changes(at, e, p, [at.rvh[p] EXCEPT !.flags = @ \cup {"removed"}])
    BY <1>3, <1>4, <1>5, <1>6, DeleteChanges
<1>8. Changes(crs, e, p, [crs.rvh[p] EXCEPT !.flags = @ \cup {"removed"}])
  <2>1. PICK row : row = [crs.rvh[p] EXCEPT !.flags = @ \cup {"removed"}]
      OBVIOUS
  <2>2. Changes(at, e, p, row)
      BY <1>4, <1>7, <2>1
  <2>3. Changes(crs, e, p, row)
      BY <1>3, <2>2, ChangesOn
  <2> QED BY <2>1, <2>3
<1>9. Start(e, FALSE)
    BY <1>2, <1>5 DEF DeleteAt
<1>10. crs' = e /\ Arrived(e, Idle, {}, wr')
    BY <1>1, <1>8, <1>9, StartArrives DEF Changes
<1>11. /\ crs.rvh[p].flags \cap {"deleted", "created", "removed"} = {} /\ p \in 1..NumRows(crs)
       /\ Cardinality(Pending(crs) \cup {p}) <= MaxPending
       /\ wr = Idle /\ UNCHANGED <<table, db, hist>>
    BY <1>2, <1>3, <1>4, <1>6 DEF DeleteAt
<1> QED BY <1>8, <1>10, <1>11

\* And a new row waits at the end.
LEMMA AddAdds ==
    ASSUME Typed, NEW vals \in Values, AddRow(vals)
    PROVE  /\ wr = Idle /\ UNCHANGED <<table, db, wr>>
           /\ Cardinality(Pending(crs)) < MaxPending
           /\ hist' = [hist EXCEPT !.link = Append(hist.link, 0)]
           /\ Extends(crs, crs', [NewRow(vals) EXCEPT !.flags = {"created"}])
<1>1. PICK buffer : buffer = [vals |-> vals, given |-> Column \ table.auto]
    OBVIOUS
<1>2. buffer \in InsertBuffer /\ buffer.vals = vals
    BY <1>1 DEF InsertBuffer
<1>3. Formed(crs) /\ ~crs.onInsertRow /\ hist \in HistoryType
    BY DEF Typed
<1>4. Extends(crs, MoveToCurrentRow(InsertRow([MoveToInsertRow(crs) EXCEPT !.insertRow = buffer])),
              [NewRow(buffer.vals) EXCEPT !.flags = {"created"}])
    BY <1>2, <1>3, InsertExtends
<1>5. /\ crs' = MoveToCurrentRow(InsertRow([MoveToInsertRow(crs) EXCEPT !.insertRow = buffer]))
      /\ hist' = [hist EXCEPT !.link = Append(hist.link, 0)]
      /\ wr = Idle /\ UNCHANGED <<table, db, wr>> /\ Cardinality(Pending(crs)) < MaxPending
    BY <1>1, <1>3 DEF AddRow, HistoryType
<1> QED BY <1>2, <1>4, <1>5

\* The values of a new row are values.
LEMMA NewValuesTyped ==
    ASSUME NEW vals \in NewValues
    PROVE  vals \in Values /\ [k \in Column |-> IF k \in table.auto THEN NULL ELSE vals[k]] \in Values
BY WritableAssumption DEF NewValues, Values, Datum

\* Each step of the client, as the proofs take them.
LEMMA ClientSteps ==
    ASSUME Typed, Client
    PROVE  \/ \E n \in Int : DeleteAt(n)
           \/ \E n \in Int, col \in Column, val \in Writable : UpdateAt(n, col, val)
           \/ \E n \in Int : Browse(n)
           \/ \E vals \in Values : AddRow(vals)
           \/ AcceptInserts
<1>1. NumRows(crs) \in Nat
    BY RowsOfCache DEF Typed
<1>2. \A vals \in NewValues :
        [k \in Column |-> IF k \in table.auto THEN NULL ELSE vals[k]] \in Values
    BY NewValuesTyped
<1>3. CASE \E n \in 1..NumRows(crs) :
             DeleteAt(n) \/ \E col \in Column, val \in Writable : UpdateAt(n, col, val)
    BY <1>1, <1>3
<1>4. CASE \E n \in 0..(NumRows(crs) + 1) : Browse(n)
  <2>1. PICK n \in 0..(NumRows(crs) + 1) : Browse(n)
      BY <1>4
  <2>2. n \in Int
      BY <1>1
  <2> QED BY <2>1, <2>2
<1>5. CASE \E vals \in NewValues :
             AddRow([k \in Column |-> IF k \in table.auto THEN NULL ELSE vals[k]])
  <2>1. PICK vals \in NewValues :
             AddRow([k \in Column |-> IF k \in table.auto THEN NULL ELSE vals[k]])
      BY <1>5
  <2>2. PICK row : row = [k \in Column |-> IF k \in table.auto THEN NULL ELSE vals[k]]
      OBVIOUS
  <2>3. row \in Values /\ AddRow(row)
      BY <1>2, <2>1, <2>2
  <2> QED BY <2>3
<1> QED BY <1>3, <1>4, <1>5 DEF Client

\* The steps of the client keep the shapes.
LEMMA ClientTyped ==
    ASSUME Typed, Client
    PROVE  Typed'
<1>1. /\ Formed(crs) /\ ~crs.onInsertRow /\ wr \in WriterType /\ hist \in HistoryType
      /\ Len(hist.link) = NumRows(crs) /\ NumRows(crs) \in Nat
    BY RowsOfCache DEF Typed
<1>2. ASSUME UNCHANGED <<table, db, hist>>, NEW i, NEW row, Changes(crs, crs', i, row),
             Arrived(crs', Idle, {}, wr')
      PROVE  Typed'
  <2>1. Formed(crs') /\ ~crs'.onInsertRow /\ NumRows(crs)' = NumRows(crs) /\ wr' \in WriterType
      BY <1>2 DEF Changes, Arrived, NumRows
  <2> QED BY <1>1, <1>2, <2>1, SameRecordsTyped
<1>3. ASSUME NEW n \in Int, DeleteAt(n)
      PROVE  Typed'
    BY <1>2, <1>3, DeleteEdits
<1>4. ASSUME NEW n \in Int, NEW col \in Column, NEW val \in Writable, UpdateAt(n, col, val)
      PROVE  Typed'
    BY <1>2, <1>4, UpdateEdits
<1>5. ASSUME NEW n \in Int, Browse(n)
      PROVE  Typed'
  <2>1. crs' = Absolute(crs, n) /\ UNCHANGED <<table, db, wr, hist>>
      BY <1>5 DEF Browse
  <2>2. Formed(crs') /\ ~crs'.onInsertRow /\ NumRows(crs)' = NumRows(crs)
    <3>1. Steers(crs, crs')
        BY <1>1, <2>1, AbsoluteSteers
    <3> QED BY <1>1, <3>1 DEF Steers, NumRows
  <2> QED BY <1>1, <2>1, <2>2, SameRecordsTyped
<1>6. ASSUME NEW vals \in Values, AddRow(vals)
      PROVE  Typed'
  <2>1. /\ UNCHANGED <<table, db, wr>>
        /\ hist' = [hist EXCEPT !.link = Append(hist.link, 0)]
        /\ Formed(crs') /\ ~crs'.onInsertRow /\ NumRows(crs') = NumRows(crs) + 1
      BY <1>6, AddAdds DEF Extends
  <2>2. PICK link : link = Append(hist.link, 0)
      OBVIOUS
  <2>3. link \in Seq(Nat) /\ Len(link) = Len(hist.link) + 1
      BY <1>1, <2>2 DEF HistoryType
  <2>4. hist' \in HistoryType /\ hist'.link = link /\ hist'.issued = hist.issued
      BY <1>1, <2>1, <2>2, <2>3 DEF HistoryType
  <2>5. Allowed(db)'
      BY <2>1 DEF Typed, Allowed
  <2>6. Len(hist'.link) = NumRows(crs)'
      BY <1>1, <2>1, <2>3, <2>4 DEF NumRows
  <2> QED BY <2>1, <2>4, <2>5, <2>6 DEF Typed
<1>7. CASE AcceptInserts
  <2>1. Start(crs, TRUE) /\ UNCHANGED <<table, db, hist>>
      BY <1>7 DEF AcceptInserts
  <2>2. crs' = crs /\ wr' \in WriterType
      BY <1>1, <2>1, StartArrives DEF Arrived
  <2> QED BY <1>1, <2>1, <2>2, SameRecordsTyped DEF NumRows
<1> QED BY <1>3, <1>4, <1>5, <1>6, <1>7, ClientSteps

\* The other sessions touch neither the row set nor the writer; what they do
\* not mark as touched they leave as it is.
LEMMA OthersTouch ==
    ASSUME Typed, Others
    PROVE  /\ UNCHANGED <<crs, table, wr>>
           /\ hist' \in HistoryType /\ hist'.link = hist.link /\ hist.issued <= hist'.issued
           /\ hist.touched \subseteq hist'.touched /\ hist.window \subseteq hist'.window
           /\ DOMAIN db' \subseteq 1..hist'.issued
           /\ \A id \in DOMAIN db' : db'[id] \in Values
           /\ \A id : id \notin hist'.touched \/ id \notin hist'.window =>
                 /\ id \in DOMAIN db' <=> id \in DOMAIN db
                 /\ id \in DOMAIN db => db'[id] = db[id]
           /\ Allowed(db)'
<1>1. /\ hist \in HistoryType /\ DOMAIN db \subseteq 1..hist.issued
      /\ \A id \in DOMAIN db : db[id] \in Values
      /\ hist.issued \in Nat /\ hist.others \in Nat /\ DOMAIN db \subseteq Nat
      /\ hist.touched \in SUBSET Nat /\ hist.window \in SUBSET Nat
    BY DEF Typed, HistoryType
<1>2. ASSUME NEW ids \in SUBSET Nat, Touch(ids)
      PROVE  /\ hist' \in HistoryType /\ hist'.link = hist.link /\ hist.issued = hist'.issued
             /\ hist'.touched = hist.touched \cup ids /\ hist'.window = hist.window \cup ids
  <2>1. hist' = [hist EXCEPT !.others = hist.others + 1, !.touched = hist.touched \cup ids,
                             !.window = hist.window \cup ids]
      BY <1>1, <1>2 DEF Touch, HistoryType
  <2>2. hist.others + 1 \in Nat
      BY <1>1
  <2>3. hist.touched \cup ids \in SUBSET Nat /\ hist.window \cup ids \in SUBSET Nat
      BY <1>1, Zenon
  <2> QED BY <1>1, <2>1, <2>2, <2>3 DEF HistoryType
<1>3. \A vals : Twins(vals) \subseteq DOMAIN db
    BY DEF Twins
<1>4. ASSUME NEW id \in DOMAIN db, OtherDelete(id)
      PROVE  /\ UNCHANGED <<crs, table, wr>> /\ Touch({id})
             /\ db' = [i \in DOMAIN db \ {id} |-> db[i]]
    BY <1>4 DEF OtherDelete
<1>5. ASSUME NEW id \in DOMAIN db, NEW vals \in NewValues, OtherUpdate(id, vals)
      PROVE  /\ UNCHANGED <<crs, table, wr>> /\ Touch({id} \cup Twins(vals))
             /\ db' = [db EXCEPT ![id] = vals] /\ Allowed(db')
    BY <1>5 DEF OtherUpdate
<1>6. CASE \E id \in DOMAIN db : OtherDelete(id)
  <2>1. PICK id \in DOMAIN db : OtherDelete(id)
      BY <1>6
  <2>2. {id} \in SUBSET Nat
      BY <1>1
  <2>3. /\ UNCHANGED <<crs, table, wr>> /\ db' = [i \in DOMAIN db \ {id} |-> db[i]]
        /\ hist' \in HistoryType /\ hist'.link = hist.link /\ hist.issued = hist'.issued
        /\ hist'.touched = hist.touched \cup {id} /\ hist'.window = hist.window \cup {id}
      BY <1>2, <1>4, <2>1, <2>2
  <2>4. Allowed(db)'
    <3>1. DOMAIN db' \subseteq DOMAIN db /\ \A i \in DOMAIN db' : db'[i] = db[i]
        BY <2>3
    <3> QED BY <2>3, <3>1 DEF Typed, Allowed
  <2> QED BY <1>1, <2>3, <2>4
<1>7. CASE \E id \in DOMAIN db, vals \in NewValues : OtherUpdate(id, vals)
  <2>1. PICK id \in DOMAIN db, vals \in NewValues : OtherUpdate(id, vals)
      BY <1>7
  <2>2. PICK ids : ids = {id} \cup Twins(vals)
      OBVIOUS
  <2>3. ids \in SUBSET Nat /\ id \in ids
      BY <1>1, <1>3, <2>2
  <2>4. /\ UNCHANGED <<crs, table, wr>> /\ db' = [db EXCEPT ![id] = vals] /\ Allowed(db')
        /\ hist' \in HistoryType /\ hist'.link = hist.link /\ hist.issued = hist'.issued
        /\ hist'.touched = hist.touched \cup ids /\ hist'.window = hist.window \cup ids
      BY <1>2, <1>5, <2>1, <2>2, <2>3
  <2>5. vals \in Values
      BY NewValuesTyped
  <2>6. DOMAIN db' = DOMAIN db /\ db'[id] = vals /\ \A i \in DOMAIN db \ {id} : db'[i] = db[i]
      BY <2>4
  <2>7. Allowed(db)'
      BY <2>4 DEF Allowed
  <2> QED BY <1>1, <2>3, <2>4, <2>5, <2>6, <2>7
<1>8. CASE \E vals \in NewValues : OtherInsert(vals)
  <2>1. PICK vals \in NewValues : OtherInsert(vals)
      BY <1>8
  <2>2. PICK ids : ids = Twins(vals) \cup {hist.issued + 1}
      OBVIOUS
  <2>3. ids \in SUBSET Nat /\ hist.issued + 1 \in ids
      BY <1>1, <1>3, <2>2
  <2>4. PICK d : d = [i \in DOMAIN db \cup {hist.issued + 1} |->
                         IF i \in DOMAIN db THEN db[i] ELSE vals]
      OBVIOUS
  <2>5. /\ UNCHANGED <<crs, table, wr>> /\ db' = d /\ Allowed(d)
        /\ hist' = [hist EXCEPT !.others = hist.others + 1, !.issued = hist.issued + 1,
                                !.touched = hist.touched \cup ids,
                                !.window = hist.window \cup ids]
      BY <1>1, <2>1, <2>2, <2>4 DEF OtherInsert, HistoryType
  <2>6. /\ hist' \in HistoryType /\ hist'.link = hist.link /\ hist'.issued = hist.issued + 1
        /\ hist'.touched = hist.touched \cup ids /\ hist'.window = hist.window \cup ids
    <3>1. hist.others + 1 \in Nat /\ hist.issued + 1 \in Nat
        BY <1>1
    <3>2. hist.touched \cup ids \in SUBSET Nat /\ hist.window \cup ids \in SUBSET Nat
        BY <1>1, <2>3, Zenon
    <3> QED BY <1>1, <2>5, <3>1, <3>2 DEF HistoryType
  <2>7. vals \in Values
      BY NewValuesTyped
  <2>8. Allowed(db)'
      BY <2>5 DEF Allowed
  <2>9. /\ DOMAIN db' = DOMAIN db \cup {hist.issued + 1}
        /\ \A i \in DOMAIN db : db'[i] = db[i]
        /\ \A i \in DOMAIN db' : db'[i] \in Values
      BY <1>1, <2>4, <2>5, <2>7
  <2> QED BY <1>1, <2>3, <2>5, <2>6, <2>8, <2>9
<1> QED BY <1>6, <1>7, <1>8 DEF Others
\* The initial rows, records and links.
LEMMA InitShaped == Init => Shaped
<1> SUFFICES ASSUME Init PROVE Shaped
    OBVIOUS
<1>1. MaxInit \in Nat
    BY BoundAssumption
<1>2. PICK n \in 0..MaxInit : \E rows \in [1..n -> Values], show \in BOOLEAN :
          /\ Allowed(rows) /\ db = rows /\ crs = Populate(rows, show)
          /\ hist = [link |-> [i \in 1..n |-> i], issued |-> n,
                     others |-> 0, touched |-> {}, window |-> {}]
    BY DEF Init
<1>3. PICK rows \in [1..n -> Values], show \in BOOLEAN :
          /\ Allowed(rows) /\ db = rows /\ crs = Populate(rows, show)
          /\ hist = [link |-> [i \in 1..n |-> i], issued |-> n,
                     others |-> 0, touched |-> {}, window |-> {}]
    BY <1>2
<1>4. n \in Nat /\ wr = Idle /\ table \in Tables
    BY <1>1 DEF Init
<1>5. /\ Formed(crs) /\ ~crs.onInsertRow /\ NumRows(crs) = n
      /\ \A i \in 1..n : crs.rvh[i] = NewRow(rows[i])
    BY <1>3, <1>4, PopulateRows
<1>6. PICK link : link = [i \in 1..n |-> i]
    OBVIOUS
<1>7. link \in Seq(Nat) /\ Len(link) = n /\ \A i \in 1..n : link[i] = i
    BY <1>4, <1>6
<1>8. hist \in HistoryType /\ hist.link = link /\ hist.issued = n
    BY <1>3, <1>4, <1>6, <1>7 DEF HistoryType
<1>9. Idle \in WriterType /\ Idle.row = 0 /\ Idle.pc = "idle" /\ Idle.failed = {}
    BY DEF Idle, WriterType
<1>10. Typed
  <2>1. DOMAIN db \subseteq 1..n /\ \A id \in DOMAIN db : db[id] \in Values
      BY <1>3
  <2> QED BY <1>3, <1>4, <1>5, <1>7, <1>8, <1>9, <2>1 DEF Typed
<1>11. AtRow
    BY <1>4, <1>9 DEF AtRow
<1>12. Linked
  <2>1. \A i \in 1..n : "created" \notin crs.rvh[i].flags /\ hist.link[i] # 0
    <3>1. \A i \in 1..n : crs.rvh[i].flags = {}
      <4>1. \A i \in 1..n : NewRow(rows[i]).flags = {}
          BY DEF NewRow
      <4> QED BY <1>5, <4>1
    <3>2. \A i \in 1..n : link[i] # 0
        BY <1>4, <1>7
    <3> QED BY <1>8, <3>1, <3>2
  <2> QED BY <1>5, <2>1 DEF Linked, Created
<1> QED BY <1>10, <1>11, <1>12 DEF Shaped

\* A writer that goes on from its row leaves no created row without record
\* behind that is not in conflict.
LEMMA GoesOn ==
    ASSUME Shaped, wr.row # 0, SameMarks(crs, crs'),
           NEW f, f = wr.failed \/ f = wr.failed \cup {wr.row},
           Arrived(crs, wr, f, wr'),
           \A i \in 1..NumRows(crs) : hist'.link[i] = 0 => hist.link[i] = 0,
           wr.row \in f \/ (Kind(Here) = "insert" => hist'.link[wr.row] # 0)
    PROVE  AtRow' /\ Linked'
<1>1. /\ wr.row \in 1..NumRows(crs) /\ NumRows(crs) \in Nat /\ wr.row \in Pending(crs)
      /\ wr.failed \in SUBSET Nat /\ wr.row \in Nat
    BY HereIsRow DEF Shaped, Typed, AtRow, WriterType
<1>2. /\ NumRows(crs)' = NumRows(crs) /\ Pending(crs)' = Pending(crs)
      /\ \A i \in 1..NumRows(crs) : Kind(crs'.rvh[i]) = Kind(crs.rvh[i])
      /\ \A i \in 1..NumRows(crs) : crs'.rvh[i].flags = crs.rvh[i].flags
    BY SameMarksWait DEF SameMarks, NumRows, Pending
<1>3. \A i \in f : i \in Pending(crs) \/ i > NumRows(crs)
    BY <1>1 DEF Shaped, AtRow
<1>4. /\ wr' \in WriterType /\ wr'.failed = f /\ Pending(crs) \subseteq 1..NumRows(crs)
      /\ wr'.row = 0 \/ wr'.row \in Pending(crs)
    BY DEF Arrived, Pending
<1>5. AtRow'
  <2>1. CASE /\ wr'.row = 0 /\ wr'.pc = IF f = {} THEN "accept" ELSE "resolve"
      BY <1>2, <1>3, <1>4, <2>1 DEF AtRow
  <2>2. CASE /\ wr'.row \in Pending(crs) /\ wr'.row > wr.row
             /\ wr'.pc = IF Kind(crs.rvh[wr'.row]) = "insert" THEN "write" ELSE "check"
    <3>1. wr'.row # 0 /\ wr'.row \in 1..NumRows(crs)
        BY <1>1, <1>4, <2>2
    <3>2. Here' = crs'.rvh[wr'.row]
        BY DEF Here
    <3> QED BY <1>2, <1>3, <1>4, <2>2, <3>1, <3>2 DEF AtRow
  <2> QED BY <2>1, <2>2 DEF Arrived
<1>6. Linked'
  <2> SUFFICES ASSUME NEW i \in 1..NumRows(crs)
               PROVE  /\ hist'.link[i] = 0 => "created" \in crs.rvh[i].flags
                      /\ "created" \in crs.rvh[i].flags => "removed" \notin crs.rvh[i].flags
                      /\ "created" \in crs.rvh[i].flags /\ wr'.pc = "accept" => hist'.link[i] # 0
                      /\ "created" \in crs.rvh[i].flags /\ i < wr'.row /\ i \notin f
                            => hist'.link[i] # 0
      BY <1>2, <1>4 DEF Linked, Created
  <2>1. /\ hist.link[i] = 0 => "created" \in crs.rvh[i].flags
        /\ "created" \in crs.rvh[i].flags => "removed" \notin crs.rvh[i].flags
        /\ "created" \in crs.rvh[i].flags /\ i < wr.row /\ i \notin wr.failed
              => hist.link[i] # 0
      BY DEF Shaped, Linked, Created
  <2>2. ASSUME "created" \in crs.rvh[i].flags, i \notin f, i <= wr.row
        PROVE  hist'.link[i] # 0
    <3>1. CASE i < wr.row
        BY <2>1, <2>2, <3>1
    <3>2. CASE i = wr.row
      <4>1. Kind(Here) = "insert"
          BY <2>1, <2>2, <3>2 DEF Here, Kind
      <4> QED BY <2>2, <3>2, <4>1
    <3> QED BY <1>1, <2>2, <3>1, <3>2
  <2>3. "created" \in crs.rvh[i].flags => i \in Pending(crs)
      BY DEF Pending
  <2>4. ASSUME "created" \in crs.rvh[i].flags, i \notin f, wr'.pc = "accept" \/ i < wr'.row
        PROVE  i <= wr.row
    <3>1. CASE /\ wr'.row = 0 /\ \A j \in Pending(crs) : j <= wr.row
        BY <2>3, <2>4, <3>1
    <3>2. CASE /\ wr'.row \in Pending(crs)
               /\ wr'.pc = IF Kind(crs.rvh[wr'.row]) = "insert" THEN "write" ELSE "check"
               /\ \A j \in Pending(crs) : j <= wr.row \/ wr'.row <= j
      <4>1. i < wr'.row /\ wr'.row \in Nat
          BY <1>4, <2>4, <3>2 DEF WriterType
      <4>2. i \in Pending(crs) /\ i \in Nat
          BY <1>1, <2>3, <2>4
      <4>3. i <= wr.row \/ wr'.row <= i
          BY <3>2, <4>2
      <4> QED BY <1>1, <4>1, <4>2, <4>3
    <3> QED BY <3>1, <3>2 DEF Arrived
  <2>5. wr'.pc = "accept" => f = {}
    <3>1. CASE wr'.pc = IF f = {} THEN "accept" ELSE "resolve"
        BY <3>1
    <3>2. CASE wr'.pc = IF Kind(crs.rvh[wr'.row]) = "insert" THEN "write" ELSE "check"
        BY <3>2
    <3> QED BY <3>1, <3>2 DEF Arrived
  <2> QED BY <2>1, <2>2, <2>4, <2>5
<1> QED BY <1>5, <1>6

\* A call that sets out has no row behind it.
LEMMA SetsOut ==
    ASSUME Shaped, wr = Idle, Formed(crs'), Arrived(crs', Idle, {}, wr'),
           hist'.link = hist.link, NumRows(crs') = NumRows(crs),
           \A i \in 1..NumRows(crs) :
              /\ "created" \in crs'.rvh[i].flags <=> "created" \in crs.rvh[i].flags
              /\ "created" \in crs'.rvh[i].flags => "removed" \notin crs'.rvh[i].flags
    PROVE  AtRow' /\ Linked'
<1>1. /\ NumRows(crs)' = NumRows(crs) /\ Pending(crs)' = Pending(crs')
      /\ Pending(crs') \subseteq 1..NumRows(crs) /\ NumRows(crs) \in Nat
    BY RowsOfCache DEF NumRows, Pending, Shaped, Typed
<1>2. /\ wr' \in WriterType /\ wr'.failed = {} /\ Idle.row = 0
    BY DEF Arrived, Idle
<1>3. AtRow'
  <2>1. CASE /\ wr'.row = 0 /\ wr'.pc = "accept"
      BY <1>2, <2>1 DEF AtRow
  <2>2. CASE /\ wr'.row \in Pending(crs')
             /\ wr'.pc = IF Kind(crs'.rvh[wr'.row]) = "insert" THEN "write" ELSE "check"
    <3>1. wr'.row # 0 /\ wr'.row \in 1..NumRows(crs)
        BY <1>1, <2>2
    <3>2. Here' = crs'.rvh[wr'.row]
        BY DEF Here
    <3> QED BY <1>1, <1>2, <2>2, <3>1, <3>2 DEF AtRow
  <2> QED BY <2>1, <2>2 DEF Arrived
<1>4. \A i \in 1..NumRows(crs) : "created" \in crs'.rvh[i].flags => i \in Pending(crs')
    BY <1>1 DEF Pending, NumRows
<1>5. ASSUME NEW i \in 1..NumRows(crs), "created" \in crs'.rvh[i].flags
      PROVE  wr'.pc # "accept" /\ ~(i < wr'.row)
  <2>1. i \in Pending(crs') /\ i > 0
      BY <1>1, <1>4, <1>5
  <2>2. CASE \A j \in Pending(crs') : j <= Idle.row
      BY <1>1, <1>2, <2>1, <2>2
  <2>3. CASE /\ \A j \in Pending(crs') : j <= Idle.row \/ wr'.row <= j
             /\ wr'.pc = IF Kind(crs'.rvh[wr'.row]) = "insert" THEN "write" ELSE "check"
    <3>1. wr'.row <= i /\ wr'.row \in Nat
        BY <1>1, <1>2, <2>1, <2>3 DEF WriterType
    <3> QED BY <1>1, <2>3, <3>1
  <2> QED BY <2>2, <2>3 DEF Arrived
<1>6. Linked'
  <2>1. \A i \in 1..NumRows(crs) : hist'.link[i] = 0 => "created" \in crs'.rvh[i].flags
      BY DEF Shaped, Linked, Created
  <2> QED BY <1>1, <1>5, <2>1 DEF Linked, Created
<1> QED BY <1>3, <1>6
\* Two row sets of the same rows have the same marks.
LEMMA SameRowsMarks ==
    ASSUME NEW c, NEW d, d.rvh = c.rvh
    PROVE  SameMarks(c, d)
BY DEF SameMarks, NumRows

\* updateGeneratedKeys touches no mark.
LEMMA FetchKeepsMarks ==
    ASSUME Shaped, FetchKeys
    PROVE  SameMarks(crs, crs')
<1> DEFINE id == hist.link[wr.row]
<1>1. /\ Formed(crs) /\ ~crs.onInsertRow /\ wr.row \in 1..NumRows(crs)
      /\ crs.rvh[wr.row] \in Row
    BY HereIsRow, RowsOfCache DEF FetchKeys, Shaped, Typed, AtRow
<1>2. CASE id \in DOMAIN db
  <2>1. crs' = UpdateKeys(crs, wr.row, db[id]) /\ db[id] \in Values
      BY <1>2 DEF FetchKeys, Shaped, Typed
  <2>2. PICK row : row = [crs.rvh[wr.row] EXCEPT !.curr = db[id], !.changed = Column]
      OBVIOUS
  <2>3. row.flags = crs.rvh[wr.row].flags
      BY <1>1, <2>2 DEF Row
  <2>4. Changes(crs, UpdateKeys(crs, wr.row, db[id]), wr.row,
                [crs.rvh[wr.row] EXCEPT !.curr = db[id], !.changed = Column])
      BY <1>1, <2>1, KeysChange
  <2>5. Changes(crs, crs', wr.row, row)
      BY <2>1, <2>2, <2>4
  <2> QED BY <2>3, <2>5 DEF Changes, SameMarks
<1>3. CASE id \notin DOMAIN db
    BY <1>3, SameRowsMarks DEF FetchKeys
<1> QED BY <1>2, <1>3

\* The last row off, the rest waits as before.
LEMMA ShortensWaits ==
    ASSUME NEW c, NEW d, Formed(c), Shortens(c, d)
    PROVE  /\ NumRows(c) \in Nat /\ NumRows(d) \in Nat /\ NumRows(d) = NumRows(c) - 1
           /\ \A i : i \in Pending(d) <=> i \in Pending(c) /\ i # NumRows(c)
           /\ \A i \in 1..NumRows(d) : i \in 1..NumRows(c) /\ d.rvh[i] = c.rvh[i]
<1>1. NumRows(c) \in Nat /\ NumRows(d) \in Nat /\ NumRows(d) = NumRows(c) - 1
    BY RowsOfCache DEF Shortens
<1>2. \A i : i \in 1..NumRows(d) <=> i \in 1..NumRows(c) /\ i # NumRows(c)
    BY <1>1
<1>3. \A i \in 1..NumRows(d) : d.rvh[i] = c.rvh[i]
    BY DEF Shortens
<1> QED BY <1>1, <1>2, <1>3 DEF Pending

\* A conflict undone leaves the other rows waiting.
LEMMA ChangesWait ==
    ASSUME NEW c, NEW d, NEW p, NEW row, Changes(c, d, p, row)
    PROVE  \A i : i # p => (i \in Pending(d) <=> i \in Pending(c))
BY DEF Changes, Pending

\* The writer keeps its place.
LEMMA WriterShaped ==
    ASSUME Shaped, Writer
    PROVE  AtRow' /\ Linked'
<1>1. /\ Formed(crs) /\ wr \in WriterType /\ hist \in HistoryType /\ Len(hist.link) = NumRows(crs)
      /\ NumRows(crs) \in Nat /\ \A i \in 1..NumRows(crs) : crs.rvh[i] \in Row
    BY RowsOfCache DEF Shaped, Typed
<1>2. /\ Idle.pc = "idle" /\ Idle.row = 0 /\ Idle.failed = {}
    BY DEF Idle
<1>3. CASE CheckRow
  <2>1. /\ wr'.pc = "write" /\ wr'.row = wr.row /\ wr'.failed = wr.failed /\ wr.pc = "check"
        /\ hist'.link = hist.link /\ crs' = crs
      BY <1>1, <1>3 DEF CheckRow, WriterType, HistoryType
  <2> QED BY <2>1 DEF Shaped, AtRow, Linked, Created, Pending, NumRows
<1>4. CASE RefuseRow \/ FailStatement
  <2>1. wr.row # 0 /\ Refuse /\ UNCHANGED <<crs, hist>>
      BY <1>4 DEF RefuseRow, FailStatement, Shaped, AtRow
  <2>2. SameMarks(crs, crs')
      BY <2>1, SameRowsMarks
  <2>3. PICK f : f = wr.failed \cup {wr.row}
      OBVIOUS
  <2>4. Arrived(crs, wr, f, wr') /\ wr.row \in f
      BY <1>1, <2>1, <2>3, RefuseArrives
  <2> QED BY <2>1, <2>2, <2>3, <2>4, GoesOn
<1>5. CASE WriteRow
  <2>1. wr.row # 0 /\ (Refuse \/ Proceed) /\ crs' = crs /\ hist'.link = hist.link
        /\ Kind(Here) # "insert"
      BY <1>1, <1>5 DEF WriteRow, Shaped, AtRow, HistoryType
  <2>2. SameMarks(crs, crs')
      BY <2>1, SameRowsMarks
  <2>3. \E f : (f = wr.failed \/ f = wr.failed \cup {wr.row}) /\ Arrived(crs, wr, f, wr')
      BY <1>1, <2>1, RefuseArrives, ProceedArrives
  <2> QED BY <2>1, <2>2, <2>3, GoesOn
<1>6. CASE InsertRecord
  <2>1. /\ wr.row # 0 /\ Kind(Here) = "insert" /\ wr.row \in 1..NumRows(crs) /\ crs' = crs
        /\ wr.pc = "write"
      BY <1>6, HereIsRow DEF InsertRecord, Shaped, AtRow
  <2>2. hist'.link = [hist.link EXCEPT ![wr.row] = hist.issued + 1]
      BY <1>1, <1>6 DEF InsertRecord, HistoryType
  <2>3. /\ hist'.link[wr.row] # 0
        /\ \A i \in 1..NumRows(crs) : hist'.link[i] = 0 => hist.link[i] = 0
    <3>1. hist.link \in Seq(Nat) /\ hist.issued + 1 # 0
        BY <1>1 DEF HistoryType
    <3> QED BY <1>1, <2>1, <2>2, <3>1
  <2>4. CASE Proceed
    <3>1. Arrived(crs, wr, wr.failed, wr')
        BY <1>1, <2>4, ProceedArrives
    <3>2. SameMarks(crs, crs')
        BY <2>1, SameRowsMarks
    <3> QED BY <2>1, <2>3, <3>1, <3>2, GoesOn
  <2>5. CASE wr' = [wr EXCEPT !.pc = "keys"]
    <3>1. wr'.pc = "keys" /\ wr'.row = wr.row /\ wr'.failed = wr.failed
        BY <1>1, <2>5 DEF WriterType
    <3>2. Here' = Here
        BY <2>1, <3>1 DEF Here
    <3> QED BY <2>1, <2>3, <3>1, <3>2 DEF Shaped, AtRow, Linked, Created, Pending, NumRows
  <2> QED BY <1>6, <2>4, <2>5 DEF InsertRecord
<1>7. CASE FetchKeys
  <2>1. /\ wr.row # 0 /\ wr.row \in 1..NumRows(crs) /\ Proceed /\ UNCHANGED <<table, db, hist>>
        /\ hist.link[wr.row] # 0
      BY <1>7, HereIsRow DEF FetchKeys, Shaped, AtRow
  <2>2. SameMarks(crs, crs')
      BY <1>7, FetchKeepsMarks
  <2>3. Arrived(crs, wr, wr.failed, wr')
      BY <1>1, <2>1, ProceedArrives
  <2> QED BY <2>1, <2>2, <2>3, GoesOn
<1>8. CASE FinishAccept
  <2>1. PICK c : c = SetOriginal(crs)
      OBVIOUS
  <2>2. /\ Formed(c) /\ ~c.onInsertRow /\ NumRows(c) = NumRows(crs)
        /\ \A i \in 1..NumRows(crs) : c.rvh[i] = MakeRowOriginal(crs.rvh[i])
      BY <2>1, OriginalRows DEF Shaped, Typed
  <2>3. wr' = Idle /\ (crs' = Last(c) \/ crs' = c) /\ UNCHANGED <<table, db, hist>>
      BY <1>8, <2>1 DEF FinishAccept, Return
  <2>4. NumRows(crs)' = NumRows(crs) /\ crs'.rvh = c.rvh
      BY <2>2, <2>3, LastKeeps DEF NumRows
  <2>5. AtRow'
      BY <1>2, <2>3 DEF AtRow
  <2>6. \A i \in 1..NumRows(crs) : "created" \notin crs'.rvh[i].flags
      BY <1>1, <2>2, <2>4, OriginalFlags
  <2>7. \A i \in 1..NumRows(crs) : hist.link[i] # 0
      BY <1>8 DEF FinishAccept, Shaped, Linked
  <2>8. Linked'
      BY <2>3, <2>4, <2>6, <2>7 DEF Linked, Created
  <2> QED BY <2>5, <2>8
<1>9. CASE EndResolve
  <2>1. PICK c : c = CloseResolver(crs)
      OBVIOUS
  <2>2. Formed(c) /\ ~c.onInsertRow /\ c.rvh = crs.rvh
      BY <2>1, CloseKeeps DEF Shaped, Typed
  <2>3. wr' = Idle /\ (crs' = Last(c) \/ crs' = c) /\ UNCHANGED <<table, db, hist>>
      BY <1>9, <2>1 DEF EndResolve, Return
  <2>4. crs'.rvh = crs.rvh
      BY <2>2, <2>3, LastKeeps
  <2>5. AtRow'
      BY <1>2, <2>3 DEF AtRow
  <2>6. Linked'
    <3>1. \A i \in 1..NumRows(crs) : ~(i < 0) /\ ~(i < Idle.row)
        BY <1>1, <1>2
    <3> QED BY <1>2, <2>3, <2>4, <3>1 DEF Shaped, Linked, Created, NumRows
  <2> QED BY <2>5, <2>6
<1>10. CASE ResolveRow
  <2>1. PICK m \in Pending(crs) :
              /\ m \in wr.failed /\ m \in 1..NumRows(crs)
              /\ wr' = [wr EXCEPT !.failed = wr.failed \ {m}]
              /\ hist' = [hist EXCEPT !.link = SubSeq(hist.link, 1, NumRows(crs)')]
              /\ UNCHANGED <<table, db>>
              /\ \/ Kind(crs.rvh[m]) = "insert" /\ Shortens(crs, crs')
                 \/ /\ Kind(crs.rvh[m]) = "update"
                    /\ Changes(crs, crs', m, ClearUpdated(crs.rvh[m]))
                 \/ /\ Kind(crs.rvh[m]) = "delete"
                    /\ Changes(crs, crs', m, [crs.rvh[m] EXCEPT !.flags = @ \ {"removed"}])
      BY <1>10, ResolveUndoes DEF Shaped
  <2>2. /\ wr'.failed = wr.failed \ {m} /\ wr'.pc = "resolve" /\ wr'.row = 0
        /\ wr.pc = "resolve"
    <3>1. wr.pc = "resolve" /\ wr.row = 0
        BY <1>10 DEF ResolveRow, Shaped, AtRow
    <3> QED BY <1>1, <2>1, <3>1 DEF WriterType
  <2>3. NumRows(crs)' = NumRows(crs') /\ Pending(crs)' = Pending(crs') /\ wr.failed \in SUBSET Nat
      BY <1>1 DEF NumRows, Pending, WriterType
  <2>4. hist'.link = SubSeq(hist.link, 1, NumRows(crs'))
      BY <1>1, <2>1, <2>3 DEF HistoryType
  <2>5. ASSUME NumRows(crs') \in 0..NumRows(crs)
        PROVE  \A i \in 1..NumRows(crs') : hist'.link[i] = hist.link[i]
    <3>1. hist.link \in Seq(Nat)
        BY <1>1 DEF HistoryType
    <3> QED BY <1>1, <2>4, <2>5, <3>1
  <2>6. ASSUME NumRows(crs') \in 0..NumRows(crs),
               \A i \in wr.failed : i # m /\ i \in Pending(crs) =>
                  i \in Pending(crs') \/ i > NumRows(crs'),
               \A i \in 1..NumRows(crs') : /\ "created" \in crs'.rvh[i].flags <=>
                                                "created" \in crs.rvh[i].flags
                                           /\ crs'.rvh[i].flags \subseteq crs.rvh[i].flags
        PROVE  AtRow' /\ Linked'
    <3>1. AtRow'
      <4>1. \A i \in wr'.failed : i \in Pending(crs') \/ i > NumRows(crs')
          BY <1>1, <2>2, <2>3, <2>6 DEF Shaped, AtRow
      <4> QED BY <2>2, <2>3, <4>1 DEF AtRow
    <3>2. Linked'
      <4>1. \A i \in 1..NumRows(crs') : i \in 1..NumRows(crs) /\ ~(i < 0)
          BY <1>1, <2>6
      <4> QED BY <2>2, <2>3, <2>5, <2>6, <4>1 DEF Shaped, Linked, Created
    <3> QED BY <3>1, <3>2
  <2>7. CASE Kind(crs.rvh[m]) = "insert" /\ Shortens(crs, crs')
    <3>1. /\ NumRows(crs') = NumRows(crs) - 1 /\ NumRows(crs') \in Nat
          /\ \A i : i \in Pending(crs') <=> i \in Pending(crs) /\ i # NumRows(crs)
          /\ \A i \in 1..NumRows(crs') : crs'.rvh[i] = crs.rvh[i]
        BY <1>1, <2>7, ShortensWaits
    <3>2. NumRows(crs) > NumRows(crs') /\ NumRows(crs') \in 0..NumRows(crs)
        BY <1>1, <3>1
    <3> QED BY <2>6, <3>1, <3>2
  <2>8. ASSUME NEW row, Changes(crs, crs', m, row),
               row.flags \subseteq crs.rvh[m].flags,
               "created" \in crs.rvh[m].flags => "created" \in row.flags
        PROVE  AtRow' /\ Linked'
    <3>1. NumRows(crs') = NumRows(crs) /\ NumRows(crs') \in 0..NumRows(crs)
        BY <1>1, <2>8 DEF Changes
    <3>2. \A i : i # m => (i \in Pending(crs') <=> i \in Pending(crs))
        BY <2>8, ChangesWait
    <3>3. \A i \in 1..NumRows(crs') : /\ "created" \in crs'.rvh[i].flags <=>
                                           "created" \in crs.rvh[i].flags
                                      /\ crs'.rvh[i].flags \subseteq crs.rvh[i].flags
        BY <2>8 DEF Changes
    <3> QED BY <2>6, <3>1, <3>2, <3>3
  <2>9. CASE Kind(crs.rvh[m]) = "update" /\ Changes(crs, crs', m, ClearUpdated(crs.rvh[m]))
    <3>1. ClearUpdated(crs.rvh[m]).flags = crs.rvh[m].flags \ {"updated"}
        BY <1>1, <2>1, ClearedRow
    <3> QED BY <2>8, <2>9, <3>1
  <2>10. CASE /\ Kind(crs.rvh[m]) = "delete"
              /\ Changes(crs, crs', m, [crs.rvh[m] EXCEPT !.flags = @ \ {"removed"}])
    <3>1. PICK row : row = [crs.rvh[m] EXCEPT !.flags = @ \ {"removed"}]
        OBVIOUS
    <3>2. row.flags = crs.rvh[m].flags \ {"removed"}
        BY <1>1, <2>1, <3>1 DEF Row
    <3>3. Changes(crs, crs', m, row)
        BY <2>10, <3>1
    <3> QED BY <2>8, <3>2, <3>3
  <2> QED BY <2>1, <2>7, <2>9, <2>10
<1> QED BY <1>3, <1>4, <1>5, <1>6, <1>7, <1>8, <1>9, <1>10 DEF Writer
\* The client's calls set the writer out, or leave it idle.
LEMMA ClientShaped ==
    ASSUME Shaped, Client
    PROVE  AtRow' /\ Linked'
<1>1. /\ Formed(crs) /\ ~crs.onInsertRow /\ wr \in WriterType /\ hist \in HistoryType
      /\ Len(hist.link) = NumRows(crs) /\ Typed
      /\ NumRows(crs) \in Nat /\ \A i \in 1..NumRows(crs) : crs.rvh[i] \in Row
    BY RowsOfCache DEF Shaped, Typed
<1>2. /\ Idle.pc = "idle" /\ Idle.row = 0 /\ Idle.failed = {}
    BY DEF Idle
<1>3. \A i \in 1..NumRows(crs) : Created(i) => "removed" \notin crs.rvh[i].flags
    BY DEF Shaped, Linked
<1>4. ASSUME UNCHANGED <<table, db, hist>>, wr = Idle, NEW p \in 1..NumRows(crs), NEW row,
             Changes(crs, crs', p, row), Arrived(crs', Idle, {}, wr'),
             "created" \in row.flags <=> "created" \in crs.rvh[p].flags,
             "created" \in row.flags => "removed" \notin row.flags
      PROVE  AtRow' /\ Linked'
  <2>1. Formed(crs') /\ NumRows(crs') = NumRows(crs)
      BY <1>4 DEF Changes
  <2>2. \A i \in 1..NumRows(crs) :
              /\ "created" \in crs'.rvh[i].flags <=> "created" \in crs.rvh[i].flags
              /\ "created" \in crs'.rvh[i].flags => "removed" \notin crs'.rvh[i].flags
      BY <1>3, <1>4 DEF Changes, Created
  <2> QED BY <1>4, <2>1, <2>2, SetsOut
<1>5. ASSUME NEW n \in Int, DeleteAt(n)
      PROVE  AtRow' /\ Linked'
  <2>1. /\ wr = Idle /\ UNCHANGED <<table, db, hist>>
        /\ Arrived(crs', Idle, {}, wr')
        /\ \E p \in 1..NumRows(crs) :
                 /\ crs.rvh[p].flags \cap {"deleted", "created", "removed"} = {}
                 /\ Changes(crs, crs', p, [crs.rvh[p] EXCEPT !.flags = @ \cup {"removed"}])
      BY <1>1, <1>5, DeleteEdits
  <2>2. PICK p \in 1..NumRows(crs) :
                 /\ crs.rvh[p].flags \cap {"deleted", "created", "removed"} = {}
                 /\ Changes(crs, crs', p, [crs.rvh[p] EXCEPT !.flags = @ \cup {"removed"}])
      BY <2>1
  <2>3. PICK row : row = [crs.rvh[p] EXCEPT !.flags = @ \cup {"removed"}]
      OBVIOUS
  <2>4. row.flags = crs.rvh[p].flags \cup {"removed"}
      BY <1>1, <2>3 DEF Row
  <2>5. Changes(crs, crs', p, row) /\ "created" \notin row.flags /\ "created" \notin crs.rvh[p].flags
      BY <2>2, <2>3, <2>4
  <2> QED BY <1>4, <2>1, <2>5
<1>6. ASSUME NEW n \in Int, NEW col \in Column, NEW val \in Writable, UpdateAt(n, col, val)
      PROVE  AtRow' /\ Linked'
  <2>1. /\ wr = Idle /\ UNCHANGED <<table, db, hist>>
        /\ Arrived(crs', Idle, {}, wr')
        /\ \E p \in 1..NumRows(crs) :
                 Changes(crs, crs', p, SetUpdated(SetColumnObject(crs.rvh[p], col, val)))
      BY <1>1, <1>6, UpdateEdits
  <2>2. PICK p \in 1..NumRows(crs) :
                 Changes(crs, crs', p, SetUpdated(SetColumnObject(crs.rvh[p], col, val)))
      BY <2>1
  <2>3. PICK row : row = SetUpdated(SetColumnObject(crs.rvh[p], col, val))
      OBVIOUS
  <2>4. row.flags = crs.rvh[p].flags \cup {"updated"}
    <3>1. crs.rvh[p] \in Row /\ val \in Datum
        BY <1>1, WritableAssumption
    <3>2. SetUpdated(SetColumnObject(crs.rvh[p], col, val)).flags
             = crs.rvh[p].flags \cup {"updated"}
        BY <3>1, UpdatedRow
    <3> QED BY <2>3, <3>2
  <2>5. Changes(crs, crs', p, row)
      BY <2>2, <2>3
  <2> QED BY <1>3, <1>4, <2>1, <2>4, <2>5 DEF Created
<1>7. ASSUME NEW n \in Int, Browse(n)
      PROVE  AtRow' /\ Linked'
  <2>1. crs' = Absolute(crs, n) /\ UNCHANGED <<table, db, wr, hist>> /\ wr = Idle
      BY <1>7 DEF Browse
  <2>2. crs'.rvh = crs.rvh
    <3>1. Steers(crs, crs')
        BY <1>1, <2>1, AbsoluteSteers
    <3> QED BY <3>1 DEF Steers
  <2> QED BY <1>2, <2>1, <2>2 DEF Shaped, AtRow, Linked, Created, NumRows
<1>8. ASSUME NEW vals \in Values, AddRow(vals)
      PROVE  AtRow' /\ Linked'
  <2>1. /\ UNCHANGED <<table, db, wr>> /\ wr = Idle
        /\ hist' = [hist EXCEPT !.link = Append(hist.link, 0)]
        /\ Extends(crs, crs', [NewRow(vals) EXCEPT !.flags = {"created"}])
      BY <1>1, <1>8, AddAdds
  <2>2. hist'.link = Append(hist.link, 0)
      BY <1>1, <2>1 DEF HistoryType
  <2>3. \A i \in 1..NumRows(crs) : hist'.link[i] = hist.link[i]
    <3>1. hist.link \in Seq(Nat)
        BY <1>1 DEF HistoryType
    <3> QED BY <1>1, <2>2, <3>1
  <2>4. PICK row : row = [NewRow(vals) EXCEPT !.flags = {"created"}]
      OBVIOUS
  <2>5. row.flags = {"created"}
      BY <2>4 DEF NewRow
  <2>6. /\ NumRows(crs)' = NumRows(crs) + 1
        /\ \A i \in 1..(NumRows(crs) + 1) :
              crs'.rvh[i] = IF i = NumRows(crs) + 1 THEN row ELSE crs.rvh[i]
      BY <2>1, <2>4 DEF Extends, NumRows
  <2>7. AtRow'
      BY <1>2, <2>1 DEF AtRow
  <2>8. Linked'
    <3>1. \A i \in 1..(NumRows(crs) + 1) :
              \/ i \in 1..NumRows(crs) /\ crs'.rvh[i] = crs.rvh[i]
              \/ i = NumRows(crs) + 1 /\ crs'.rvh[i] = row
        BY <1>1, <2>6
    <3>2. \A i \in 1..(NumRows(crs) + 1) : ~(i < 0)
        BY <1>1
    <3>3. \A i \in 1..(NumRows(crs) + 1) :
              /\ hist'.link[i] = 0 => "created" \in crs'.rvh[i].flags
              /\ "created" \in crs'.rvh[i].flags => "removed" \notin crs'.rvh[i].flags
        BY <2>3, <2>5, <3>1 DEF Shaped, Linked, Created
    <3> QED BY <1>2, <2>1, <2>6, <3>2, <3>3 DEF Linked, Created
  <2> QED BY <2>7, <2>8
<1>9. CASE AcceptInserts
  <2>1. Start(crs, TRUE) /\ UNCHANGED <<table, db, hist>> /\ wr = Idle
      BY <1>9 DEF AcceptInserts
  <2>2. crs' = crs /\ Arrived(crs', Idle, {}, wr')
      BY <1>1, <2>1, StartArrives
  <2>3. \A i \in 1..NumRows(crs) :
              /\ "created" \in crs'.rvh[i].flags <=> "created" \in crs.rvh[i].flags
              /\ "created" \in crs'.rvh[i].flags => "removed" \notin crs'.rvh[i].flags
      BY <1>3, <2>2 DEF Created
  <2>4. Formed(crs') /\ NumRows(crs') = NumRows(crs) /\ hist'.link = hist.link
      BY <1>1, <2>1, <2>2
  <2> QED BY <2>1, <2>2, <2>3, <2>4, SetsOut
<1> QED BY <1>1, <1>5, <1>6, <1>7, <1>8, <1>9, ClientSteps

\* Every step keeps the shapes.
LEMMA NextShaped == Shaped /\ [Next]_vars => Shaped'
<1> SUFFICES ASSUME Shaped, [Next]_vars PROVE Shaped'
    OBVIOUS
<1>1. CASE Writer
    BY <1>1, WriterTyped, WriterShaped DEF Shaped
<1>2. CASE Client
    BY <1>2, ClientTyped, ClientShaped DEF Shaped
<1>3. CASE Others
  <2>1. /\ UNCHANGED <<crs, table, wr>> /\ hist' \in HistoryType /\ hist'.link = hist.link
        /\ DOMAIN db' \subseteq 1..hist'.issued
        /\ \A id \in DOMAIN db' : db'[id] \in Values
        /\ Allowed(db)'
      BY <1>3, OthersTouch DEF Shaped
  <2>2. Typed'
      BY <2>1 DEF Shaped, Typed
  <2>3. AtRow' /\ Linked'
      BY <2>1 DEF Shaped, AtRow, Linked, Created, Here
  <2> QED BY <2>2, <2>3 DEF Shaped
<1>4. CASE UNCHANGED vars
  <2>1. UNCHANGED <<crs, table, db, wr, hist>>
      BY <1>4 DEF vars
  <2> QED BY <2>1 DEF Shaped, Typed, AtRow, Linked, Created, Here, Allowed
<1> QED BY <1>1, <1>2, <1>3, <1>4 DEF Next

\* Shapes of all states, however many rows and records there are.
THEOREM ShapedInvariant == Spec => []Shaped
<1>1. Init => Shaped
    BY InitShaped
<1>2. Shaped /\ [Next]_vars => Shaped'
    BY NextShaped
<1> QED BY <1>1, <1>2, PTL DEF Spec

(* TypeOK holds for all constants: the history keeps pace with the row    *)
(* set, the rows in conflict still wait or are gone, and between two calls *)
(* only rows still to be inserted have no record (CachedRowSetWriter.java).*)
THEOREM TypeCorrect == Spec => []TypeOK
<1>1. Shaped => TypeOK
  <2> SUFFICES ASSUME Shaped PROVE TypeOK
      OBVIOUS
  <2>1. crs \in Cache /\ table \in Tables /\ Allowed(db) /\ Len(hist.link) = NumRows(crs)
      BY DEF Shaped, Typed, Formed
  <2>2. DOMAIN db \subseteq 1..hist.issued /\ \A id \in DOMAIN db : db[id] \in Values
      BY DEF Shaped, Typed
  <2>3. wr.pc \in {"idle", "check", "write", "keys", "accept", "resolve"}
      BY DEF Shaped, Typed, WriterType
  <2>4. /\ wr.pc \in {"check", "write", "keys"} <=> wr.row # 0
        /\ wr.row # 0 => wr.row \in Pending(crs)
        /\ \A i \in wr.failed : i \in Pending(crs) \/ i > NumRows(crs)
      BY DEF Shaped, AtRow
  <2>5. \A i \in 1..NumRows(crs) : hist.link[i] = 0 => "created" \in crs.rvh[i].flags
      BY DEF Shaped, Linked, Created
  <2> QED BY <2>1, <2>2, <2>3, <2>4, <2>5 DEF TypeOK
<1> QED BY <1>1, ShapedInvariant, PTL
----------------------------------------------------------------------------
(* No record is changed that the client has not seen as it is. *)

\* The record behind a statement about to run is as the SELECT found it, or
\* another session has written it since.
Guarded ==
    wr.pc = "write" /\ Kind(Here) # "insert" =>
        \A id \in Matches(Here) :
            \/ db[id] = Here.orig
            \/ table.pk /\ id \in hist.window
            \/ table.pk /\ Kind(Here) = "delete" /\ ~IsModified(Here, db[id])

\* Without a primary key a row matches the records it is equal to.
LEMMA MatchesAreEqual ==
    ASSUME Typed, AtRow, wr.row # 0, ~table.pk, NEW id \in Matches(Here)
    PROVE  db[id] = Here.orig
<1>1. db[id] \in Values /\ Here.orig \in Values
    BY HereIsRow DEF Matches, Typed, Row
<1>2. \A k \in Column : db[id][k] = Here.orig[k]
    BY DEF Matches, KeyColumns
<1> QED BY <1>1, <1>2 DEF Values

\* On its way the writer stops before a statement only when it is an INSERT.
LEMMA ArrivedAtInsert ==
    ASSUME NEW c, NEW w, NEW f, NEW d, Arrived(c, w, f, d), d.pc = "write"
    PROVE  d.row \in Pending(c) /\ Kind(c.rvh[d.row]) = "insert"
<1>1. CASE d.pc = IF f = {} THEN "accept" ELSE "resolve"
    BY <1>1
<1>2. CASE d.row \in Pending(c) /\ d.pc = IF Kind(c.rvh[d.row]) = "insert" THEN "write" ELSE "check"
    BY <1>2
<1> QED BY <1>1, <1>2 DEF Arrived

\* CheckRow checks.
LEMMA CheckGuards ==
    ASSUME Shaped, CheckRow
    PROVE  Guarded'
<1>1. /\ wr.row # 0 /\ UNCHANGED <<crs, table, db>> /\ Checked(Here) /\ wr'.row = wr.row
    BY DEF CheckRow, Shaped, Typed, AtRow, WriterType
<1>2. Here' = Here /\ Matches(Here)' = Matches(Here)
    BY <1>1 DEF Here, Matches, KeyColumns
<1>3. \A id \in Matches(Here) :
            \/ db[id] = Here.orig
            \/ Kind(Here) = "delete" /\ ~IsModified(Here, db[id])
    BY <1>1 DEF Checked, UpdateChecked, DeleteChecked
<1>4. \A id \in Matches(Here) : ~table.pk => db[id] = Here.orig
    BY <1>1, MatchesAreEqual DEF Shaped
<1> SUFFICES ASSUME NEW id \in Matches(Here)
             PROVE  \/ db[id] = Here.orig
                    \/ table.pk /\ Kind(Here) = "delete" /\ ~IsModified(Here, db[id])
  <2>1. table' = table /\ db' = db
      BY <1>1
  <2> QED BY <1>2, <2>1 DEF Guarded, IsModified
<1> QED BY <1>3, <1>4

\* What others write since is in the window.
LEMMA OthersGuard ==
    ASSUME Shaped, Guarded, Others
    PROVE  Guarded'
<1>1. /\ UNCHANGED <<crs, table, wr>>
      /\ hist.window \subseteq hist'.window
      /\ \A id : id \notin hist'.window =>
            /\ id \in DOMAIN db' <=> id \in DOMAIN db
            /\ id \in DOMAIN db => db'[id] = db[id]
    BY OthersTouch DEF Shaped
<1>2. Typed' /\ AtRow'
    BY NextShaped DEF Shaped, Next
<1>3. Here' = Here /\ KeyColumns' = KeyColumns /\ table' = table /\ wr' = wr
    BY <1>1 DEF Here, KeyColumns
<1> SUFFICES ASSUME wr.pc = "write", Kind(Here) # "insert", NEW id \in Matches(Here)'
             PROVE  \/ db'[id] = Here.orig
                    \/ table.pk /\ id \in hist'.window
                    \/ table.pk /\ Kind(Here) = "delete" /\ ~IsModified(Here, db'[id])
    BY <1>3 DEF Guarded, IsModified
<1>4. CASE ~table.pk
  <2>1. Typed' /\ AtRow' /\ wr'.row # 0 /\ ~table'.pk
      BY <1>2, <1>3, <1>4 DEF Shaped, AtRow
  <2>2. (db[id] = Here.orig)'
    <3>1. db'[id] \in Values /\ Here.orig \in Values
      <4>1. id \in DOMAIN db'
          BY DEF Matches
      <4>2. Here \in Row
          BY HereIsRow DEF Shaped, AtRow
      <4> QED BY <1>2, <4>1, <4>2 DEF Typed, Row
    <3>2. \A k \in Column : db'[id][k] = Here.orig[k]
        BY <1>3, <1>4 DEF Matches, KeyColumns
    <3>3. db'[id] = Here.orig
        BY <3>1, <3>2 DEF Values
    <3> QED BY <1>3, <3>3
  <2> QED BY <1>3, <2>2
<1>5. CASE table.pk /\ id \notin hist'.window
  <2>1. id \in DOMAIN db' /\ \A k \in KeyColumns : db'[id][k] = Here.orig[k]
      BY <1>3 DEF Matches
  <2>2. id \in DOMAIN db /\ db'[id] = db[id] /\ id \notin hist.window
      BY <1>1, <1>5, <2>1
  <2>3. id \in Matches(Here)
      BY <2>1, <2>2 DEF Matches
  <2> QED BY <2>2, <2>3 DEF Guarded
<1> QED BY <1>4, <1>5

\* Every step keeps the guard.
LEMMA NextGuarded == Shaped /\ Guarded /\ [Next]_vars => Guarded'
<1> SUFFICES ASSUME Shaped, Guarded, [Next]_vars PROVE Guarded'
    OBVIOUS
<1>1. /\ Formed(crs) /\ wr \in WriterType /\ Idle.pc = "idle" /\ Typed
    BY DEF Shaped, Typed, Idle
<1>2. ASSUME NEW w, NEW f, Arrived(crs, w, f, wr'), SameMarks(crs, crs')
      PROVE  Guarded'
  <2>1. wr'.pc = "write" => wr'.row \in Pending(crs) /\ Kind(crs.rvh[wr'.row]) = "insert"
      BY <1>2, ArrivedAtInsert
  <2>2. \A i \in Pending(crs) : Kind(crs'.rvh[i]) = Kind(crs.rvh[i])
      BY <1>2, SameMarksWait DEF Pending
  <2>3. Here' = crs'.rvh[wr'.row]
      BY DEF Here
  <2> QED BY <2>1, <2>2, <2>3 DEF Guarded
<1>3. ASSUME wr'.pc # "write"
      PROVE  Guarded'
    BY <1>3 DEF Guarded
<1>4. CASE CheckRow
    BY <1>4, CheckGuards
<1>5. CASE RefuseRow \/ FailStatement \/ WriteRow
  <2>1. (Refuse \/ Proceed) /\ crs' = crs
      BY <1>5 DEF RefuseRow, FailStatement, WriteRow
  <2>2. SameMarks(crs, crs')
      BY <2>1, SameRowsMarks
  <2>3. \E f : Arrived(crs, wr, f, wr')
      BY <1>1, <2>1, RefuseArrives, ProceedArrives
  <2> QED BY <1>2, <2>2, <2>3
<1>6. CASE InsertRecord
  <2>1. CASE Proceed
    <3>1. Arrived(crs, wr, wr.failed, wr') /\ SameMarks(crs, crs')
        BY <1>1, <1>6, <2>1, ProceedArrives, SameRowsMarks DEF InsertRecord
    <3> QED BY <1>2, <3>1
  <2>2. CASE wr' = [wr EXCEPT !.pc = "keys"]
    <3>1. wr'.pc = "keys"
        BY <1>1, <2>2 DEF WriterType
    <3> QED BY <1>3, <3>1
  <2> QED BY <1>6, <2>1, <2>2 DEF InsertRecord
<1>7. CASE FetchKeys
  <2>1. wr.row # 0 /\ Arrived(crs, wr, wr.failed, wr')
      BY <1>1, <1>7, ProceedArrives DEF FetchKeys, Shaped, AtRow
  <2>2. SameMarks(crs, crs')
      BY <1>7, FetchKeepsMarks
  <2> QED BY <1>2, <2>1, <2>2
<1>8. CASE FinishAccept \/ EndResolve
  <2>1. wr' = Idle
      BY <1>8 DEF FinishAccept, EndResolve, Return
  <2> QED BY <1>1, <1>3, <2>1
<1>9. CASE ResolveRow
  <2>1. wr'.pc = "resolve"
      BY <1>1, <1>9 DEF ResolveRow, WriterType
  <2> QED BY <1>3, <2>1
<1>10. CASE Client
  <2>1. ASSUME Arrived(crs', Idle, {}, wr')
        PROVE  Guarded'
    <3>1. wr'.pc = "write" => Kind(crs'.rvh[wr'.row]) = "insert"
        BY <2>1, ArrivedAtInsert
    <3> QED BY <3>1 DEF Guarded, Here
  <2>2. ASSUME NEW n \in Int, DeleteAt(n)
        PROVE  Guarded'
      BY <1>1, <2>1, <2>2, DeleteEdits
  <2>3. ASSUME NEW n \in Int, NEW col \in Column, NEW val \in Writable, UpdateAt(n, col, val)
        PROVE  Guarded'
      BY <1>1, <2>1, <2>3, UpdateEdits
  <2>4. CASE AcceptInserts
    <3>1. Start(crs, TRUE)
        BY <2>4 DEF AcceptInserts
    <3>2. crs' = crs /\ Arrived(crs, Idle, {}, wr')
        BY <1>1, <3>1, StartArrives
    <3>3. Arrived(crs', Idle, {}, wr')
        BY <3>2
    <3> QED BY <2>1, <3>3
  <2>5. CASE (\E n \in Int : Browse(n)) \/ (\E vals \in Values : AddRow(vals))
    <3>1. wr' = Idle
        BY <2>5 DEF Browse, AddRow
    <3> QED BY <1>1, <1>3, <3>1
  <2> QED BY <1>1, <1>10, <2>2, <2>3, <2>4, <2>5, ClientSteps
<1>11. CASE Others
    BY <1>11, OthersGuard
<1>12. CASE UNCHANGED vars
  <2>1. UNCHANGED <<crs, table, db, wr, hist>>
      BY <1>12 DEF vars
  <2> QED BY <2>1 DEF Guarded, Here, Matches, KeyColumns, IsModified
<1> QED BY <1>4, <1>5, <1>6, <1>7, <1>8, <1>9, <1>10, <1>11, <1>12 DEF Next, Writer

(* NoLostUpdate holds for all constants: whatever the other sessions do    *)
(* between two statements, an UPDATE or DELETE of TableWriter.java changes *)
(* no record the client has not seen as it is, but in the ways named.      *)
THEOREM NoLostUpdateHolds == Spec => NoLostUpdate
<1> DEFINE Unseen == WriteRow => \A id \in DOMAIN db :
                        \/ id \in DOMAIN db' /\ db'[id] = db[id]
                        \/ db[id] = Here.orig
                        \/ table.pk /\ id \in hist.window
                        \/ table.pk /\ Kind(Here) = "delete" /\ ~IsModified(Here, db[id])
<1>1. Init => Shaped /\ Guarded
  <2>1. Init => wr.pc = "idle"
      BY DEF Init, Idle
  <2> QED BY <2>1, InitShaped DEF Guarded
<1>2. Shaped /\ Guarded /\ [Next]_vars => Shaped' /\ Guarded'
    BY NextShaped, NextGuarded
<1>3. Shaped /\ Guarded => [Unseen]_vars
  <2> SUFFICES ASSUME Shaped, Guarded, WriteRow, NEW id \in DOMAIN db
               PROVE  \/ id \in DOMAIN db' /\ db'[id] = db[id]
                      \/ db[id] = Here.orig
                      \/ table.pk /\ id \in hist.window
                      \/ table.pk /\ Kind(Here) = "delete" /\ ~IsModified(Here, db[id])
      OBVIOUS
  <2>1. wr.row # 0 /\ wr.pc = "write" /\ Kind(Here) # "insert" /\ db' = Written(Here, NoValues)
      BY DEF WriteRow, Shaped, AtRow
  <2>2. CASE id \in Matches(Here)
      BY <2>1, <2>2 DEF Guarded
  <2>3. CASE id \notin Matches(Here)
    <3>1. Kind(Here) = "delete" \/ Kind(Here) = "update"
        BY <2>1 DEF Kind
    <3>2. CASE Kind(Here) = "delete"
        BY <2>1, <2>3, <3>2 DEF Written
    <3>3. CASE Kind(Here) = "update"
        BY <2>1, <2>3, <3>3 DEF Written
    <3> QED BY <3>1, <3>2, <3>3
  <2> QED BY <2>2, <2>3
<1> QED BY <1>1, <1>2, <1>3, PTL DEF Spec, NoLostUpdate
----------------------------------------------------------------------------
(* One edit at a time. *)

\* When one edit waits at most, it is the new row at the end or the row of
\* this call; a row in conflict is the only one that waits.
Single ==
    /\ \A i \in 1..NumRows(crs) : Created(i) => i = NumRows(crs)
    /\ \A i \in 1..NumRows(crs) : "removed" \in crs.rvh[i].flags => "updated" \notin crs.rvh[i].flags
    /\ \A i, j \in Pending(crs) : i = j
    /\ wr.row # 0 => wr.failed = {}
    /\ wr.pc = "resolve" => Pending(crs) \subseteq wr.failed
    /\ wr.pc = "idle" => \A i \in Pending(crs) : Created(i) /\ hist.link[i] = 0

\* The rows that wait are finitely many.
LEMMA PendingFinite ==
    ASSUME NEW c, Formed(c)
    PROVE  IsFiniteSet(Pending(c))
<1>1. NumRows(c) \in Nat /\ IsFiniteSet(1..NumRows(c))
    BY RowsOfCache, FS_Interval
<1>2. Pending(c) \subseteq 1..NumRows(c)
    BY DEF Pending
<1> QED BY <1>1, <1>2, FS_Subset

\* A set with one element at most.
LEMMA AtMostOne ==
    ASSUME NEW S, IsFiniteSet(S), Cardinality(S) <= 1
    PROVE  \A a, b \in S : a = b
<1> SUFFICES ASSUME NEW a \in S, NEW b \in S, a # b PROVE FALSE
    OBVIOUS
<1>1. Cardinality(S) \in Nat /\ IsFiniteSet(S \ {a}) /\ Cardinality(S \ {a}) = Cardinality(S) - 1
    BY FS_CardinalityType, FS_RemoveElement
<1>2. Cardinality(S \ {a}) \in Nat
    BY <1>1, FS_CardinalityType
<1>3. Cardinality(S \ {a}) = 0
    BY <1>1, <1>2
<1>4. S \ {a} = {}
    BY <1>1, <1>3, FS_EmptySet
<1> QED BY <1>4

\* With the row an edit goes to, no other waits.
LEMMA OnlyThatWaits ==
    ASSUME Typed, MaxPending = 1, NEW p, Cardinality(Pending(crs) \cup {p}) <= MaxPending
    PROVE  Pending(crs) \subseteq {p}
<1>1. IsFiniteSet(Pending(crs))
    BY PendingFinite DEF Typed
<1>2. IsFiniteSet(Pending(crs) \cup {p})
    BY <1>1, FS_AddElement
<1>3. \A a, b \in Pending(crs) \cup {p} : a = b
    BY <1>2, AtMostOne
<1> QED BY <1>3

\* Before a row is added none waits.
LEMMA NoneWaits ==
    ASSUME Typed, MaxPending = 1, Cardinality(Pending(crs)) < MaxPending
    PROVE  Pending(crs) = {}
<1>1. IsFiniteSet(Pending(crs))
    BY PendingFinite DEF Typed
<1>2. Cardinality(Pending(crs)) \in Nat
    BY <1>1, FS_CardinalityType
<1>3. Cardinality(Pending(crs)) = 0
    BY <1>2
<1> QED BY <1>1, <1>3, FS_EmptySet

\* From the only row that waits the writer goes to the end.
LEMMA SingleEnds ==
    ASSUME Shaped, Single, wr.row # 0,
           NEW f, f = wr.failed \/ f = wr.failed \cup {wr.row}, Arrived(crs, wr, f, wr')
    PROVE  /\ wr'.row = 0 /\ wr'.failed = f /\ Pending(crs) = {wr.row}
           /\ f = {} \/ f = {wr.row}
           /\ wr'.pc = IF f = {} THEN "accept" ELSE "resolve"
<1>1. wr.row \in Pending(crs) /\ wr.row \in Nat /\ wr.failed = {}
    BY DEF Shaped, Typed, AtRow, Single, WriterType
<1>2. Pending(crs) = {wr.row}
    BY <1>1 DEF Single
<1>3. ~(wr'.row \in Pending(crs) /\ wr'.row > wr.row)
    BY <1>1, <1>2
<1> QED BY <1>1, <1>2, <1>3 DEF Arrived

\* The end of a call with no row left waiting.
LEMMA NoneLeft ==
    ASSUME wr' = Idle, \A i \in 1..NumRows(crs') : crs'.rvh[i].flags \cap {"removed", "created", "updated"} = {}
    PROVE  Single'
<1>1. Pending(crs)' = {} /\ NumRows(crs)' = NumRows(crs')
    BY DEF Pending, NumRows
<1>2. wr'.row = 0 /\ wr'.pc = "idle"
    BY DEF Idle
<1> QED BY <1>1, <1>2 DEF Single, Created

\* The writer keeps to its one row.
LEMMA WriterSingle ==
    ASSUME Shaped, Single, Writer
    PROVE  Single'
<1>1. /\ Formed(crs) /\ ~crs.onInsertRow /\ wr \in WriterType /\ hist \in HistoryType
      /\ NumRows(crs) \in Nat /\ \A i \in 1..NumRows(crs) : crs.rvh[i] \in Row
    BY RowsOfCache DEF Shaped, Typed
<1>2. ASSUME wr.row # 0, SameMarks(crs, crs'), NEW f,
             f = wr.failed \/ f = wr.failed \cup {wr.row}, Arrived(crs, wr, f, wr')
      PROVE  Single'
  <2>1. /\ wr'.row = 0 /\ wr'.failed = f /\ Pending(crs) = {wr.row}
        /\ f = {} \/ f = {wr.row}
        /\ wr'.pc = IF f = {} THEN "accept" ELSE "resolve"
      BY <1>2, SingleEnds
  <2>2. Pending(crs)' = Pending(crs) /\ NumRows(crs)' = NumRows(crs)
        /\ \A i \in 1..NumRows(crs) : crs'.rvh[i].flags = crs.rvh[i].flags
      BY <1>2, SameMarksWait DEF SameMarks, Pending, NumRows
  <2> QED BY <2>1, <2>2 DEF Single, Created
<1>3. CASE CheckRow
  <2>1. crs' = crs /\ wr'.failed = wr.failed /\ wr'.row = wr.row /\ wr'.pc = "write" /\ wr.row # 0
      BY <1>1, <1>3 DEF CheckRow, WriterType, Shaped, AtRow
  <2> QED BY <2>1 DEF Single, Created
<1>4. CASE RefuseRow \/ FailStatement \/ WriteRow
  <2>1. (Refuse \/ Proceed) /\ crs' = crs /\ wr.row # 0
      BY <1>4 DEF RefuseRow, FailStatement, WriteRow, Shaped, AtRow
  <2>2. SameMarks(crs, crs')
      BY <2>1, SameRowsMarks
  <2>3. \E f : (f = wr.failed \/ f = wr.failed \cup {wr.row}) /\ Arrived(crs, wr, f, wr')
      BY <1>1, <2>1, RefuseArrives, ProceedArrives
  <2> QED BY <1>2, <2>1, <2>2, <2>3
<1>5. CASE InsertRecord
  <2>1. wr.row # 0 /\ crs' = crs
      BY <1>5 DEF InsertRecord, Shaped, AtRow
  <2>2. CASE Proceed
    <3>1. Arrived(crs, wr, wr.failed, wr') /\ SameMarks(crs, crs')
        BY <1>1, <2>1, <2>2, ProceedArrives, SameRowsMarks
    <3> QED BY <1>2, <2>1, <3>1
  <2>3. CASE wr' = [wr EXCEPT !.pc = "keys"]
    <3>1. wr'.pc = "keys" /\ wr'.row = wr.row /\ wr'.failed = wr.failed
        BY <1>1, <2>3 DEF WriterType
    <3> QED BY <2>1, <3>1 DEF Single, Created
  <2> QED BY <1>5, <2>2, <2>3 DEF InsertRecord
<1>6. CASE FetchKeys
  <2>1. wr.row # 0 /\ Arrived(crs, wr, wr.failed, wr')
      BY <1>1, <1>6, ProceedArrives DEF FetchKeys, Shaped, AtRow
  <2>2. SameMarks(crs, crs')
      BY <1>6, FetchKeepsMarks
  <2> QED BY <1>2, <2>1, <2>2
<1>7. CASE FinishAccept
  <2>1. PICK c : c = SetOriginal(crs)
      OBVIOUS
  <2>2. /\ Formed(c) /\ ~c.onInsertRow /\ NumRows(c) = NumRows(crs)
        /\ \A i \in 1..NumRows(crs) : c.rvh[i] = MakeRowOriginal(crs.rvh[i])
      BY <1>1, <2>1, OriginalRows
  <2>3. wr' = Idle /\ (crs' = Last(c) \/ crs' = c)
      BY <1>7, <2>1 DEF FinishAccept, Return
  <2>4. crs'.rvh = c.rvh
      BY <2>2, <2>3, LastKeeps
  <2>5. \A i \in 1..NumRows(crs') : crs'.rvh[i].flags \cap {"removed", "created", "updated"} = {}
      BY <1>1, <2>2, <2>4, OriginalFlags DEF NumRows
  <2> QED BY <2>3, <2>5, NoneLeft
<1>8. CASE EndResolve
  <2>1. PICK c : c = CloseResolver(crs)
      OBVIOUS
  <2>2. Formed(c) /\ ~c.onInsertRow /\ c.rvh = crs.rvh
      BY <1>1, <2>1, CloseKeeps
  <2>3. wr' = Idle /\ (crs' = Last(c) \/ crs' = c)
      BY <1>8, <2>1 DEF EndResolve, Return
  <2>4. crs'.rvh = crs.rvh
      BY <2>2, <2>3, LastKeeps
  <2>5. \A i \in 1..NumRows(crs) : i \notin Pending(crs)
      BY <1>1, <1>8 DEF EndResolve, Single
  <2>6. \A i \in 1..NumRows(crs') : crs'.rvh[i].flags \cap {"removed", "created", "updated"} = {}
      BY <2>4, <2>5 DEF Pending, NumRows
  <2> QED BY <2>3, <2>6, NoneLeft
<1>9. CASE ResolveRow
  <2>1. PICK m \in Pending(crs) :
              /\ m \in wr.failed /\ m \in 1..NumRows(crs)
              /\ wr' = [wr EXCEPT !.failed = wr.failed \ {m}]
              /\ hist' = [hist EXCEPT !.link = SubSeq(hist.link, 1, NumRows(crs)')]
              /\ UNCHANGED <<table, db>>
              /\ \/ Kind(crs.rvh[m]) = "insert" /\ Shortens(crs, crs')
                 \/ /\ Kind(crs.rvh[m]) = "update"
                    /\ Changes(crs, crs', m, ClearUpdated(crs.rvh[m]))
                 \/ /\ Kind(crs.rvh[m]) = "delete"
                    /\ Changes(crs, crs', m, [crs.rvh[m] EXCEPT !.flags = @ \ {"removed"}])
      BY <1>9, ResolveUndoes DEF Shaped
  <2>2. wr'.pc = "resolve" /\ wr'.row = 0
    <3>1. wr.pc = "resolve" /\ wr.row = 0
        BY <1>9 DEF ResolveRow, Shaped, AtRow
    <3> QED BY <1>1, <2>1, <3>1 DEF WriterType
  <2>3. \A i \in 1..NumRows(crs) : i \in Pending(crs) <=> i = m
      BY <2>1 DEF Single
  <2>4. ASSUME \A i \in 1..NumRows(crs') :
                  crs'.rvh[i].flags \cap {"removed", "created", "updated"} = {}
        PROVE  Single'
    <3>1. Pending(crs)' = {} /\ NumRows(crs)' = NumRows(crs')
        BY <2>4 DEF Pending, NumRows
    <3> QED BY <2>2, <2>4, <3>1 DEF Single, Created
  <2>5. CASE Kind(crs.rvh[m]) = "insert" /\ Shortens(crs, crs')
    <3>1. /\ NumRows(crs') \in Nat
          /\ \A i : i \in Pending(crs') <=> i \in Pending(crs) /\ i # NumRows(crs)
        BY <1>1, <2>5, ShortensWaits
    <3>2. m = NumRows(crs)
      <4>1. Created(m)
          BY <2>1, <2>5 DEF Kind, Created
      <4> QED BY <2>1, <4>1 DEF Single
    <3>3. Pending(crs') = {}
        BY <2>1, <3>1, <3>2 DEF Single
    <3> QED BY <2>4, <3>3 DEF Pending
  <2>6. ASSUME NEW row, Changes(crs, crs', m, row),
               row.flags \cap {"removed", "created", "updated"} = {}
        PROVE  Single'
    <3>1. \A i : i # m => (i \in Pending(crs') <=> i \in Pending(crs))
        BY <2>6, ChangesWait
    <3>2. m \notin Pending(crs')
        BY <2>1, <2>6 DEF Changes, Pending
    <3>3. Pending(crs') = {}
        BY <2>1, <3>1, <3>2 DEF Single
    <3> QED BY <2>4, <3>3 DEF Pending
  <2>7. CASE Kind(crs.rvh[m]) = "update" /\ Changes(crs, crs', m, ClearUpdated(crs.rvh[m]))
    <3>1. ClearUpdated(crs.rvh[m]).flags = crs.rvh[m].flags \ {"updated"}
        BY <1>1, <2>1, ClearedRow
    <3>2. "removed" \notin crs.rvh[m].flags /\ "created" \notin crs.rvh[m].flags
        BY <2>7 DEF Kind
    <3> QED BY <2>6, <2>7, <3>1, <3>2
  <2>8. CASE /\ Kind(crs.rvh[m]) = "delete"
             /\ Changes(crs, crs', m, [crs.rvh[m] EXCEPT !.flags = @ \ {"removed"}])
    <3>1. PICK row : row = [crs.rvh[m] EXCEPT !.flags = @ \ {"removed"}]
        OBVIOUS
    <3>2. row.flags = crs.rvh[m].flags \ {"removed"}
        BY <1>1, <2>1, <3>1 DEF Row
    <3>3. Changes(crs, crs', m, row)
        BY <2>8, <3>1
    <3>4. "removed" \in crs.rvh[m].flags
        BY <2>8 DEF Kind
    <3>5. "created" \notin crs.rvh[m].flags /\ "updated" \notin crs.rvh[m].flags
        BY <2>1, <3>4 DEF Shaped, Linked, Created, Single
    <3> QED BY <2>6, <3>2, <3>3, <3>5
  <2> QED BY <2>1, <2>5, <2>7, <2>8
<1> QED BY <1>3, <1>4, <1>5, <1>6, <1>7, <1>8, <1>9 DEF Writer
\* The client waits with one row at most.
LEMMA ClientSingle ==
    ASSUME MaxPending = 1, Shaped, Single, Client
    PROVE  Single'
<1>1. /\ Formed(crs) /\ ~crs.onInsertRow /\ wr \in WriterType /\ hist \in HistoryType
      /\ Len(hist.link) = NumRows(crs) /\ Typed
      /\ NumRows(crs) \in Nat /\ \A i \in 1..NumRows(crs) : crs.rvh[i] \in Row
    BY RowsOfCache DEF Shaped, Typed
<1>2. Idle.pc = "idle" /\ Idle.row = 0 /\ Idle.failed = {}
    BY DEF Idle
<1>3. \A i \in 1..NumRows(crs) : Created(i) => "removed" \notin crs.rvh[i].flags /\ i \in Pending(crs)
    BY DEF Shaped, Linked, Created, Pending
<1>4. ASSUME NEW w, NEW f, f = {}, Arrived(crs', w, f, wr')
      PROVE  wr'.pc \notin {"idle", "resolve"} /\ wr'.failed = {}
    BY <1>4 DEF Arrived
<1>5. ASSUME wr = Idle, NEW p \in 1..NumRows(crs), NEW row,
             Cardinality(Pending(crs) \cup {p}) <= MaxPending,
             Changes(crs, crs', p, row), Arrived(crs', Idle, {}, wr'),
             "created" \in row.flags <=> "created" \in crs.rvh[p].flags,
             "removed" \in row.flags => "updated" \notin row.flags
      PROVE  Single'
  <2>1. wr'.pc \notin {"idle", "resolve"} /\ wr'.failed = {}
      BY <1>4, <1>5
  <2>2. Pending(crs) \subseteq {p}
      BY <1>1, <1>5, OnlyThatWaits
  <2>3. Pending(crs') \subseteq {p}
      BY <1>5, <2>2, ChangesWait
  <2>4. Pending(crs)' = Pending(crs') /\ NumRows(crs)' = NumRows(crs)
        /\ \A i \in 1..NumRows(crs) : crs'.rvh[i] = IF i = p THEN row ELSE crs.rvh[i]
      BY <1>5 DEF Changes, Pending, NumRows
  <2>5. \A i \in 1..NumRows(crs) : "created" \in crs'.rvh[i].flags <=> "created" \in crs.rvh[i].flags
      BY <1>5, <2>4
  <2>6. \A i \in 1..NumRows(crs) :
              "removed" \in crs'.rvh[i].flags => "updated" \notin crs'.rvh[i].flags
      BY <1>5, <2>4 DEF Single
  <2> QED BY <2>1, <2>3, <2>4, <2>5, <2>6 DEF Single, Created
<1>6. ASSUME NEW n \in Int, DeleteAt(n)
      PROVE  Single'
  <2>1. /\ wr = Idle /\ Arrived(crs', Idle, {}, wr')
        /\ \E p \in 1..NumRows(crs) :
                 /\ crs.rvh[p].flags \cap {"deleted", "created", "removed"} = {}
                 /\ Cardinality(Pending(crs) \cup {p}) <= MaxPending
                 /\ Changes(crs, crs', p, [crs.rvh[p] EXCEPT !.flags = @ \cup {"removed"}])
      BY <1>1, <1>6, DeleteEdits
  <2>2. PICK p \in 1..NumRows(crs) :
                 /\ crs.rvh[p].flags \cap {"deleted", "created", "removed"} = {}
                 /\ Cardinality(Pending(crs) \cup {p}) <= MaxPending
                 /\ Changes(crs, crs', p, [crs.rvh[p] EXCEPT !.flags = @ \cup {"removed"}])
      BY <2>1
  <2>3. PICK row : row = [crs.rvh[p] EXCEPT !.flags = @ \cup {"removed"}]
      OBVIOUS
  <2>4. row.flags = crs.rvh[p].flags \cup {"removed"}
      BY <1>1, <2>3 DEF Row
  <2>5. Changes(crs, crs', p, row)
      BY <2>2, <2>3
  <2>6. p \notin Pending(crs)
      BY <1>2, <2>1, <2>2 DEF Single, Created
  <2>7. "created" \notin row.flags /\ "updated" \notin row.flags /\ "created" \notin crs.rvh[p].flags
      BY <2>2, <2>4, <2>6 DEF Pending
  <2> QED BY <1>5, <2>1, <2>2, <2>5, <2>7
<1>7. ASSUME NEW n \in Int, NEW col \in Column, NEW val \in Writable, UpdateAt(n, col, val)
      PROVE  Single'
  <2>1. /\ wr = Idle /\ Arrived(crs', Idle, {}, wr')
        /\ \E p \in 1..NumRows(crs) :
                 /\ Cardinality(Pending(crs) \cup {p}) <= MaxPending
                 /\ Changes(crs, crs', p, SetUpdated(SetColumnObject(crs.rvh[p], col, val)))
      BY <1>1, <1>7, UpdateEdits
  <2>2. PICK p \in 1..NumRows(crs) :
                 /\ Cardinality(Pending(crs) \cup {p}) <= MaxPending
                 /\ Changes(crs, crs', p, SetUpdated(SetColumnObject(crs.rvh[p], col, val)))
      BY <2>1
  <2>3. PICK row : row = SetUpdated(SetColumnObject(crs.rvh[p], col, val))
      OBVIOUS
  <2>4. row.flags = crs.rvh[p].flags \cup {"updated"}
    <3>1. crs.rvh[p] \in Row /\ val \in Datum
        BY <1>1, WritableAssumption
    <3> QED BY <2>3, <3>1, UpdatedRow
  <2>5. Changes(crs, crs', p, row)
      BY <2>2, <2>3
  <2>6. "removed" \notin crs.rvh[p].flags
    <3>1. p \in Pending(crs) => Created(p)
        BY <1>2, <2>1 DEF Single
    <3> QED BY <1>3, <3>1 DEF Pending
  <2> QED BY <1>5, <2>1, <2>2, <2>4, <2>5, <2>6
<1>8. ASSUME NEW n \in Int, Browse(n)
      PROVE  Single'
  <2>1. crs' = Absolute(crs, n) /\ UNCHANGED <<wr, hist>>
      BY <1>8 DEF Browse
  <2>2. Steers(crs, crs')
      BY <1>1, <2>1, AbsoluteSteers
  <2>3. crs'.rvh = crs.rvh
      BY <2>2 DEF Steers
  <2> QED BY <2>1, <2>3 DEF Single, Created, Pending, NumRows
<1>9. ASSUME NEW vals \in Values, AddRow(vals)
      PROVE  Single'
  <2>1. /\ wr' = Idle
        /\ hist' = [hist EXCEPT !.link = Append(hist.link, 0)]
        /\ Extends(crs, crs', [NewRow(vals) EXCEPT !.flags = {"created"}])
        /\ Cardinality(Pending(crs)) < MaxPending
      BY <1>1, <1>9, AddAdds
  <2>2. PICK row : row = [NewRow(vals) EXCEPT !.flags = {"created"}]
      OBVIOUS
  <2>3. row.flags = {"created"}
      BY <2>2 DEF NewRow
  <2>4. Pending(crs) = {}
      BY <1>1, <2>1, NoneWaits
  <2>5. \A i \in 1..NumRows(crs) : crs.rvh[i].flags \cap {"removed", "created", "updated"} = {}
      BY <2>4 DEF Pending
  <2>6. /\ NumRows(crs)' = NumRows(crs) + 1
        /\ \A i \in 1..(NumRows(crs) + 1) :
              crs'.rvh[i] = IF i = NumRows(crs) + 1 THEN row ELSE crs.rvh[i]
      BY <2>1, <2>2 DEF Extends, NumRows
  <2>7. \A i \in 1..(NumRows(crs) + 1) :
              \/ i \in 1..NumRows(crs)
                 /\ crs'.rvh[i].flags \cap {"removed", "created", "updated"} = {}
              \/ i = NumRows(crs) + 1 /\ crs'.rvh[i].flags = {"created"}
    <3>1. \A i \in 1..(NumRows(crs) + 1) : i \in 1..NumRows(crs) \/ i = NumRows(crs) + 1
        BY <1>1
    <3> QED BY <1>1, <2>3, <2>5, <2>6, <3>1
  <2>8. hist'.link[NumRows(crs) + 1] = 0
    <3>1. hist'.link = Append(hist.link, 0) /\ hist.link \in Seq(Nat)
        BY <1>1, <2>1 DEF HistoryType
    <3> QED BY <1>1, <3>1
  <2>9. \A i \in Pending(crs)' : i = NumRows(crs) + 1 /\ crs'.rvh[i].flags = {"created"}
      BY <2>6, <2>7 DEF Pending, NumRows
  <2>10. \A i \in 1..(NumRows(crs) + 1) :
              /\ "created" \in crs'.rvh[i].flags => i = NumRows(crs) + 1
              /\ "removed" \notin crs'.rvh[i].flags
      BY <2>7
  <2> QED BY <1>2, <2>1, <2>6, <2>8, <2>9, <2>10, ZenonT(30) DEF Single, Created
<1>10. CASE AcceptInserts
  <2>1. Start(crs, TRUE)
      BY <1>10 DEF AcceptInserts
  <2>2. crs' = crs /\ Arrived(crs, Idle, {}, wr')
      BY <1>1, <2>1, StartArrives
  <2>3. wr'.pc \notin {"idle", "resolve"} /\ wr'.failed = {}
      BY <1>4, <2>2
  <2> QED BY <2>2, <2>3 DEF Single, Created
<1> QED BY <1>1, <1>6, <1>7, <1>8, <1>9, <1>10, ClientSteps

\* Every step does.
LEMMA NextSingle == MaxPending = 1 /\ Shaped /\ Single /\ [Next]_vars => Single'
<1> SUFFICES ASSUME MaxPending = 1, Shaped, Single, [Next]_vars PROVE Single'
    OBVIOUS
<1>1. CASE Writer
    BY <1>1, WriterSingle
<1>2. CASE Client
    BY <1>2, ClientSingle
<1>3. CASE Others
  <2>1. UNCHANGED <<crs, wr>> /\ hist'.link = hist.link
      BY <1>3, OthersTouch DEF Shaped
  <2> QED BY <2>1 DEF Single, Created
<1>4. CASE UNCHANGED vars
  <2>1. UNCHANGED <<crs, wr, hist>>
      BY <1>4 DEF vars
  <2> QED BY <2>1 DEF Single, Created
<1> QED BY <1>1, <1>2, <1>3, <1>4 DEF Next

\* At first no row waits.
LEMMA InitSingle == Init => Single
<1> SUFFICES ASSUME Init PROVE Single
    OBVIOUS
<1>1. MaxInit \in Nat
    BY BoundAssumption
<1>2. PICK n \in 0..MaxInit : \E rows \in [1..n -> Values], show \in BOOLEAN : crs = Populate(rows, show)
    BY DEF Init
<1>3. PICK rows \in [1..n -> Values], show \in BOOLEAN : crs = Populate(rows, show)
    BY <1>2
<1>4. n \in Nat
    BY <1>1
<1>5. NumRows(crs) = n /\ \A i \in 1..n : crs.rvh[i] = NewRow(rows[i])
    BY <1>3, <1>4, PopulateRows
<1>6. \A i \in 1..n : crs.rvh[i].flags = {}
  <2>1. \A i \in 1..n : NewRow(rows[i]).flags = {}
      BY DEF NewRow
  <2> QED BY <1>5, <2>1
<1>7. Pending(crs) = {}
    BY <1>5, <1>6 DEF Pending
<1>8. wr.row = 0 /\ wr.failed = {} /\ wr.pc = "idle"
    BY DEF Init, Idle
<1> QED BY <1>5, <1>6, <1>7, <1>8 DEF Single, Created

\* So that one edit at most waits at any time.
LEMMA SingleInvariant == ASSUME MaxPending = 1 PROVE Spec => [](Shaped /\ Single)
<1>1. Init => Shaped /\ Single
    BY InitShaped, InitSingle
<1>2. Shaped /\ Single /\ [Next]_vars => (Shaped /\ Single)'
    BY NextShaped, NextSingle
<1> QED BY <1>1, <1>2, PTL DEF Spec

(* InsertedOnce holds whenever one edit waits at a time, as RowSetBase.java *)
(* writes them: no insert the table has stored is kept to be sent again.   *)
THEOREM InsertedOnceInvariant == ASSUME MaxPending = 1 PROVE Spec => []InsertedOnce
<1>1. Shaped /\ Single => InsertedOnce
  <2> SUFFICES ASSUME Shaped, Single, wr = Idle, NEW i \in 1..NumRows(crs),
                      "created" \in crs.rvh[i].flags
               PROVE  hist.link[i] = 0
      BY DEF InsertedOnce
  <2> QED BY DEF Single, Pending, Idle
<1> QED BY <1>1, SingleInvariant, PTL

(* OnlyInsertsWait holds too: updateRow and deleteRow of RowSetBase.java   *)
(* leave no update or delete behind that was neither written nor undone.   *)
THEOREM OnlyInsertsWaitInvariant == ASSUME MaxPending = 1 PROVE Spec => []OnlyInsertsWait
<1>1. Shaped /\ Single => OnlyInsertsWait
  <2> SUFFICES ASSUME Shaped, Single, wr = Idle, NEW i \in Pending(crs)
               PROVE  Kind(crs.rvh[i]) = "insert"
      BY DEF OnlyInsertsWait
  <2>1. Created(i)
      BY DEF Single, Idle
  <2>2. "removed" \notin crs.rvh[i].flags
      BY <2>1 DEF Shaped, Linked, Pending
  <2> QED BY <2>1, <2>2 DEF Kind, Created
<1> QED BY <1>1, SingleInvariant, PTL

----------------------------------------------------------------------------
(* The row set mirrors the table. *)

Waits(row) == row.flags \cap {"removed", "created", "updated"} # {}

\* The edits of a row that has a record are not NULL and belong to an update; a
\* row that waits is not deleted.
NeatRow(row) ==
    /\ "created" \notin row.flags => \A k \in row.changed : row.curr[k] # NULL
    /\ row.flags \cap {"created", "updated"} = {} => row.changed = {}
    /\ Waits(row) => "deleted" \notin row.flags

\* The values of a row to be inserted are NULL where it has no edit.
Fresh(row) == \A k \in Column : row.curr[k] # NULL <=> k \in row.changed

Neat ==
    \A i \in 1..NumRows(crs) :
        /\ NeatRow(crs.rvh[i])
        /\ Created(i) /\ wr.pc # "accept" => Fresh(crs.rvh[i])

\* No two rows have the same record.
OwnRecord ==
    /\ \A i \in 1..NumRows(crs) : hist.link[i] <= hist.issued
    /\ \A i, j \in 1..NumRows(crs) : hist.link[i] = hist.link[j] /\ hist.link[i] # 0 => i = j

Untouched(i) == hist.link[i] # 0 /\ hist.link[i] \notin hist.touched

Has(d, id, vals) == id \in DOMAIN d /\ d[id] = vals
Same(row, id, d) == IF "deleted" \in row.flags THEN id \notin DOMAIN d ELSE Has(d, id, row.orig)
Sent(row, id, d) == IF "removed" \in row.flags THEN id \notin DOMAIN d ELSE Has(d, id, Shows(row))

\* What the table d holds of the row with the record id: what the row was read
\* with until its statement ran, and what the row shows from then on.
Mirrored(row, id, d, pc, auto) ==
    /\ "created" \notin row.flags /\ (Waits(row) => pc # "accept") => Same(row, id, d)
    /\ "created" \notin row.flags /\ Waits(row) /\ pc = "accept" => Sent(row, id, d)
    /\ "created" \in row.flags /\ pc = "keys" =>
          id \in DOMAIN d /\ \A k \in Column \ auto : d[id][k] = ColumnObject(row, k)
    /\ "created" \in row.flags /\ pc = "accept" => Has(d, id, ClearChanged(row).orig)

Mirror ==
    \A i \in 1..NumRows(crs) :
        Untouched(i) => Mirrored(crs.rvh[i], hist.link[i], db, wr.pc, table.auto)

\* Without a primary key, the SELECT has found one record, and no other session
\* makes a second one like it that does not count as touched.
OneRecord ==
    wr.pc = "write" /\ Kind(Here) # "insert" /\ ~table.pk /\ Untouched(wr.row)
        => Matches(Here) \subseteq {hist.link[wr.row]}

Mirroring == Neat /\ OwnRecord /\ Mirror /\ OneRecord

\* updateXXX with a value keeps a row neat.
LEMMA UpdatedNeat ==
    ASSUME NEW row \in Row, NEW col \in Column, NEW val \in Datum, val # NULL,
           NeatRow(row), "deleted" \notin row.flags
    PROVE  /\ NeatRow(SetUpdated(SetColumnObject(row, col, val)))
           /\ Fresh(row) => Fresh(SetUpdated(SetColumnObject(row, col, val)))
<1>1. PICK r : r = SetUpdated(SetColumnObject(row, col, val))
    OBVIOUS
<1>2. /\ r.flags = row.flags \cup {"updated"} /\ r.changed = row.changed \cup {col}
      /\ r.curr[col] = val /\ \A k \in Column \ {col} : r.curr[k] = row.curr[k]
    BY <1>1, UpdatedRow
<1>3. row.changed \subseteq Column
    BY DEF Row
<1>4. NeatRow(r)
    BY <1>2, <1>3 DEF NeatRow, Waits
<1>5. Fresh(row) => Fresh(r)
    BY <1>2, <1>3 DEF Fresh
<1> QED BY <1>1, <1>4, <1>5

\* A row that does not wait is original already.
LEMMA OriginalOfIdle ==
    ASSUME NEW row \in Row, ~Waits(row)
    PROVE  MakeRowOriginal(row) = row
BY DEF MakeRowOriginal, Waits

\* A removed row keeps its values.
LEMMA OriginalOfRemoved ==
    ASSUME NEW row \in Row, "removed" \in row.flags, row.flags \cap {"created", "updated"} = {}
    PROVE  /\ MakeRowOriginal(row).orig = row.orig
           /\ MakeRowOriginal(row).changed = row.changed
BY DEF MakeRowOriginal, Row

\* An updated row has the values it showed.
LEMMA OriginalOfUpdated ==
    ASSUME NEW row \in Row, "updated" \in row.flags, row.flags \cap {"created", "removed"} = {},
           \A k \in row.changed : row.curr[k] # NULL
    PROVE  /\ MakeRowOriginal(row).orig = Shows(row)
           /\ MakeRowOriginal(row).changed = {}
<1> DEFINE moved == {k \in row.changed : row.curr[k] # NULL}
<1>1. MakeRowOriginal(row) = MoveCurrentToOrig(row)
  <2>1. "removed" \notin MoveCurrentToOrig(row).flags
      BY DEF MoveCurrentToOrig, Row
  <2> QED BY <2>1 DEF MakeRowOriginal
<1>2. moved = row.changed
    OBVIOUS
<1>3. /\ MoveCurrentToOrig(row).orig = [k \in Column |-> IF k \in moved THEN row.curr[k] ELSE row.orig[k]]
      /\ MoveCurrentToOrig(row).changed = {}
    BY DEF MoveCurrentToOrig, Row
<1> QED BY <1>1, <1>2, <1>3 DEF Shows, ColumnObject

\* An inserted row has the values that are not NULL.
LEMMA OriginalOfCreated ==
    ASSUME NEW row \in Row, "created" \in row.flags, "removed" \notin row.flags
    PROVE  /\ MakeRowOriginal(row).orig = ClearChanged(row).orig
           /\ MakeRowOriginal(row).changed = {}
<1>1. PICK c : c = ClearChanged(row)
    OBVIOUS
<1>2. c \in [orig : {c.orig}, curr : {c.curr}, changed : {{}}, flags : {row.flags \ {"updated"}}]
    BY <1>1 DEF ClearChanged, Row
<1>3. PICK b : b = [c EXCEPT !.flags = (c.flags \cup {"inserted"}) \ {"created"}]
    OBVIOUS
<1>4. /\ b.orig = c.orig /\ b.changed = {}
      /\ "updated" \notin b.flags /\ "removed" \notin b.flags
    BY <1>2, <1>3
<1>5. MakeRowOriginal(row) = b
  <2>1. c.flags = row.flags \ {"updated"}
      BY <1>2
  <2> QED BY <1>1, <1>3, <1>4, <2>1 DEF MakeRowOriginal
<1> QED BY <1>1, <1>4, <1>5

\* ClearChanged gives a fresh row the values it shows.
LEMMA ClearedShows ==
    ASSUME NEW row \in Row
    PROVE  ClearChanged(row).orig =
              [k \in Column |-> IF row.curr[k] # NULL THEN row.curr[k] ELSE row.orig[k]]
BY DEF ClearChanged, Row

----------------------------------------------------------------------------
(* How the steps of the writer keep that. *)

\* What is said of a record depends on that record alone.
LEMMA MirroredInOther ==
    ASSUME NEW row, NEW id, NEW d, NEW e, NEW pc, NEW auto, Mirrored(row, id, d, pc, auto),
           id \in DOMAIN e <=> id \in DOMAIN d, id \in DOMAIN d => e[id] = d[id]
    PROVE  Mirrored(row, id, e, pc, auto)
BY DEF Mirrored, Same, Sent, Has

\* The writer goes on, and no statement for the row has run, or none will.
LEMMA MirroredOn ==
    ASSUME NEW row, NEW id, NEW d, NEW pc, NEW pd, NEW auto, Mirrored(row, id, d, pc, auto),
           pc # "accept" \/ ~Waits(row), pd \notin {"keys", "accept"} \/ ~Waits(row)
    PROVE  Mirrored(row, id, d, pd, auto)
BY DEF Mirrored, Waits

\* The types that the steps below rest on.
LEMMA ShapedTypes ==
    ASSUME Shaped
    PROVE  /\ Typed /\ Formed(crs) /\ ~crs.onInsertRow /\ wr \in WriterType /\ hist \in HistoryType
           /\ NumRows(crs) \in Nat /\ Len(hist.link) = NumRows(crs)
           /\ \A i \in 1..NumRows(crs) : crs.rvh[i] \in Row /\ hist.link[i] \in Nat
           /\ hist.link \in Seq(Nat) /\ hist.issued \in Nat /\ hist.touched \in SUBSET Nat
           /\ \A i : i \in Pending(crs) <=> i \in 1..NumRows(crs) /\ Waits(crs.rvh[i])
<1>1. /\ Typed /\ Formed(crs) /\ ~crs.onInsertRow /\ wr \in WriterType /\ hist \in HistoryType
      /\ Len(hist.link) = NumRows(crs)
    BY DEF Shaped, Typed
<1>2. /\ NumRows(crs) \in Nat /\ \A i \in 1..NumRows(crs) : crs.rvh[i] \in Row
    BY <1>1, RowsOfCache
<1>3. hist.link \in Seq(Nat) /\ hist.issued \in Nat /\ hist.touched \in SUBSET Nat
    BY <1>1 DEF HistoryType
<1>4. \A i \in 1..NumRows(crs) : hist.link[i] \in Nat
    BY <1>1, <1>3
<1>5. \A i : i \in Pending(crs) <=> i \in 1..NumRows(crs) /\ Waits(crs.rvh[i])
    BY DEF Pending, Waits
<1> QED BY <1>1, <1>2, <1>3, <1>4, <1>5

\* Where the writer arrives at a statement, it is an INSERT.
LEMMA ArrivedOne ==
    ASSUME NEW w, NEW f, Arrived(crs', w, f, wr')
    PROVE  OneRecord'
BY ArrivedAtInsert DEF OneRecord, Here

\* Rows that stay keep their records.
LEMMA OwnRecordStays ==
    ASSUME Shaped, OwnRecord, hist'.link = hist.link, hist.issued <= hist'.issued,
           hist'.issued \in Nat, NumRows(crs') = NumRows(crs)
    PROVE  OwnRecord'
<1>1. /\ hist.issued \in Nat /\ NumRows(crs)' = NumRows(crs)
      /\ \A i \in 1..NumRows(crs) : hist.link[i] \in Nat
    BY ShapedTypes DEF NumRows
<1>2. \A i \in 1..NumRows(crs) : hist.link[i] <= hist.issued
    BY DEF OwnRecord
<1>3. \A i \in 1..NumRows(crs) : hist'.link[i] <= hist'.issued
    BY <1>1, <1>2
<1>4. \A i, j \in 1..NumRows(crs) : hist'.link[i] = hist'.link[j] /\ hist'.link[i] # 0 => i = j
    BY DEF OwnRecord
<1> QED BY <1>1, <1>3, <1>4 DEF OwnRecord

\* The writer goes on and leaves rows and records as they are: it checks a row,
\* or refuses one, or the call ends.
LEMMA GoingOnMirrors ==
    ASSUME Shaped, Neat, OwnRecord, Mirror, wr.pc # "accept", wr'.pc \notin {"keys", "accept"},
           crs'.rvh = crs.rvh, UNCHANGED <<table, db>>,
           hist'.link = hist.link, hist'.touched = hist.touched, hist'.issued = hist.issued
    PROVE  Neat' /\ OwnRecord' /\ Mirror'
<1>1. NumRows(crs') = NumRows(crs) /\ NumRows(crs)' = NumRows(crs)
    BY DEF NumRows
<1>2. Neat'
    BY <1>1 DEF Neat, Created
<1>3. hist.issued <= hist'.issued /\ hist'.issued \in Nat
    BY ShapedTypes
<1>4. OwnRecord'
    BY <1>1, <1>3, OwnRecordStays
<1>5. ASSUME NEW i \in 1..NumRows(crs), Untouched(i)'
      PROVE  Mirrored(crs'.rvh[i], hist'.link[i], db', wr'.pc, table'.auto)
  <2>1. Mirrored(crs.rvh[i], hist.link[i], db, wr.pc, table.auto)
      BY <1>5 DEF Mirror, Untouched
  <2>2. Mirrored(crs.rvh[i], hist.link[i], db, wr'.pc, table.auto)
      BY <2>1, MirroredOn
  <2> QED BY <2>2
<1>6. Mirror'
    BY <1>1, <1>5 DEF Mirror
<1> QED BY <1>2, <1>4, <1>6

\* The row the writer is at, when it is not an insert, selects its own record,
\* unless another session had a hand in it.
LEMMA OwnMatches ==
    ASSUME Shaped, Neat, Mirror, wr.pc \in {"check", "write"}, Kind(Here) # "insert",
           Untouched(wr.row)
    PROVE  /\ Has(db, hist.link[wr.row], Here.orig)
           /\ hist.link[wr.row] \in Matches(Here) /\ IsFiniteSet(Matches(Here))
<1>1. wr.row # 0 /\ wr.row \in Pending(crs) /\ wr.row \in 1..NumRows(crs) /\ Waits(Here)
    BY ShapedTypes DEF Shaped, AtRow, Here
<1>2. "created" \notin Here.flags
  <2>1. Created(wr.row) => "removed" \notin Here.flags
      BY <1>1 DEF Shaped, Linked, Here
  <2> QED BY <2>1 DEF Created, Here, Kind
<1>3. "deleted" \notin Here.flags
    BY <1>1 DEF Neat, NeatRow, Here
<1>4. Mirrored(Here, hist.link[wr.row], db, wr.pc, table.auto)
    BY <1>1 DEF Mirror, Here
<1>5. Has(db, hist.link[wr.row], Here.orig)
    BY <1>2, <1>3, <1>4 DEF Mirrored, Same
<1>6. hist.link[wr.row] \in Matches(Here)
    BY <1>5 DEF Has, Matches
<1>7. IsFiniteSet(Matches(Here))
  <2>1. hist.issued \in Nat /\ DOMAIN db \subseteq 1..hist.issued
      BY ShapedTypes DEF Typed
  <2>2. IsFiniteSet(1..hist.issued) /\ Matches(Here) \subseteq 1..hist.issued
      BY <2>1, FS_Interval DEF Matches
  <2> QED BY <2>2, FS_Subset
<1> QED BY <1>5, <1>6, <1>7

\* The SELECT finds the row, and without primary key it has found one record.
LEMMA CheckMirrors ==
    ASSUME Shaped, Mirroring, CheckRow
    PROVE  Mirroring'
<1>1. /\ wr.pc = "check" /\ wr'.pc = "write" /\ wr'.row = wr.row /\ crs' = crs
      /\ UNCHANGED <<table, db>> /\ hist'.link = hist.link /\ hist'.touched = hist.touched
      /\ hist'.issued = hist.issued
    BY ShapedTypes DEF CheckRow, WriterType, HistoryType
<1>2. Neat' /\ OwnRecord' /\ Mirror'
    BY <1>1, GoingOnMirrors DEF Mirroring
<1>3. ASSUME ~table.pk, Untouched(wr.row)
      PROVE  Matches(Here) \subseteq {hist.link[wr.row]}
  <2>1. Kind(Here) # "insert"
      BY <1>1 DEF Shaped, AtRow
  <2>2. hist.link[wr.row] \in Matches(Here) /\ IsFiniteSet(Matches(Here))
      BY <1>1, <1>3, <2>1, OwnMatches DEF Mirroring
  <2>3. Identified(Matches(Here))
      BY DEF CheckRow, Checked, DeleteChecked, UpdateChecked
  <2>4. Cardinality(Matches(Here)) = 1
      BY <1>3, <2>3 DEF Identified
  <2>5. \A a, b \in Matches(Here) : a = b
      BY <2>2, <2>4, AtMostOne
  <2> QED BY <2>2, <2>5
<1>4. OneRecord'
    BY <1>1, <1>3 DEF OneRecord, Here, Untouched, Matches, KeyColumns
<1> QED BY <1>2, <1>4 DEF Mirroring

\* A row is refused before its statement, or the statement fails: nothing was
\* written.
LEMMA RefuseMirrors ==
    ASSUME Shaped, Single, Mirroring, RefuseRow \/ FailStatement
    PROVE  Mirroring'
<1>1. /\ wr.pc \in {"check", "write", "keys"} /\ crs' = crs /\ UNCHANGED <<table, db, hist>>
      /\ Refuse /\ wr.row # 0
    BY DEF RefuseRow, FailStatement, Shaped, AtRow
<1>2. Arrived(crs, wr, wr.failed \cup {wr.row}, wr')
    BY <1>1, ShapedTypes, RefuseArrives
<1>3. wr'.pc = "resolve"
    BY <1>1, <1>2, SingleEnds
<1>4. Neat' /\ OwnRecord' /\ Mirror'
    BY <1>1, <1>3, GoingOnMirrors DEF Mirroring
<1>5. OneRecord'
    BY <1>3 DEF OneRecord
<1> QED BY <1>4, <1>5 DEF Mirroring

\* The end of a call with conflicts.
LEMMA EndMirrors ==
    ASSUME Shaped, Mirroring, EndResolve
    PROVE  Mirroring'
<1>1. Formed(crs) /\ ~crs.onInsertRow
    BY ShapedTypes
<1>2. PICK c : c = CloseResolver(crs)
    OBVIOUS
<1>3. Formed(c) /\ ~c.onInsertRow /\ c.rvh = crs.rvh
    BY <1>1, <1>2, CloseKeeps
<1>4. wr' = Idle /\ (crs' = Last(c) \/ crs' = c) /\ UNCHANGED <<table, db, hist>> /\ wr.pc = "resolve"
    BY <1>2 DEF EndResolve, Return
<1>5. crs'.rvh = crs.rvh /\ wr'.pc = "idle"
    BY <1>3, <1>4, LastKeeps DEF Idle
<1>6. Neat' /\ OwnRecord' /\ Mirror'
    BY <1>4, <1>5, GoingOnMirrors DEF Mirroring
<1>7. OneRecord'
    BY <1>5 DEF OneRecord
<1> QED BY <1>6, <1>7 DEF Mirroring

\* A row made original shows what the statements have stored.
LEMMA OriginalMirrors ==
    ASSUME NEW row \in Row, NEW id, NEW d, NEW auto, NeatRow(row),
           "created" \in row.flags => "removed" \notin row.flags,
           "removed" \in row.flags => "updated" \notin row.flags,
           Mirrored(row, id, d, "accept", auto)
    PROVE  Same(MakeRowOriginal(row), id, d)
<1>1. PICK r : r = MakeRowOriginal(row)
    OBVIOUS
<1>2. "deleted" \in r.flags <=> "deleted" \in row.flags \/ "removed" \in row.flags
    BY <1>1, OriginalFlags
<1>3. CASE ~Waits(row)
    BY <1>1, <1>3, OriginalOfIdle DEF Mirrored, Waits
<1>4. CASE "created" \in row.flags
  <2>1. r.orig = ClearChanged(row).orig /\ Has(d, id, ClearChanged(row).orig)
      BY <1>1, <1>4, OriginalOfCreated DEF Mirrored
  <2>2. "deleted" \notin r.flags
      BY <1>2, <1>4 DEF NeatRow, Waits
  <2> QED BY <1>1, <2>1, <2>2 DEF Same
<1>5. CASE "removed" \in row.flags
  <2>1. "deleted" \in r.flags
      BY <1>2, <1>5
  <2>2. id \notin DOMAIN d
      BY <1>5 DEF Mirrored, Sent, Waits
  <2> QED BY <1>1, <2>1, <2>2 DEF Same
<1>6. CASE "updated" \in row.flags /\ "created" \notin row.flags /\ "removed" \notin row.flags
  <2>1. r.orig = Shows(row)
      BY <1>1, <1>6, OriginalOfUpdated DEF NeatRow
  <2>2. "deleted" \notin r.flags
      BY <1>2, <1>6 DEF NeatRow, Waits
  <2>3. Has(d, id, Shows(row))
      BY <1>6 DEF Mirrored, Sent, Waits
  <2> QED BY <1>1, <2>1, <2>2, <2>3 DEF Same
<1> QED BY <1>3, <1>4, <1>5, <1>6 DEF Waits

\* It has no edits left.
LEMMA OriginalNeat ==
    ASSUME NEW row \in Row, NeatRow(row),
           "created" \in row.flags => "removed" \notin row.flags,
           "removed" \in row.flags => "updated" \notin row.flags
    PROVE  MakeRowOriginal(row).changed = {}
<1>1. CASE ~Waits(row)
    BY <1>1, OriginalOfIdle DEF NeatRow, Waits
<1>2. CASE "created" \in row.flags
    BY <1>2, OriginalOfCreated
<1>3. CASE "removed" \in row.flags
    BY <1>3, OriginalOfRemoved DEF NeatRow
<1>4. CASE "updated" \in row.flags /\ "created" \notin row.flags /\ "removed" \notin row.flags
    BY <1>4, OriginalOfUpdated DEF NeatRow
<1> QED BY <1>1, <1>2, <1>3, <1>4 DEF Waits

\* The end of a call without conflict.
LEMMA FinishMirrors ==
    ASSUME Shaped, Single, Mirroring, FinishAccept
    PROVE  Mirroring'
<1>1. /\ Formed(crs) /\ ~crs.onInsertRow /\ NumRows(crs) \in Nat
      /\ \A i \in 1..NumRows(crs) : crs.rvh[i] \in Row
    BY ShapedTypes
<1>2. PICK c : c = SetOriginal(crs)
    OBVIOUS
<1>3. /\ Formed(c) /\ ~c.onInsertRow /\ NumRows(c) = NumRows(crs)
      /\ \A i \in 1..NumRows(crs) : c.rvh[i] = MakeRowOriginal(crs.rvh[i])
    BY <1>1, <1>2, OriginalRows
<1>4. wr' = Idle /\ (crs' = Last(c) \/ crs' = c) /\ UNCHANGED <<table, db, hist>> /\ wr.pc = "accept"
    BY <1>2 DEF FinishAccept, Return
<1>5. crs'.rvh = c.rvh /\ wr'.pc = "idle"
    BY <1>3, <1>4, LastKeeps DEF Idle
<1>6. /\ NumRows(crs') = NumRows(crs) /\ NumRows(crs)' = NumRows(crs)
      /\ \A i \in 1..NumRows(crs) : crs'.rvh[i] = MakeRowOriginal(crs.rvh[i])
    BY <1>3, <1>5 DEF NumRows
<1>7. ASSUME NEW i \in 1..NumRows(crs)
      PROVE  /\ crs.rvh[i] \in Row /\ NeatRow(crs.rvh[i])
             /\ "created" \in crs.rvh[i].flags => "removed" \notin crs.rvh[i].flags
             /\ "removed" \in crs.rvh[i].flags => "updated" \notin crs.rvh[i].flags
    BY <1>1 DEF Mirroring, Neat, Shaped, Linked, Single, Created
<1>8. \A i \in 1..NumRows(crs) : ~Waits(crs'.rvh[i]) /\ crs'.rvh[i].changed = {}
    BY <1>6, <1>7, OriginalFlags, OriginalNeat DEF Waits
<1>9. Neat'
    BY <1>6, <1>8 DEF Neat, NeatRow, Waits, Created
<1>10. OwnRecord'
  <2>1. hist'.link = hist.link /\ hist.issued <= hist'.issued /\ hist'.issued \in Nat
      BY <1>4, ShapedTypes
  <2> QED BY <1>6, <2>1, OwnRecordStays DEF Mirroring
<1>11. ASSUME NEW i \in 1..NumRows(crs), Untouched(i)'
       PROVE  Mirrored(crs'.rvh[i], hist'.link[i], db', wr'.pc, table'.auto)
  <2>1. Mirrored(crs.rvh[i], hist.link[i], db, "accept", table.auto)
      BY <1>4, <1>11 DEF Mirroring, Mirror, Untouched
  <2>2. Same(MakeRowOriginal(crs.rvh[i]), hist.link[i], db)
      BY <1>7, <2>1, OriginalMirrors
  <2>3. Same(crs'.rvh[i], hist'.link[i], db')
      BY <1>4, <1>6, <2>2
  <2> QED BY <1>5, <1>8, <2>3 DEF Mirrored, Waits
<1>12. Mirror'
    BY <1>6, <1>11 DEF Mirror
<1>13. OneRecord'
    BY <1>5 DEF OneRecord
<1> QED BY <1>9, <1>10, <1>12, <1>13 DEF Mirroring

\* UPDATE and DELETE leave the records alone that the WHERE clause does not select.
LEMMA WrittenElsewhere ==
    ASSUME Kind(Here) \in {"delete", "update"}, NEW id, id \notin Matches(Here)
    PROVE  /\ id \in DOMAIN Written(Here, NoValues) <=> id \in DOMAIN db
           /\ id \in DOMAIN db => Written(Here, NoValues)[id] = db[id]
<1>1. CASE Kind(Here) = "delete"
  <2>1. Written(Here, NoValues) = [i \in DOMAIN db \ Matches(Here) |-> db[i]]
      BY <1>1 DEF Written
  <2> QED BY <2>1
<1>2. CASE Kind(Here) = "update"
  <2>1. Written(Here, NoValues) =
           [i \in DOMAIN db |-> IF i \notin Matches(Here) THEN db[i]
                                ELSE [k \in Column |-> IF k \in UpdateParameters(Here)
                                                       THEN Here.curr[k] ELSE db[i][k]]]
      BY <1>2 DEF Written
  <2> QED BY <2>1
<1> QED BY <1>1, <1>2

\* A record that was as the row was read is then as the row shows, or is gone.
LEMMA WrittenHere ==
    ASSUME Here \in Row, Kind(Here) \in {"delete", "update"}, NEW id \in Matches(Here),
           db[id] = Here.orig
    PROVE  Sent(Here, id, Written(Here, NoValues))
<1>1. id \in DOMAIN db
    BY DEF Matches
<1>2. CASE Kind(Here) = "delete"
  <2>1. Written(Here, NoValues) = [i \in DOMAIN db \ Matches(Here) |-> db[i]]
      BY <1>2 DEF Written
  <2>2. id \notin DOMAIN Written(Here, NoValues)
      BY <2>1
  <2>3. "removed" \in Here.flags
      BY <1>2 DEF Kind
  <2> QED BY <2>2, <2>3 DEF Sent
<1>3. CASE Kind(Here) = "update"
  <2> DEFINE sent == [k \in Column |-> IF k \in UpdateParameters(Here)
                                       THEN Here.curr[k] ELSE db[id][k]]
  <2>1. Written(Here, NoValues) =
           [i \in DOMAIN db |-> IF i \notin Matches(Here) THEN db[i]
                                ELSE [k \in Column |-> IF k \in UpdateParameters(Here)
                                                       THEN Here.curr[k] ELSE db[i][k]]]
      BY <1>3 DEF Written
  <2>2. id \in DOMAIN Written(Here, NoValues) /\ Written(Here, NoValues)[id] = sent
      BY <1>1, <2>1
  <2>3. \A k \in Column : (IF k \in UpdateParameters(Here) THEN Here.curr[k] ELSE db[id][k])
                           = ColumnObject(Here, k)
      BY DEF UpdateParameters, ColumnObject
  <2>4. sent = Shows(Here)
      BY <2>3 DEF Shows
  <2>5. "removed" \notin Here.flags
      BY <1>3 DEF Kind
  <2> QED BY <2>2, <2>4, <2>5 DEF Sent, Has
<1> QED BY <1>2, <1>3

\* Before its statement, a row that no other session had a hand in selects its
\* own record and no other.
LEMMA OneMatch ==
    ASSUME Shaped, Mirroring, wr.pc = "write", Kind(Here) # "insert", Untouched(wr.row)
    PROVE  Matches(Here) = {hist.link[wr.row]} /\ db[hist.link[wr.row]] = Here.orig
<1>1. hist.link[wr.row] \in Matches(Here) /\ Has(db, hist.link[wr.row], Here.orig)
    BY OwnMatches DEF Mirroring
<1>2. CASE ~table.pk
    BY <1>1, <1>2 DEF Mirroring, OneRecord, Has
<1>3. CASE table.pk
  <2>1. ASSUME NEW id \in Matches(Here), id # hist.link[wr.row]
        PROVE  FALSE
    <3>1. id \in DOMAIN db /\ hist.link[wr.row] \in DOMAIN db
        BY <1>1 DEF Matches
    <3>2. Allowed(db)
        BY DEF Shaped, Typed
    <3>3. PICK k \in Key : db[id][k] # db[hist.link[wr.row]][k]
        BY <1>3, <2>1, <3>1, <3>2 DEF Allowed
    <3>4. db[id][k] = Here.orig[k] /\ db[hist.link[wr.row]][k] = Here.orig[k]
        BY <1>1, <1>3 DEF Matches, KeyColumns
    <3> QED BY <3>3, <3>4
  <2> QED BY <1>1, <2>1 DEF Has
<1> QED BY <1>2, <1>3

\* An UPDATE or DELETE writes what the row shows to its own record, and to no
\* record of another row unless that is one it is mistaken for.
LEMMA WriteMirrors ==
    ASSUME Shaped, Single, Mirroring, WriteRow
    PROVE  Mirroring'
<1>1. /\ wr.pc = "write" /\ wr.row # 0 /\ wr.row \in 1..NumRows(crs) /\ Here = crs.rvh[wr.row]
      /\ Here \in Row /\ Kind(Here) \in {"delete", "update"} /\ "created" \notin Here.flags
      /\ Waits(Here) /\ hist.link[wr.row] # 0
  <2>1. wr.pc = "write" /\ wr.row # 0 /\ Kind(Here) # "insert"
      BY DEF WriteRow, Shaped, AtRow
  <2>2. /\ wr.row \in 1..NumRows(crs) /\ Here \in Row /\ wr.row \in Pending(crs)
        /\ Kind(Here) \in {"delete", "insert", "update"}
      BY <2>1, HereIsRow DEF Shaped, AtRow
  <2>3. Here = crs.rvh[wr.row] /\ Waits(Here)
      BY <2>2, ShapedTypes DEF Here
  <2>4. "created" \notin Here.flags
    <3>1. Created(wr.row) => "removed" \notin Here.flags
        BY <2>2, <2>3 DEF Shaped, Linked
    <3> QED BY <2>1, <2>3, <3>1 DEF Created, Kind
  <2>5. hist.link[wr.row] # 0
      BY <2>2, <2>3, <2>4 DEF Shaped, Linked, Created
  <2> QED BY <2>1, <2>2, <2>3, <2>4, <2>5
<1>2. /\ db' = Written(Here, NoValues) /\ crs' = crs /\ UNCHANGED table
      /\ hist'.link = hist.link /\ hist'.issued = hist.issued
      /\ hist'.touched = hist.touched \cup Mistaken
      /\ IF Counted(Here) THEN Proceed ELSE Refuse
    BY ShapedTypes DEF WriteRow, HistoryType
<1>4. /\ wr'.pc \in {"accept", "resolve"} /\ Pending(crs) = {wr.row}
      /\ Counted(Here) => wr'.pc = "accept"
  <2>1. CASE Counted(Here)
    <3>1. Arrived(crs, wr, wr.failed, wr')
        BY <1>2, <2>1, ShapedTypes, ProceedArrives
    <3>2. wr.failed = {}
        BY <1>1 DEF Single
    <3> QED BY <1>1, <3>1, <3>2, SingleEnds
  <2>2. CASE ~Counted(Here)
    <3>1. Arrived(crs, wr, wr.failed \cup {wr.row}, wr')
        BY <1>2, <2>2, ShapedTypes, RefuseArrives
    <3>2. wr.failed \cup {wr.row} # {}
        OBVIOUS
    <3>3. wr'.pc = "resolve" /\ Pending(crs) = {wr.row}
        BY <1>1, <3>1, <3>2, SingleEnds
    <3> QED BY <2>2, <3>3
  <2> QED BY <2>1, <2>2
<1>5. Neat'
    BY <1>1, <1>2, <1>4 DEF Mirroring, Neat, Created
<1>6. OwnRecord'
  <2>1. hist.issued <= hist'.issued /\ hist'.issued \in Nat /\ NumRows(crs') = NumRows(crs)
      BY <1>2, ShapedTypes
  <2> QED BY <1>2, <2>1, OwnRecordStays DEF Mirroring
<1>7. ASSUME Untouched(wr.row)
      PROVE  Matches(Here) = {hist.link[wr.row]} /\ db[hist.link[wr.row]] = Here.orig
    BY <1>1, <1>7, OneMatch
<1>8. ASSUME Untouched(wr.row)
      PROVE  Mirrored(Here, hist.link[wr.row], db', wr'.pc, table.auto)
  <2>1. Cardinality(Matches(Here)) = 1
      BY <1>7, <1>8, FS_Singleton
  <2>2. wr'.pc = "accept"
      BY <1>4, <2>1 DEF Counted
  <2>3. Sent(Here, hist.link[wr.row], db')
      BY <1>1, <1>2, <1>7, <1>8, WrittenHere
  <2> QED BY <1>1, <2>2, <2>3 DEF Mirrored
<1>9. ASSUME NEW i \in 1..NumRows(crs), i # wr.row, Untouched(i),
             hist.link[i] \notin hist'.touched
      PROVE  Mirrored(crs.rvh[i], hist.link[i], db', wr'.pc, table.auto)
  <2>1. hist.link[i] \notin Matches(Here)
    <3>1. CASE Untouched(wr.row)
      <4>1. hist.link[i] # hist.link[wr.row]
          BY <1>1, <1>9 DEF Mirroring, OwnRecord, Untouched
      <4> QED BY <1>7, <3>1, <4>1
    <3>2. CASE ~Untouched(wr.row)
      <4>1. Mistaken = Matches(Here)
          BY <1>1, <3>2 DEF Untouched, Mistaken
      <4> QED BY <1>2, <1>9, <4>1
    <3> QED BY <3>1, <3>2
  <2>2. ~Waits(crs.rvh[i])
      BY <1>4, <1>9, ShapedTypes
  <2>3. Mirrored(crs.rvh[i], hist.link[i], db, wr.pc, table.auto)
      BY <1>9 DEF Mirroring, Mirror
  <2>4. Mirrored(crs.rvh[i], hist.link[i], db, wr'.pc, table.auto)
      BY <2>2, <2>3, MirroredOn
  <2>5. /\ hist.link[i] \in DOMAIN db' <=> hist.link[i] \in DOMAIN db
        /\ hist.link[i] \in DOMAIN db => db'[hist.link[i]] = db[hist.link[i]]
      BY <1>1, <1>2, <2>1, WrittenElsewhere
  <2> QED BY <2>4, <2>5, MirroredInOther
<1>10. Mirror'
  <2>1. \A i \in 1..NumRows(crs) : Untouched(i)' => Untouched(i) /\ hist.link[i] \notin hist'.touched
      BY <1>2 DEF Untouched
  <2>2. \A i \in 1..NumRows(crs) : Untouched(i)' =>
              Mirrored(crs.rvh[i], hist.link[i], db', wr'.pc, table.auto)
      BY <1>1, <1>8, <1>9, <2>1
  <2> QED BY <1>2, <2>2 DEF Mirror
<1>11. OneRecord'
    BY <1>4 DEF OneRecord
<1> QED BY <1>5, <1>6, <1>10, <1>11 DEF Mirroring

\* An INSERT stores what the row shows, in a record of its own.
LEMMA InsertMirrors ==
    ASSUME Shaped, Single, Mirroring, InsertRecord
    PROVE  Mirroring'
<1>1. /\ wr.pc = "write" /\ wr.row # 0 /\ wr.row \in 1..NumRows(crs) /\ Here = crs.rvh[wr.row]
      /\ Here \in Row /\ Kind(Here) = "insert" /\ "created" \in Here.flags
      /\ Pending(crs) \subseteq {wr.row} /\ crs' = crs /\ UNCHANGED table
  <2>1. /\ wr.pc = "write" /\ wr.row # 0 /\ Kind(Here) = "insert" /\ wr.row \in Pending(crs)
        /\ crs' = crs /\ UNCHANGED table
      BY DEF InsertRecord, Shaped, AtRow
  <2>2. wr.row \in 1..NumRows(crs) /\ Here \in Row /\ Here = crs.rvh[wr.row]
      BY <2>1, HereIsRow DEF Shaped, Here
  <2>3. "created" \in Here.flags
      BY <2>1 DEF Kind
  <2>4. Pending(crs) \subseteq {wr.row}
      BY <2>1 DEF Single
  <2> QED BY <2>1, <2>2, <2>3, <2>4
<1>2. PICK new : new = hist.issued + 1
    OBVIOUS
<1>3. /\ hist.issued \in Nat /\ new \in Nat /\ new = hist.issued + 1 /\ NumRows(crs) \in Nat
      /\ \A i \in 1..NumRows(crs) : hist.link[i] \in Nat
    BY <1>2, ShapedTypes
<1>4. /\ hist'.issued = new /\ hist'.touched = hist.touched
      /\ \A i \in 1..NumRows(crs) : hist'.link[i] = IF i = wr.row THEN new ELSE hist.link[i]
  <2>1. hist' = [hist EXCEPT !.link = [hist.link EXCEPT ![wr.row] = new], !.issued = new]
      BY <1>2, ShapedTypes DEF InsertRecord, HistoryType
  <2>2. hist'.link = [hist.link EXCEPT ![wr.row] = new] /\ hist'.issued = new
        /\ hist'.touched = hist.touched
      BY <2>1, ShapedTypes DEF HistoryType
  <2>3. hist.link \in Seq(Nat) /\ Len(hist.link) = NumRows(crs)
      BY ShapedTypes
  <2> QED BY <2>2, <2>3
<1>5. PICK vals \in Stored(Here) : db' = Written(Here, vals)
    BY DEF InsertRecord
<1>6. db' = [id \in DOMAIN db \cup {new} |-> IF id \in DOMAIN db THEN db[id] ELSE vals]
    BY <1>1, <1>2, <1>5 DEF Written
<1>7. new \notin DOMAIN db
  <2>1. DOMAIN db \subseteq 1..hist.issued
      BY DEF Shaped, Typed
  <2> QED BY <1>3, <2>1
<1>8. Has(db', new, vals) /\ vals \in Values
      /\ \A k \in Column \ table.auto : vals[k] = ColumnObject(Here, k)
    BY <1>5, <1>6, <1>7 DEF Has, Stored, Shows
<1>9. wr'.pc \in {"accept", "keys"} /\ (wr'.pc = "accept" => table.auto = {})
  <2>1. CASE table.auto = {}
    <3>1. Arrived(crs, wr, wr.failed, wr')
        BY <2>1, ShapedTypes, ProceedArrives DEF InsertRecord
    <3>2. wr.failed = {}
        BY <1>1 DEF Single
    <3>3. wr'.pc = "accept"
        BY <1>1, <3>1, <3>2, SingleEnds
    <3> QED BY <2>1, <3>3
  <2>2. CASE table.auto # {}
    <3>1. wr' = [wr EXCEPT !.pc = "keys"]
        BY <2>2 DEF InsertRecord
    <3>2. wr'.pc = "keys"
        BY <3>1, ShapedTypes DEF WriterType
    <3> QED BY <3>2
  <2> QED BY <2>1, <2>2
<1>10. Neat'
    BY <1>1 DEF Mirroring, Neat, Created
<1>11. OwnRecord'
  <2>1. \A i \in 1..NumRows(crs) : hist.link[i] <= hist.issued
      BY DEF Mirroring, OwnRecord
  <2>2. \A i, j \in 1..NumRows(crs) : hist.link[i] = hist.link[j] /\ hist.link[i] # 0 => i = j
      BY DEF Mirroring, OwnRecord
  <2>3. \A i \in 1..NumRows(crs) : hist'.link[i] <= hist'.issued
      BY <1>3, <1>4, <2>1
  <2>4. \A i, j \in 1..NumRows(crs) : hist'.link[i] = hist'.link[j] /\ hist'.link[i] # 0 => i = j
      BY <1>3, <1>4, <2>1, <2>2
  <2> QED BY <1>1, <2>3, <2>4 DEF OwnRecord
<1>12. Mirrored(Here, new, db', wr'.pc, table.auto)
  <2>1. CASE wr'.pc = "accept"
    <3>1. \A k \in Column : vals[k] = ColumnObject(Here, k)
        BY <1>8, <1>9, <2>1
    <3>2. Fresh(Here)
        BY <1>1 DEF Mirroring, Neat, Created
    <3>3. \A k \in Column : (IF Here.curr[k] # NULL THEN Here.curr[k] ELSE Here.orig[k]) = vals[k]
        BY <3>1, <3>2 DEF Fresh, ColumnObject
    <3>4. vals = [k \in Column |-> vals[k]]
        BY <1>8 DEF Values
    <3>5. ClearChanged(Here).orig = vals
        BY <1>1, <3>3, <3>4, ClearedShows
    <3> QED BY <1>1, <1>8, <2>1, <3>5 DEF Mirrored
  <2>2. CASE wr'.pc = "keys"
      BY <1>1, <1>8, <2>2 DEF Mirrored, Has
  <2> QED BY <1>9, <2>1, <2>2
<1>13. ASSUME NEW i \in 1..NumRows(crs), i # wr.row, Untouched(i)
       PROVE  Mirrored(crs.rvh[i], hist.link[i], db', wr'.pc, table.auto)
  <2>1. hist.link[i] # new
    <3>1. hist.link[i] <= hist.issued
        BY DEF Mirroring, OwnRecord
    <3> QED BY <1>3, <3>1
  <2>2. ~Waits(crs.rvh[i])
      BY <1>1, <1>13, ShapedTypes
  <2>3. Mirrored(crs.rvh[i], hist.link[i], db, wr.pc, table.auto)
      BY <1>13 DEF Mirroring, Mirror
  <2>4. Mirrored(crs.rvh[i], hist.link[i], db, wr'.pc, table.auto)
      BY <2>2, <2>3, MirroredOn
  <2>5. /\ hist.link[i] \in DOMAIN db' <=> hist.link[i] \in DOMAIN db
        /\ hist.link[i] \in DOMAIN db => db'[hist.link[i]] = db[hist.link[i]]
      BY <1>6, <2>1
  <2> QED BY <2>4, <2>5, MirroredInOther
<1>14. Mirror'
  <2>1. \A i \in 1..NumRows(crs) : i # wr.row /\ Untouched(i)' => Untouched(i)
      BY <1>4 DEF Untouched
  <2>2. \A i \in 1..NumRows(crs) : Untouched(i)' =>
              Mirrored(crs.rvh[i], hist'.link[i], db', wr'.pc, table.auto)
      BY <1>1, <1>4, <1>12, <1>13, <2>1
  <2> QED BY <1>1, <2>2 DEF Mirror
<1>15. OneRecord'
    BY <1>9 DEF OneRecord
<1> QED BY <1>10, <1>11, <1>14, <1>15 DEF Mirroring

\* What the row is once the record was read into it is what makeRowOriginal will
\* make its values: a generated key is not NULL.
LEMMA KeysShow ==
    ASSUME Shaped, NEW row \in Row, Fresh(row), NEW id \in DOMAIN db,
           \A k \in Column \ table.auto : db[id][k] = ColumnObject(row, k),
           NEW r \in Row, r.orig = row.orig, r.curr = db[id]
    PROVE  ClearChanged(r).orig = db[id]
<1>1. db[id] \in Values /\ Allowed(db) /\ table.auto \subseteq Key
    BY KeyAssumption DEF Shaped, Typed, Tables
<1>2. ASSUME NEW k \in Column
      PROVE  (IF r.curr[k] # NULL THEN r.curr[k] ELSE r.orig[k]) = db[id][k]
  <2>1. CASE k \in table.auto
    <3>1. db[id][k] # NULL
        BY <1>1, <2>1 DEF Allowed
    <3> QED BY <3>1
  <2>2. CASE k \notin table.auto
    <3>1. db[id][k] = ColumnObject(row, k)
        BY <2>2
    <3> QED BY <3>1 DEF ColumnObject, Fresh
  <2> QED BY <2>1, <2>2
<1>3. db[id] = [k \in Column |-> db[id][k]]
    BY <1>1 DEF Values
<1> QED BY <1>2, <1>3, ClearedShows

\* Generated keys are read into the row.
LEMMA FetchMirrors ==
    ASSUME Shaped, Single, Mirroring, FetchKeys
    PROVE  Mirroring'
<1> DEFINE id == hist.link[wr.row]
<1>1. /\ wr.pc = "keys" /\ wr.row # 0 /\ wr.row \in 1..NumRows(crs) /\ Here = crs.rvh[wr.row]
      /\ Here \in Row /\ "created" \in Here.flags
      /\ Pending(crs) \subseteq {wr.row} /\ UNCHANGED <<table, db, hist>>
  <2>1. /\ wr.pc = "keys" /\ wr.row # 0 /\ Kind(Here) = "insert" /\ wr.row \in Pending(crs)
        /\ UNCHANGED <<table, db, hist>>
      BY DEF FetchKeys, Shaped, AtRow
  <2>2. wr.row \in 1..NumRows(crs) /\ Here \in Row /\ Here = crs.rvh[wr.row]
      BY <2>1, HereIsRow DEF Shaped, Here
  <2>3. "created" \in Here.flags
      BY <2>1 DEF Kind
  <2>4. Pending(crs) \subseteq {wr.row}
      BY <2>1 DEF Single
  <2> QED BY <2>1, <2>2, <2>3, <2>4
<1>2. wr'.pc = "accept"
  <2>1. Arrived(crs, wr, wr.failed, wr') /\ wr.failed = {}
      BY <1>1, ShapedTypes, ProceedArrives DEF FetchKeys, Single
  <2> QED BY <1>1, <2>1, SingleEnds
<1>3. PICK row : row = IF id \in DOMAIN db THEN [Here EXCEPT !.curr = db[id], !.changed = Column] ELSE Here
    OBVIOUS
<1>4. /\ row \in Row /\ row.flags = Here.flags /\ row.orig = Here.orig
      /\ id \in DOMAIN db => row.curr = db[id]
  <2>1. id \in DOMAIN db => db[id] \in Values
      BY DEF Shaped, Typed
  <2> QED BY <1>1, <1>3, <2>1 DEF Row
<1>5. /\ NumRows(crs') = NumRows(crs) /\ NumRows(crs)' = NumRows(crs)
      /\ \A i \in 1..NumRows(crs) : crs'.rvh[i] = IF i = wr.row THEN row ELSE crs.rvh[i]
  <2>1. CASE id \in DOMAIN db
    <3>1. crs' = UpdateKeys(crs, wr.row, db[id]) /\ db[id] \in Values
        BY <2>1 DEF FetchKeys, Shaped, Typed
    <3>2. Changes(crs, crs', wr.row, [crs.rvh[wr.row] EXCEPT !.curr = db[id], !.changed = Column])
        BY <1>1, <3>1, ShapedTypes, KeysChange
    <3>3. Changes(crs, crs', wr.row, row)
        BY <1>1, <1>3, <2>1, <3>2
    <3> QED BY <3>3 DEF Changes, NumRows
  <2>2. CASE id \notin DOMAIN db
    <3>1. crs' = crs /\ row = crs.rvh[wr.row]
        BY <1>1, <1>3, <2>2 DEF FetchKeys
    <3> QED BY <3>1
  <2> QED BY <2>1, <2>2
<1>6. Neat'
  <2>1. \A i \in 1..NumRows(crs) : NeatRow(crs.rvh[i])
      BY DEF Mirroring, Neat
  <2>2. NeatRow(row)
      BY <1>1, <1>4, <2>1 DEF NeatRow, Waits
  <2>3. \A i \in 1..NumRows(crs) : NeatRow(crs'.rvh[i])
      BY <1>5, <2>1, <2>2
  <2> QED BY <1>2, <1>5, <2>3 DEF Neat
<1>7. OwnRecord'
  <2>1. hist'.link = hist.link /\ hist.issued <= hist'.issued /\ hist'.issued \in Nat
      BY <1>1, ShapedTypes
  <2> QED BY <1>5, <2>1, OwnRecordStays DEF Mirroring
<1>8. ASSUME Untouched(wr.row)
      PROVE  Mirrored(row, id, db, "accept", table.auto)
  <2>1. Mirrored(Here, id, db, "keys", table.auto)
      BY <1>1, <1>8 DEF Mirroring, Mirror
  <2>2. id \in DOMAIN db /\ \A k \in Column \ table.auto : db[id][k] = ColumnObject(Here, k)
      BY <1>1, <2>1 DEF Mirrored
  <2>3. Fresh(Here)
      BY <1>1 DEF Mirroring, Neat, Created
  <2>4. ClearChanged(row).orig = db[id]
      BY <1>1, <1>4, <2>2, <2>3, KeysShow
  <2> QED BY <1>1, <1>4, <2>2, <2>4 DEF Mirrored, Has
<1>9. ASSUME NEW i \in 1..NumRows(crs), i # wr.row, Untouched(i)
      PROVE  Mirrored(crs.rvh[i], hist.link[i], db, "accept", table.auto)
  <2>1. ~Waits(crs.rvh[i])
      BY <1>1, <1>9, ShapedTypes
  <2>2. Mirrored(crs.rvh[i], hist.link[i], db, wr.pc, table.auto)
      BY <1>9 DEF Mirroring, Mirror
  <2> QED BY <2>1, <2>2, MirroredOn
<1>10. Mirror'
  <2>1. \A i \in 1..NumRows(crs) : Untouched(i)' => Untouched(i)
      BY <1>1 DEF Untouched
  <2>2. \A i \in 1..NumRows(crs) : Untouched(i)' =>
              Mirrored(crs'.rvh[i], hist.link[i], db, "accept", table.auto)
      BY <1>5, <1>8, <1>9, <2>1
  <2> QED BY <1>1, <1>2, <1>5, <2>2 DEF Mirror
<1>11. OneRecord'
    BY <1>2 DEF OneRecord
<1> QED BY <1>6, <1>7, <1>10, <1>11 DEF Mirroring

\* A conflict is undone: an update or a delete was not written, an insert goes.
LEMMA ResolveMirrors ==
    ASSUME Shaped, Single, Mirroring, ResolveRow
    PROVE  Mirroring'
<1>1. PICK m \in Pending(crs) :
              /\ m \in 1..NumRows(crs)
              /\ wr' = [wr EXCEPT !.failed = wr.failed \ {m}]
              /\ hist' = [hist EXCEPT !.link = SubSeq(hist.link, 1, NumRows(crs)')]
              /\ UNCHANGED <<table, db>>
              /\ \/ Kind(crs.rvh[m]) = "insert" /\ Shortens(crs, crs')
                 \/ /\ Kind(crs.rvh[m]) = "update"
                    /\ Changes(crs, crs', m, ClearUpdated(crs.rvh[m]))
                 \/ /\ Kind(crs.rvh[m]) = "delete"
                    /\ Changes(crs, crs', m, [crs.rvh[m] EXCEPT !.flags = @ \ {"removed"}])
    BY ResolveUndoes DEF Shaped
<1>2. wr.pc = "resolve" /\ wr'.pc = "resolve"
    BY <1>1, ShapedTypes DEF ResolveRow, WriterType
<1>3. /\ NumRows(crs) \in Nat /\ hist.link \in Seq(Nat) /\ Len(hist.link) = NumRows(crs)
      /\ \A i \in 1..NumRows(crs) : crs.rvh[i] \in Row /\ NeatRow(crs.rvh[i])
      /\ hist.issued \in Nat /\ Waits(crs.rvh[m])
    BY <1>1, ShapedTypes DEF Mirroring, Neat
<1>4. /\ hist'.link = SubSeq(hist.link, 1, NumRows(crs'))
      /\ hist'.issued = hist.issued /\ hist'.touched = hist.touched
    BY <1>1, ShapedTypes DEF HistoryType, NumRows
<1>5. \/ Shortens(crs, crs')
      \/ \E row : /\ Changes(crs, crs', m, row)
                  /\ row.flags \subseteq crs.rvh[m].flags /\ ~Waits(row) /\ row.orig = crs.rvh[m].orig
                  /\ row.changed = {} /\ "created" \notin crs.rvh[m].flags
  <2>1. CASE Kind(crs.rvh[m]) = "insert" /\ Shortens(crs, crs')
      BY <2>1
  <2>2. CASE Kind(crs.rvh[m]) = "update" /\ Changes(crs, crs', m, ClearUpdated(crs.rvh[m]))
    <3>1. "removed" \notin crs.rvh[m].flags /\ "created" \notin crs.rvh[m].flags
        BY <2>2 DEF Kind
    <3>2. PICK row : row = ClearUpdated(crs.rvh[m])
        OBVIOUS
    <3>3. row.flags = crs.rvh[m].flags \ {"updated"} /\ row.orig = crs.rvh[m].orig /\ row.changed = {}
        BY <1>1, <1>3, <3>2, ClearedRow
    <3>4. ~Waits(row) /\ row.flags \subseteq crs.rvh[m].flags
        BY <3>1, <3>3 DEF Waits
    <3>5. Changes(crs, crs', m, row)
        BY <2>2, <3>2
    <3> QED BY <3>1, <3>3, <3>4, <3>5
  <2>3. CASE /\ Kind(crs.rvh[m]) = "delete"
             /\ Changes(crs, crs', m, [crs.rvh[m] EXCEPT !.flags = @ \ {"removed"}])
    <3>1. "removed" \in crs.rvh[m].flags
        BY <2>3 DEF Kind
    <3>2. "created" \notin crs.rvh[m].flags /\ "updated" \notin crs.rvh[m].flags
        BY <1>1, <3>1 DEF Shaped, Linked, Created, Single
    <3>3. PICK row : row = [crs.rvh[m] EXCEPT !.flags = @ \ {"removed"}]
        OBVIOUS
    <3>4. row.flags = crs.rvh[m].flags \ {"removed"} /\ row.orig = crs.rvh[m].orig
          /\ row.changed = crs.rvh[m].changed
        BY <1>1, <1>3, <3>3 DEF Row
    <3>5. crs.rvh[m].changed = {}
        BY <1>1, <1>3, <3>2 DEF NeatRow
    <3>6. ~Waits(row) /\ row.flags \subseteq crs.rvh[m].flags
        BY <3>2, <3>4 DEF Waits
    <3>7. Changes(crs, crs', m, row)
        BY <2>3, <3>3
    <3> QED BY <3>2, <3>4, <3>5, <3>6, <3>7
  <2> QED BY <1>1, <2>1, <2>2, <2>3
<1>6. ASSUME NEW N \in Nat, N = NumRows(crs'), N <= NumRows(crs),
             \A i \in 1..N : /\ NeatRow(crs'.rvh[i])
                             /\ "created" \in crs'.rvh[i].flags => crs'.rvh[i] = crs.rvh[i]
                             /\ Untouched(i) =>
                                  Mirrored(crs'.rvh[i], hist.link[i], db, "resolve", table.auto)
      PROVE  Mirroring'
  <2>1. /\ NumRows(crs)' = N
        /\ \A i \in 1..N : i \in 1..NumRows(crs) /\ hist'.link[i] = hist.link[i]
      BY <1>3, <1>4, <1>6 DEF NumRows
  <2>2. Neat'
    <3>1. \A i \in 1..N : "created" \in crs'.rvh[i].flags => Fresh(crs'.rvh[i])
        BY <1>2, <1>6, <2>1 DEF Mirroring, Neat, Created
    <3> QED BY <1>6, <2>1, <3>1 DEF Neat, Created
  <2>3. OwnRecord'
      BY <1>4, <2>1 DEF Mirroring, OwnRecord
  <2>4. Mirror'
      BY <1>1, <1>2, <1>4, <1>6, <2>1 DEF Mirror, Untouched
  <2>5. OneRecord'
      BY <1>2 DEF OneRecord
  <2> QED BY <2>2, <2>3, <2>4, <2>5 DEF Mirroring
<1>7. \A i \in 1..NumRows(crs) : Untouched(i) =>
            Mirrored(crs.rvh[i], hist.link[i], db, "resolve", table.auto)
    BY <1>2 DEF Mirroring, Mirror
<1>8. CASE Shortens(crs, crs')
  <2>1. /\ NumRows(crs') \in Nat /\ NumRows(crs') = NumRows(crs) - 1
        /\ \A i \in 1..NumRows(crs') : i \in 1..NumRows(crs) /\ crs'.rvh[i] = crs.rvh[i]
      BY <1>8, ShapedTypes, ShortensWaits
  <2>2. NumRows(crs') <= NumRows(crs)
      BY <1>3, <2>1
  <2> QED BY <1>3, <1>6, <1>7, <2>1, <2>2
<1>9. ASSUME NEW row, Changes(crs, crs', m, row), row.flags \subseteq crs.rvh[m].flags, ~Waits(row),
             row.orig = crs.rvh[m].orig, row.changed = {}, "created" \notin crs.rvh[m].flags
      PROVE  Mirroring'
  <2>1. /\ NumRows(crs') = NumRows(crs)
        /\ \A i \in 1..NumRows(crs) : crs'.rvh[i] = IF i = m THEN row ELSE crs.rvh[i]
      BY <1>9 DEF Changes
  <2>2. NeatRow(row) /\ "created" \notin row.flags
      BY <1>9 DEF NeatRow
  <2>3. ASSUME Untouched(m)
        PROVE  Mirrored(row, hist.link[m], db, "resolve", table.auto)
    <3>1. Same(crs.rvh[m], hist.link[m], db)
        BY <1>1, <1>7, <1>9, <2>3 DEF Mirrored
    <3>2. "deleted" \notin crs.rvh[m].flags
        BY <1>1, <1>3 DEF NeatRow
    <3>3. Same(row, hist.link[m], db)
        BY <1>9, <3>1, <3>2 DEF Same
    <3> QED BY <2>2, <3>3 DEF Mirrored
  <2>4. \A i \in 1..NumRows(crs) :
              /\ NeatRow(crs'.rvh[i])
              /\ "created" \in crs'.rvh[i].flags => crs'.rvh[i] = crs.rvh[i]
              /\ Untouched(i) => Mirrored(crs'.rvh[i], hist.link[i], db, "resolve", table.auto)
      BY <1>3, <1>7, <2>1, <2>2, <2>3
  <2>5. NumRows(crs') <= NumRows(crs) /\ NumRows(crs') \in Nat
      BY <1>3, <2>1
  <2> QED BY <1>6, <2>1, <2>4, <2>5
<1> QED BY <1>5, <1>8, <1>9

\* Every statement of the writer, and the end of its call.
LEMMA WriterMirrors ==
    ASSUME Shaped, Single, Mirroring, Writer
    PROVE  Mirroring'
BY CheckMirrors, RefuseMirrors, WriteMirrors, InsertMirrors, FetchMirrors, FinishMirrors,
   ResolveMirrors, EndMirrors DEF Writer

----------------------------------------------------------------------------
(* How the client and other sessions keep it. *)

\* A row the client edits is the row it was read as, with edits.
Continues(row, r) ==
    /\ NeatRow(r)
    /\ "created" \in r.flags <=> "created" \in row.flags
    /\ "created" \in row.flags => Fresh(r)
    /\ "created" \notin row.flags =>
          r.orig = row.orig /\ ("deleted" \in r.flags <=> "deleted" \in row.flags)

\* A call of the client begins.
LEMMA StartMirrors ==
    ASSUME Shaped, Mirroring, wr = Idle, Arrived(crs', Idle, {}, wr'), UNCHANGED <<table, db, hist>>,
           NumRows(crs') = NumRows(crs),
           \A i \in 1..NumRows(crs) : Continues(crs.rvh[i], crs'.rvh[i])
    PROVE  Mirroring'
<1>1. NumRows(crs)' = NumRows(crs) /\ wr.pc = "idle" /\ NumRows(crs) \in Nat
    BY ShapedTypes DEF NumRows, Idle
<1>2. wr'.pc \notin {"keys", "idle", "resolve"}
    BY DEF Arrived
<1>3. ASSUME wr'.pc = "accept", NEW i \in 1..NumRows(crs)
      PROVE  ~Waits(crs'.rvh[i])
  <2>1. \A j \in Pending(crs') : j <= Idle.row
      BY <1>3 DEF Arrived
  <2>2. i \notin Pending(crs')
      BY <1>1, <2>1 DEF Idle
  <2> QED BY <2>2 DEF Pending, Waits
<1>4. Neat'
    BY <1>1 DEF Neat, Created, Continues
<1>5. OwnRecord'
  <2>1. hist'.link = hist.link /\ hist.issued <= hist'.issued /\ hist'.issued \in Nat
      BY ShapedTypes
  <2> QED BY <2>1, OwnRecordStays DEF Mirroring
<1>6. ASSUME NEW i \in 1..NumRows(crs), Untouched(i)
      PROVE  Mirrored(crs'.rvh[i], hist.link[i], db, wr'.pc, table.auto)
  <2>1. Mirrored(crs.rvh[i], hist.link[i], db, "idle", table.auto)
      BY <1>1, <1>6 DEF Mirroring, Mirror
  <2>2. Continues(crs.rvh[i], crs'.rvh[i])
      OBVIOUS
  <2>3. CASE "created" \in crs'.rvh[i].flags
    <3>1. wr'.pc # "accept"
        BY <1>3, <2>3 DEF Waits
    <3> QED BY <1>2, <2>3, <3>1 DEF Mirrored
  <2>4. CASE "created" \notin crs'.rvh[i].flags
    <3>1. Same(crs.rvh[i], hist.link[i], db)
        BY <2>1, <2>2, <2>4 DEF Mirrored, Continues
    <3>2. Same(crs'.rvh[i], hist.link[i], db)
        BY <2>2, <2>4, <3>1 DEF Same, Continues
    <3> QED BY <1>3, <2>4, <3>2 DEF Mirrored
  <2> QED BY <2>3, <2>4
<1>7. Mirror'
    BY <1>1, <1>6 DEF Mirror, Untouched
<1>8. OneRecord'
    BY ArrivedOne
<1> QED BY <1>4, <1>5, <1>7, <1>8 DEF Mirroring

\* A new row has no record yet.
LEMMA AddMirrors ==
    ASSUME Shaped, Mirroring, NEW vals \in Values, AddRow(vals)
    PROVE  Mirroring'
<1>1. /\ wr = Idle /\ UNCHANGED <<table, db, wr>>
      /\ hist' = [hist EXCEPT !.link = Append(hist.link, 0)]
      /\ Extends(crs, crs', [NewRow(vals) EXCEPT !.flags = {"created"}])
    BY ShapedTypes, AddAdds
<1>2. PICK n : n = NumRows(crs)
    OBVIOUS
<1>3. /\ n \in Nat /\ hist.link \in Seq(Nat) /\ Len(hist.link) = n /\ n = NumRows(crs)
      /\ hist.issued \in Nat
    BY <1>2, ShapedTypes
<1>4. hist'.link = Append(hist.link, 0) /\ hist'.issued = hist.issued /\ hist'.touched = hist.touched
    BY <1>1, ShapedTypes DEF HistoryType
<1>5. \A i \in 1..(n + 1) : hist'.link[i] = IF i = n + 1 THEN 0 ELSE hist.link[i]
    BY <1>3, <1>4
<1>6. PICK row : row = [NewRow(vals) EXCEPT !.flags = {"created"}]
    OBVIOUS
<1>7. row.flags = {"created"} /\ row.curr = NoValues /\ row.changed = {}
    BY <1>6 DEF NewRow
<1>8. /\ NumRows(crs)' = n + 1
      /\ \A i \in 1..(n + 1) : crs'.rvh[i] = IF i = n + 1 THEN row ELSE crs.rvh[i]
    BY <1>1, <1>3, <1>6 DEF Extends, NumRows
<1>9. \A i \in 1..(n + 1) : i # n + 1 => i \in 1..NumRows(crs)
    BY <1>3
<1>10. wr.pc = "idle" /\ wr'.pc = "idle"
    BY <1>1 DEF Idle
<1>11. Neat'
  <2>1. NeatRow(row) /\ Fresh(row)
      BY <1>7 DEF NeatRow, Fresh, Waits, NoValues
  <2>2. \A i \in 1..(n + 1) : /\ NeatRow(crs'.rvh[i])
                              /\ "created" \in crs'.rvh[i].flags => Fresh(crs'.rvh[i])
      BY <1>8, <1>9, <1>10, <2>1 DEF Mirroring, Neat, Created
  <2> QED BY <1>8, <2>2 DEF Neat, Created
<1>12. OwnRecord'
  <2>1. \A i \in 1..NumRows(crs) : hist.link[i] <= hist.issued
      BY DEF Mirroring, OwnRecord
  <2>2. \A i, j \in 1..NumRows(crs) : hist.link[i] = hist.link[j] /\ hist.link[i] # 0 => i = j
      BY DEF Mirroring, OwnRecord
  <2>3. \A i \in 1..(n + 1) : hist'.link[i] <= hist'.issued
    <3> SUFFICES ASSUME NEW i \in 1..(n + 1) PROVE hist'.link[i] <= hist.issued
        BY <1>4
    <3>1. CASE i = n + 1
        BY <1>3, <1>5, <3>1
    <3>2. CASE i # n + 1
        BY <1>5, <1>9, <2>1, <3>2
    <3> QED BY <3>1, <3>2
  <2>4. \A i, j \in 1..(n + 1) : hist'.link[i] = hist'.link[j] /\ hist'.link[i] # 0 => i = j
      BY <1>5, <1>9, <2>2
  <2> QED BY <1>8, <2>3, <2>4 DEF OwnRecord
<1>13. Mirror'
  <2>1. \A i \in 1..(n + 1) : Untouched(i)' => i # n + 1 /\ i \in 1..NumRows(crs) /\ Untouched(i)
      BY <1>4, <1>5, <1>9 DEF Untouched
  <2>2. \A i \in 1..(n + 1) : Untouched(i)' =>
              Mirrored(crs'.rvh[i], hist'.link[i], db, "idle", table.auto)
      BY <1>5, <1>8, <1>10, <2>1 DEF Mirroring, Mirror
  <2> QED BY <1>1, <1>8, <1>10, <2>2 DEF Mirror
<1>14. OneRecord'
    BY <1>10 DEF OneRecord
<1> QED BY <1>11, <1>12, <1>13, <1>14 DEF Mirroring

\* Any call of the client.
LEMMA ClientMirrors ==
    ASSUME NULL \notin Writable, Shaped, Single, Mirroring, Client
    PROVE  Mirroring'
<1>1. /\ Typed /\ Formed(crs) /\ ~crs.onInsertRow /\ NumRows(crs) \in Nat
      /\ \A i \in 1..NumRows(crs) : crs.rvh[i] \in Row /\ NeatRow(crs.rvh[i])
    BY ShapedTypes DEF Mirroring, Neat
<1>2. ASSUME wr = Idle, NEW i \in 1..NumRows(crs)
      PROVE  Continues(crs.rvh[i], crs.rvh[i])
  <2>1. Created(i) => Fresh(crs.rvh[i])
      BY <1>2 DEF Mirroring, Neat, Idle
  <2> QED BY <1>1, <2>1 DEF Continues, Created
<1>3. ASSUME wr = Idle, Arrived(crs', Idle, {}, wr'), UNCHANGED <<table, db, hist>>,
             NEW p \in 1..NumRows(crs), NEW row, Changes(crs, crs', p, row),
             Continues(crs.rvh[p], row)
      PROVE  Mirroring'
  <2>1. /\ NumRows(crs') = NumRows(crs)
        /\ \A i \in 1..NumRows(crs) : crs'.rvh[i] = IF i = p THEN row ELSE crs.rvh[i]
      BY <1>3 DEF Changes
  <2>2. \A i \in 1..NumRows(crs) : Continues(crs.rvh[i], crs'.rvh[i])
      BY <1>2, <1>3, <2>1
  <2> QED BY <1>3, <2>1, <2>2, StartMirrors
<1>4. ASSUME NEW n \in Int, DeleteAt(n)
      PROVE  Mirroring'
  <2>1. /\ wr = Idle /\ UNCHANGED <<table, db, hist>> /\ Arrived(crs', Idle, {}, wr')
        /\ \E p \in 1..NumRows(crs) :
                 /\ crs.rvh[p].flags \cap {"deleted", "created", "removed"} = {}
                 /\ Changes(crs, crs', p, [crs.rvh[p] EXCEPT !.flags = @ \cup {"removed"}])
      BY <1>1, <1>4, DeleteEdits
  <2>2. PICK p \in 1..NumRows(crs) :
                 /\ crs.rvh[p].flags \cap {"deleted", "created", "removed"} = {}
                 /\ Changes(crs, crs', p, [crs.rvh[p] EXCEPT !.flags = @ \cup {"removed"}])
      BY <2>1
  <2>3. PICK row : row = [crs.rvh[p] EXCEPT !.flags = @ \cup {"removed"}]
      OBVIOUS
  <2>4. /\ row.flags = crs.rvh[p].flags \cup {"removed"} /\ row.orig = crs.rvh[p].orig
        /\ row.changed = crs.rvh[p].changed /\ row.curr = crs.rvh[p].curr
      BY <1>1, <2>3 DEF Row
  <2>5. Changes(crs, crs', p, row)
      BY <2>2, <2>3
  <2>6. Continues(crs.rvh[p], row)
      BY <1>1, <2>2, <2>4 DEF Continues, NeatRow, Waits
  <2> QED BY <1>3, <2>1, <2>5, <2>6
<1>5. ASSUME NEW n \in Int, NEW col \in Column, NEW val \in Writable, UpdateAt(n, col, val)
      PROVE  Mirroring'
  <2>1. /\ wr = Idle /\ UNCHANGED <<table, db, hist>> /\ Arrived(crs', Idle, {}, wr')
        /\ \E p \in 1..NumRows(crs) :
                 /\ "deleted" \notin crs.rvh[p].flags
                 /\ Changes(crs, crs', p, SetUpdated(SetColumnObject(crs.rvh[p], col, val)))
      BY <1>1, <1>5, UpdateEdits
  <2>2. PICK p \in 1..NumRows(crs) :
                 /\ "deleted" \notin crs.rvh[p].flags
                 /\ Changes(crs, crs', p, SetUpdated(SetColumnObject(crs.rvh[p], col, val)))
      BY <2>1
  <2>3. PICK row : row = SetUpdated(SetColumnObject(crs.rvh[p], col, val))
      OBVIOUS
  <2>4. val \in Datum /\ val # NULL
      BY WritableAssumption
  <2>5. row.flags = crs.rvh[p].flags \cup {"updated"} /\ row.orig = crs.rvh[p].orig
      BY <1>1, <2>3, <2>4, UpdatedRow
  <2>6. NeatRow(row) /\ (Fresh(crs.rvh[p]) => Fresh(row))
      BY <1>1, <2>2, <2>3, <2>4, UpdatedNeat
  <2>7. Changes(crs, crs', p, row)
      BY <2>2, <2>3
  <2>8. Continues(crs.rvh[p], row)
      BY <1>2, <2>1, <2>5, <2>6 DEF Continues
  <2> QED BY <1>3, <2>1, <2>7, <2>8
<1>6. ASSUME NEW n \in Int, Browse(n)
      PROVE  Mirroring'
  <2>1. crs' = Absolute(crs, n) /\ UNCHANGED <<table, db, wr, hist>> /\ wr = Idle
      BY <1>6 DEF Browse
  <2>2. Steers(crs, crs')
      BY <1>1, <1>6, <2>1, AbsoluteSteers
  <2>3. crs'.rvh = crs.rvh /\ wr.pc = "idle" /\ wr'.pc = "idle"
      BY <2>1, <2>2 DEF Steers, Idle
  <2>4. Neat' /\ OwnRecord' /\ Mirror'
      BY <2>1, <2>3, GoingOnMirrors DEF Mirroring
  <2>5. OneRecord'
      BY <2>3 DEF OneRecord
  <2> QED BY <2>4, <2>5 DEF Mirroring
<1>7. CASE AcceptInserts
  <2>1. wr = Idle /\ Start(crs, TRUE) /\ UNCHANGED <<table, db, hist>>
      BY <1>7 DEF AcceptInserts
  <2>2. crs' = crs /\ Arrived(crs', Idle, {}, wr')
      BY <1>1, <2>1, StartArrives
  <2> QED BY <1>2, <2>1, <2>2, StartMirrors
<1> QED BY <1>1, <1>4, <1>5, <1>6, <1>7, AddMirrors, ClientSteps

\* A record that another session writes comes to be like others only when they
\* are touched by that.
LEMMA OthersTwins ==
    ASSUME Typed, Others, NEW id \in DOMAIN db'
    PROVE  \/ id \in DOMAIN db /\ db'[id] = db[id]
           \/ \A t \in DOMAIN db : db[t] = db'[id] => t \in hist'.touched
<1>1. hist \in HistoryType
    BY DEF Typed
<1>2. ASSUME NEW o \in DOMAIN db, OtherDelete(o)
      PROVE  id \in DOMAIN db /\ db'[id] = db[id]
    BY <1>2 DEF OtherDelete
<1>3. ASSUME NEW o \in DOMAIN db, NEW vals \in NewValues, OtherUpdate(o, vals)
      PROVE  \/ id \in DOMAIN db /\ db'[id] = db[id]
             \/ \A t \in DOMAIN db : db[t] = db'[id] => t \in hist'.touched
  <2>1. db' = [db EXCEPT ![o] = vals] /\ Touch({o} \cup Twins(vals))
      BY <1>3 DEF OtherUpdate
  <2>2. hist'.touched = hist.touched \cup ({o} \cup Twins(vals))
      BY <1>1, <2>1 DEF Touch, HistoryType
  <2>3. CASE id # o
      BY <2>1, <2>3
  <2>4. CASE id = o
    <3>1. db'[id] = vals
        BY <2>1, <2>4
    <3>2. \A t \in DOMAIN db : db[t] = vals => t \in Twins(vals)
        BY DEF Twins
    <3> QED BY <2>2, <3>1, <3>2
  <2> QED BY <2>3, <2>4
<1>4. ASSUME NEW vals \in NewValues, OtherInsert(vals)
      PROVE  \/ id \in DOMAIN db /\ db'[id] = db[id]
             \/ \A t \in DOMAIN db : db[t] = db'[id] => t \in hist'.touched
  <2>1. db' = [i \in DOMAIN db \cup {hist.issued + 1} |-> IF i \in DOMAIN db THEN db[i] ELSE vals]
      BY <1>4 DEF OtherInsert
  <2>2. hist'.touched = hist.touched \cup (Twins(vals) \cup {hist.issued + 1})
      BY <1>1, <1>4 DEF OtherInsert, HistoryType
  <2>3. CASE id \in DOMAIN db
      BY <2>1, <2>3
  <2>4. CASE id \notin DOMAIN db
    <3>1. db'[id] = vals
        BY <2>1, <2>4
    <3>2. \A t \in DOMAIN db : db[t] = vals => t \in Twins(vals)
        BY DEF Twins
    <3> QED BY <2>2, <3>1, <3>2
  <2> QED BY <2>3, <2>4
<1> QED BY <1>2, <1>3, <1>4 DEF Others

\* Other sessions.
LEMMA OthersMirror ==
    ASSUME Shaped, Mirroring, Others
    PROVE  Mirroring'
<1>1. /\ UNCHANGED <<crs, table, wr>>
      /\ hist'.link = hist.link /\ hist.issued <= hist'.issued /\ hist'.issued \in Nat
      /\ hist.touched \subseteq hist'.touched
      /\ \A id \in DOMAIN db' : db'[id] \in Values
      /\ \A id : id \notin hist'.touched =>
            /\ id \in DOMAIN db' <=> id \in DOMAIN db
            /\ id \in DOMAIN db => db'[id] = db[id]
  <2>1. Typed
      BY DEF Shaped
  <2>2. hist' \in HistoryType
      BY <2>1, OthersTouch
  <2>3. hist'.issued \in Nat
      BY <2>2 DEF HistoryType
  <2> QED BY <2>1, <2>3, OthersTouch
<1>2. Neat'
    BY <1>1 DEF Mirroring, Neat, Created
<1>3. OwnRecord'
    BY <1>1, OwnRecordStays DEF Mirroring
<1>4. \A i : Untouched(i)' => Untouched(i) /\ hist.link[i] \notin hist'.touched
    BY <1>1 DEF Untouched
<1>5. ASSUME NEW i \in 1..NumRows(crs), Untouched(i)'
      PROVE  Mirrored(crs.rvh[i], hist.link[i], db', wr.pc, table.auto)
  <2>1. Mirrored(crs.rvh[i], hist.link[i], db, wr.pc, table.auto)
      BY <1>4, <1>5 DEF Mirroring, Mirror
  <2>2. /\ hist.link[i] \in DOMAIN db' <=> hist.link[i] \in DOMAIN db
        /\ hist.link[i] \in DOMAIN db => db'[hist.link[i]] = db[hist.link[i]]
      BY <1>1, <1>4, <1>5
  <2> QED BY <2>1, <2>2, MirroredInOther
<1>6. Mirror'
    BY <1>1, <1>5 DEF Mirror
<1>7. ASSUME wr.pc = "write", Kind(Here) # "insert", ~table.pk, Untouched(wr.row),
             hist.link[wr.row] \notin hist'.touched, NEW id \in DOMAIN db', \A k \in Column : db'[id][k] = Here.orig[k]
      PROVE  id = hist.link[wr.row]
  <2>1. Matches(Here) = {hist.link[wr.row]} /\ db[hist.link[wr.row]] = Here.orig
      BY <1>7, OneMatch
  <2>2. hist.link[wr.row] \in DOMAIN db
      BY <2>1 DEF Matches
  <2>3. db'[id] = Here.orig
    <3>1. Here.orig \in Values
        BY <1>7, HereIsRow DEF Shaped, AtRow, Row
    <3>2. db'[id] \in Values
        BY <1>1
    <3> QED BY <1>7, <3>1, <3>2 DEF Values
  <2>4. CASE id \in DOMAIN db /\ db'[id] = db[id]
    <3>1. id \in Matches(Here)
        BY <2>3, <2>4 DEF Matches, KeyColumns
    <3> QED BY <2>1, <3>1
  <2>5. CASE \A t \in DOMAIN db : db[t] = db'[id] => t \in hist'.touched
      BY <1>7, <2>1, <2>2, <2>3, <2>5
  <2> QED BY <2>4, <2>5, OthersTwins DEF Shaped
<1>8. OneRecord'
    BY <1>1, <1>7 DEF OneRecord, Here, Matches, KeyColumns, Untouched
<1> QED BY <1>2, <1>3, <1>6, <1>8 DEF Mirroring

\* Every step.
LEMMA NextMirrors ==
    NULL \notin Writable /\ Shaped /\ Single /\ Mirroring /\ [Next]_vars => Mirroring'
<1> SUFFICES ASSUME NULL \notin Writable, Shaped, Single, Mirroring, [Next]_vars
             PROVE  Mirroring'
    OBVIOUS
<1>1. CASE Writer
    BY <1>1, WriterMirrors
<1>2. CASE Client
    BY <1>2, ClientMirrors
<1>3. CASE Others
    BY <1>3, OthersMirror
<1>4. CASE UNCHANGED vars
  <2>1. UNCHANGED <<crs, table, db, wr, hist>>
      BY <1>4 DEF vars
  <2> QED BY <2>1 DEF Mirroring, Neat, OwnRecord, Mirror, OneRecord, Created, Untouched, Here,
                      Matches, KeyColumns
<1> QED BY <1>1, <1>2, <1>3, <1>4 DEF Next

\* At first the rows are the records.
LEMMA InitMirrors == Init => Mirroring
<1> SUFFICES ASSUME Init PROVE Mirroring
    OBVIOUS
<1>1. MaxInit \in Nat
    BY BoundAssumption
<1>2. PICK n \in 0..MaxInit : \E rows \in [1..n -> Values], show \in BOOLEAN :
          /\ db = rows
          /\ crs = Populate(rows, show)
          /\ hist = [link |-> [i \in 1..n |-> i], issued |-> n,
                     others |-> 0, touched |-> {}, window |-> {}]
    BY DEF Init
<1>3. PICK rows \in [1..n -> Values], show \in BOOLEAN :
          /\ db = rows
          /\ crs = Populate(rows, show)
          /\ hist = [link |-> [i \in 1..n |-> i], issued |-> n,
                     others |-> 0, touched |-> {}, window |-> {}]
    BY <1>2
<1>4. n \in Nat
    BY <1>1
<1>5. NumRows(crs) = n /\ \A i \in 1..n : crs.rvh[i] = NewRow(rows[i])
    BY <1>3, <1>4, PopulateRows
<1>6. \A i \in 1..n : /\ crs.rvh[i].flags = {} /\ crs.rvh[i].changed = {}
                      /\ crs.rvh[i].orig = rows[i]
  <2>1. \A i \in 1..n : /\ NewRow(rows[i]).flags = {} /\ NewRow(rows[i]).changed = {}
                        /\ NewRow(rows[i]).orig = rows[i]
      BY DEF NewRow
  <2> QED BY <1>5, <2>1
<1>7. hist.issued = n /\ \A i \in 1..n : hist.link[i] = i
    BY <1>3
<1>8. wr.pc = "idle"
    BY DEF Init, Idle
<1>9. Neat
    BY <1>5, <1>6 DEF Neat, NeatRow, Waits, Created
<1>10. OwnRecord
    BY <1>4, <1>5, <1>7 DEF OwnRecord
<1>11. Mirror
  <2>1. \A i \in 1..n : Same(crs.rvh[i], hist.link[i], db)
      BY <1>3, <1>6, <1>7 DEF Same, Has
  <2> QED BY <1>5, <1>6, <1>8, <2>1 DEF Mirror, Mirrored
<1>12. OneRecord
    BY <1>8 DEF OneRecord
<1> QED BY <1>9, <1>10, <1>11, <1>12 DEF Mirroring

(* CacheMirrorsDb holds for any table, any number of rows and records and   *)
(* of writes of other sessions, any statement failing, whenever one edit    *)
(* waits at a time and none is to NULL (CachedRowSetWriter.java,            *)
(* RowSetBase.java): the row set does not drift from the table by itself.   *)
THEOREM CacheMirrorsDbInvariant ==
    ASSUME MaxPending = 1, NULL \notin Writable
    PROVE  Spec => []CacheMirrorsDb
<1>1. Shaped /\ Mirroring => CacheMirrorsDb
  <2> SUFFICES ASSUME Shaped, Mirroring, wr = Idle, NEW i \in 1..NumRows(crs), Settled(i)
               PROVE  IF "deleted" \in crs.rvh[i].flags
                      THEN hist.link[i] \notin DOMAIN db
                      ELSE /\ hist.link[i] \in DOMAIN db
                           /\ db[hist.link[i]] = Shows(crs.rvh[i])
      BY DEF CacheMirrorsDb
  <2>1. ~Waits(crs.rvh[i]) /\ crs.rvh[i] \in Row
      BY ShapedTypes DEF Settled
  <2>2. Untouched(i)
      BY <2>1 DEF Shaped, Linked, Created, Waits, Settled, Untouched
  <2>3. Same(crs.rvh[i], hist.link[i], db)
      BY <2>1, <2>2 DEF Mirroring, Mirror, Mirrored, Waits
  <2>4. crs.rvh[i].changed = {}
      BY <2>1 DEF Mirroring, Neat, NeatRow, Waits
  <2>5. Shows(crs.rvh[i]) = crs.rvh[i].orig
    <3>1. crs.rvh[i].orig = [k \in Column |-> crs.rvh[i].orig[k]]
        BY <2>1 DEF Row, Values
    <3> QED BY <2>4, <3>1 DEF Shows, ColumnObject
  <2> QED BY <2>3, <2>5 DEF Same, Has
<1>2. Init => Mirroring
    BY InitMirrors
<1>3. Shaped /\ Single /\ Mirroring /\ [Next]_vars => Mirroring'
    BY NextMirrors
<1> QED BY <1>1, <1>2, <1>3, SingleInvariant, PTL DEF Spec
----------------------------------------------------------------------------
(* The operators of AtomicRowSet are those of RowSetBase. *)

\* The rows to see.
LEMMA SameSize ==
    ASSUME NEW c
    PROVE  Atomic!Size(c) = Size(c)
BY Zenon DEF Size, Atomic!Size, NumRows, Atomic!NumRows, Cardinality, Atomic!Cardinality

\* The row number of a place of the cursor.
LEMMA SameAbsolutePos ==
    ASSUME NEW deleted, NEW pos
    PROVE  Atomic!AbsolutePos(deleted, pos) = AbsolutePos(deleted, pos)
BY Zenon DEF AbsolutePos, Atomic!AbsolutePos, Cardinality, Atomic!Cardinality

\* The place of the cursor of a row number.
LEMMA SameCursorPos ==
    ASSUME NEW c, NEW row
    PROVE  Atomic!CursorPos(c, row) = CursorPos(c, row)
BY Zenon DEF CursorPos, Atomic!CursorPos, AbsolutePos, Atomic!AbsolutePos,
             Min, Atomic!Min, Cardinality, Atomic!Cardinality

\* absolute.
LEMMA SameAbsolute ==
    ASSUME NEW c, NEW n
    PROVE  Atomic!Absolute(c, n) = Absolute(c, n)
BY SameSize, SameCursorPos, Zenon DEF Absolute, Atomic!Absolute, BeforeFirst, Atomic!BeforeFirst,
   InternalAfterLast, Atomic!InternalAfterLast, NumRows, Atomic!NumRows

\* last.
LEMMA SameLast ==
    ASSUME NEW c
    PROVE  Atomic!Last(c) = Last(c)
BY Zenon DEF Last, Atomic!Last, IsEmpty, Atomic!IsEmpty, Size, Atomic!Size,
   InternalAfterLast, Atomic!InternalAfterLast, NumRows, Atomic!NumRows, InternalPrevious,
   Atomic!InternalPrevious, Shown, Atomic!Shown, BeforeFirst, Atomic!BeforeFirst,
   Max, Atomic!Max, Cardinality, Atomic!Cardinality

\* populate.
LEMMA SamePopulate ==
    ASSUME NEW rows, NEW show
    PROVE  Atomic!Populate(rows, show) = Populate(rows, show)
BY Zenon DEF Populate, Atomic!Populate, NewRow, Atomic!NewRow, NoValues, Atomic!NoValues

\* The edits of a row, and the insert of one.
LEMMA SameEdits ==
    ASSUME NEW c
    PROVE  /\ \A col, val : Atomic!UpdateRow(Atomic!UpdateColumn(c, col, val))
                              = UpdateRow(UpdateColumn(c, col, val))
           /\ Atomic!DeleteRow(c) = DeleteRow(c)
           /\ \A buffer : Atomic!MoveToCurrentRow(Atomic!InsertRow(
                                [Atomic!MoveToInsertRow(c) EXCEPT !.insertRow = buffer]))
                            = MoveToCurrentRow(InsertRow(
                                [MoveToInsertRow(c) EXCEPT !.insertRow = buffer]))
<1>1. \A col, val : Atomic!UpdateRow(Atomic!UpdateColumn(c, col, val))
                      = UpdateRow(UpdateColumn(c, col, val))
  <2>1. \A col, val : Atomic!UpdateColumn(c, col, val) = UpdateColumn(c, col, val)
      BY Zenon DEF UpdateColumn, Atomic!UpdateColumn, SetColumnObject, Atomic!SetColumnObject
  <2>2. \A d : Atomic!UpdateRow(d) = UpdateRow(d)
      BY Zenon DEF UpdateRow, Atomic!UpdateRow, SetUpdated, Atomic!SetUpdated
  <2> QED BY <2>1, <2>2, Zenon
<1>2. Atomic!DeleteRow(c) = DeleteRow(c)
    BY Zenon DEF DeleteRow, Atomic!DeleteRow
<1>3. \A buffer : Atomic!MoveToCurrentRow(Atomic!InsertRow(
                      [Atomic!MoveToInsertRow(c) EXCEPT !.insertRow = buffer]))
                    = MoveToCurrentRow(InsertRow([MoveToInsertRow(c) EXCEPT !.insertRow = buffer]))
    BY Zenon DEF MoveToCurrentRow, Atomic!MoveToCurrentRow, InsertRow, Atomic!InsertRow,
       MoveToInsertRow, Atomic!MoveToInsertRow, NewRow, Atomic!NewRow, NoValues, Atomic!NoValues
<1> QED BY <1>1, <1>2, <1>3

\* What may come out of a call that writes.
LEMMA SameOutcomes ==
    ASSUME NEW c
    PROVE  Atomic!Outcomes(c) = Outcomes(c)
<1>1. \A d : Atomic!SetOriginal(d) = SetOriginal(d)
  <2>1. \A row : Atomic!ClearChanged(row) = ClearChanged(row)
      BY Zenon DEF ClearChanged, Atomic!ClearChanged
  <2>2. \A row : Atomic!MoveCurrentToOrig(row) = MoveCurrentToOrig(row)
      BY DEF MoveCurrentToOrig, Atomic!MoveCurrentToOrig
  <2>3. ASSUME NEW row
        PROVE  Atomic!MakeRowOriginal(row) = MakeRowOriginal(row)
    <3>1. PICK born : born = IF "created" \in row.flags
                 THEN [ClearChanged(row) EXCEPT !.flags = (@ \cup {"inserted"}) \ {"created"}]
                 ELSE row
        OBVIOUS
    <3>2. PICK moved : moved = IF "updated" \in born.flags THEN MoveCurrentToOrig(born) ELSE born
        OBVIOUS
    <3>3. MakeRowOriginal(row) = IF "removed" \in moved.flags
              THEN [moved EXCEPT !.flags = (@ \cup {"deleted"}) \ {"removed"}] ELSE moved
        BY <3>1, <3>2, Zenon DEF MakeRowOriginal
    <3>4. born = IF "created" \in row.flags
                 THEN [Atomic!ClearChanged(row) EXCEPT !.flags = (@ \cup {"inserted"}) \ {"created"}]
                 ELSE row
        BY <2>1, <3>1, Zenon
    <3>5. moved = IF "updated" \in born.flags THEN Atomic!MoveCurrentToOrig(born) ELSE born
        BY <2>2, <3>2, Zenon
    <3>6. Atomic!MakeRowOriginal(row) = IF "removed" \in moved.flags
              THEN [moved EXCEPT !.flags = (@ \cup {"deleted"}) \ {"removed"}] ELSE moved
        BY <3>4, <3>5, Zenon DEF Atomic!MakeRowOriginal
    <3> QED BY <3>3, <3>6
  <2> QED BY <2>3, Zenon DEF SetOriginal, Atomic!SetOriginal, NumRows, Atomic!NumRows
<1>2. \A d, failed : Atomic!UndoConflicts(d, failed) = UndoConflicts(d, failed)
    BY Zenon DEF UndoConflicts, Atomic!UndoConflicts, NumRows, Atomic!NumRows,
       UndoConflict, Atomic!UndoConflict, Kind, Atomic!Kind, UndoUpdate, Atomic!UndoUpdate,
       RefreshRow, Atomic!RefreshRow, ClearUpdated, Atomic!ClearUpdated,
       NoValues, Atomic!NoValues, UndoDelete, Atomic!UndoDelete, UndoInsert, Atomic!UndoInsert
<1>3. \A d : Atomic!CloseResolver(d) = CloseResolver(d)
    BY SameAbsolutePos, Zenon DEF CloseResolver, Atomic!CloseResolver
<1>4. \A d, failed : Atomic!AcceptChanges(d, failed) = AcceptChanges(d, failed)
    BY <1>1, <1>2, <1>3, Zenon DEF AcceptChanges, Atomic!AcceptChanges
<1>5. Atomic!Pending(c) = Pending(c) /\ \A row : Atomic!Kind(row) = Kind(row)
    BY Zenon DEF Pending, Atomic!Pending, NumRows, Atomic!NumRows, Kind, Atomic!Kind
<1>6. Atomic!NumRows(c) = NumRows(c) /\ Atomic!Values = Values
    BY Zenon DEF NumRows, Atomic!NumRows, Values, Atomic!Values, Datum, Atomic!Datum
<1>7. \A vals : Atomic!StoredRows(c, vals) = StoredRows(c, vals)
    BY DEF StoredRows, Atomic!StoredRows, NumRows, Atomic!NumRows, UpdateKeys, Atomic!UpdateKeys
<1> DEFINE made == {i \in Pending(c) : Kind(c.rvh[i]) = "insert"}
           created == {i \in Atomic!Pending(c) : Atomic!Kind(c.rvh[i]) = "insert"}
           stored == UNION {[new -> Values] : new \in SUBSET made}
           atomic == UNION {[new -> Atomic!Values] : new \in SUBSET created}
<1>8. created = made
    BY <1>5, Zenon
<1>9. \A x : x \in Outcomes(c) <=>
         \E vals \in stored, failed \in SUBSET Pending(c) :
            x = AcceptChanges(StoredRows(c, vals), failed)
    BY SMT DEF Outcomes
<1>10. \A x : x \in Atomic!Outcomes(c) <=>
         \E vals \in atomic, failed \in SUBSET Atomic!Pending(c) :
            x = Atomic!AcceptChanges(Atomic!StoredRows(c, vals), failed)
    BY SMT DEF Atomic!Outcomes
<1> HIDE DEF made, created
<1>11. atomic = stored
    BY <1>6, <1>8, Zenon
<1> HIDE DEF stored, atomic
<1>12. \A d : d \in Atomic!Outcomes(c) <=> d \in Outcomes(c)
    BY <1>4, <1>5, <1>6, <1>7, <1>8, <1>9, <1>10, <1>11, SMT
<1>13. PICK S, T : S = Atomic!Outcomes(c) /\ T = Outcomes(c)
    OBVIOUS
<1> QED BY <1>12, <1>13, SMT
----------------------------------------------------------------------------
(* The bits of deletedRows stay bits of rows.                              *)

\* Calls of the client keep it: no created row is deleted.
LEMMA ClientKeepsTombs ==
    ASSUME Typed, Tombs(crs), Client
    PROVE  Tombs(crs')
<1>1. Formed(crs) /\ ~crs.onInsertRow /\ NumRows(crs) \in Nat
    BY RowsOfCache DEF Typed
<1>2. ASSUME NEW n \in Int, DeleteAt(n)
      PROVE  Tombs(crs')
  <2>1. PICK at : at = Absolute(crs, n)
      OBVIOUS
  <2>2. Steers(crs, at) /\ at.cursorPos \in 1..NumRows(crs)
      BY <1>1, <1>2, <2>1, AbsoluteSteers DEF DeleteAt
  <2>3. /\ at.rvh = crs.rvh /\ at.deletedRows = crs.deletedRows /\ Formed(at) /\ ~at.onInsertRow
        /\ NumRows(at) = NumRows(crs)
      BY <1>1, <2>2 DEF Steers, NumRows
  <2>4. PICK p : p = at.cursorPos
      OBVIOUS
  <2>5. crs' = DeleteRow(at) /\ "created" \notin crs.rvh[p].flags
      BY <1>2, <2>1, <2>3, <2>4 DEF DeleteAt, Start
  <2>6. PICK row : row = [at.rvh[p] EXCEPT !.flags = @ \cup {"removed"}]
      OBVIOUS
  <2>7. Changes(at, crs', p, row)
      BY <2>2, <2>3, <2>4, <2>5, <2>6, DeleteChanges
  <2>8. row.flags = crs.rvh[p].flags \cup {"removed"}
      BY <1>1, <2>2, <2>3, <2>4, <2>6, RowsOfCache DEF Row
  <2>9. crs'.deletedRows = crs.deletedRows \cup {p}
      BY <2>3, <2>4, <2>5, CallsKeepBits
  <2>10. /\ NumRows(crs') = NumRows(crs)
         /\ \A i \in 1..NumRows(crs) :
               "created" \in crs'.rvh[i].flags <=> "created" \in crs.rvh[i].flags
      BY <2>3, <2>7, <2>8 DEF Changes
  <2>11. p \in 1..NumRows(crs) /\ "created" \notin crs'.rvh[p].flags
      BY <2>2, <2>4, <2>5, <2>10
  <2> QED BY <2>9, <2>10, <2>11 DEF Tombs
<1>3. ASSUME NEW n \in Int, NEW col \in Column, NEW val \in Writable, UpdateAt(n, col, val)
      PROVE  Tombs(crs')
  <2>1. PICK at : at = Absolute(crs, n)
      OBVIOUS
  <2>2. Steers(crs, at)
      BY <1>1, <2>1, AbsoluteSteers
  <2>3. at.deletedRows = crs.deletedRows /\ Formed(at) /\ ~at.onInsertRow
      BY <1>1, <2>2 DEF Steers
  <2>4. crs' = UpdateRow(UpdateColumn(at, col, val))
      BY <1>3, <2>1 DEF UpdateAt, Start
  <2>5. crs'.deletedRows = crs.deletedRows
      BY <2>3, <2>4, CallsKeepBits
  <2>6. PICK p \in 1..NumRows(crs) :
            Changes(crs, crs', p, SetUpdated(SetColumnObject(crs.rvh[p], col, val)))
      BY <1>3, UpdateEdits
  <2>7. PICK row : row = SetUpdated(SetColumnObject(crs.rvh[p], col, val))
      OBVIOUS
  <2>8. row.flags = crs.rvh[p].flags \cup {"updated"}
      BY <1>1, <2>7, RowsOfCache, UpdatedRow, WritableAssumption
  <2>9. /\ NumRows(crs') = NumRows(crs)
        /\ \A i \in 1..NumRows(crs) :
              "created" \in crs'.rvh[i].flags <=> "created" \in crs.rvh[i].flags
      BY <2>6, <2>7, <2>8 DEF Changes
  <2> QED BY <2>5, <2>9, TombsStay
<1>4. ASSUME NEW n \in Int, Browse(n)
      PROVE  Tombs(crs')
  <2>1. Steers(crs, crs')
      BY <1>1, <1>4, AbsoluteSteers DEF Browse
  <2> QED BY <2>1 DEF Steers, Tombs, NumRows
<1>5. ASSUME NEW vals \in Values, AddRow(vals)
      PROVE  Tombs(crs')
  <2>1. PICK row : row = [NewRow(vals) EXCEPT !.flags = {"created"}]
      OBVIOUS
  <2>2. Extends(crs, crs', row) /\ row.flags = {"created"}
      BY <1>5, <2>1, AddAdds DEF NewRow
  <2>3. crs'.deletedRows = crs.deletedRows
      BY <1>1, <1>5, CallsKeepBits DEF AddRow
  <2>4. /\ NumRows(crs') = NumRows(crs) + 1
        /\ \A j \in 1..NumRows(crs') : crs'.rvh[j] = IF j = NumRows(crs') THEN row ELSE crs.rvh[j]
      BY <2>2 DEF Extends
  <2>5. \A j \in 1..NumRows(crs) : j \in 1..NumRows(crs') /\ crs'.rvh[j] = crs.rvh[j]
      BY <1>1, <2>4
  <2>6. \A i \in 1..NumRows(crs') : i \in 1..NumRows(crs) \/ crs'.rvh[i].flags = {"created"}
      BY <1>1, <2>2, <2>4
  <2>7. \A i, j \in 1..NumRows(crs') : i < j /\ j \in 1..NumRows(crs) => i \in 1..NumRows(crs)
      BY <1>1
  <2>8. \A i, j \in 1..NumRows(crs') :
           i < j /\ "created" \in crs'.rvh[i].flags => "created" \in crs'.rvh[j].flags
      BY <2>5, <2>6, <2>7 DEF Tombs
  <2> QED BY <2>3, <2>5, <2>8 DEF Tombs
<1>6. CASE AcceptInserts
    BY <1>6 DEF AcceptInserts, Start
<1> QED BY <1>2, <1>3, <1>4, <1>5, <1>6, ClientSteps

\* So do those of the writer: what is undone last of all rows is a created one.
LEMMA WriterKeepsTombs ==
    ASSUME Shaped, Tombs(crs), Writer
    PROVE  Tombs(crs')
<1>1. Formed(crs) /\ ~crs.onInsertRow /\ NumRows(crs) \in Nat
    BY RowsOfCache DEF Shaped, Typed
<1>2. CASE UNCHANGED crs
    BY <1>2
<1>3. CASE FetchKeys
  <2>1. SameMarks(crs, crs')
      BY <1>3, FetchKeepsMarks
  <2>2. crs'.deletedRows = crs.deletedRows
      BY <1>1, <1>3, CallsKeepBits DEF FetchKeys
  <2> QED BY <2>1, <2>2, TombsStay DEF SameMarks
<1>4. ASSUME NEW c, Formed(c), ~c.onInsertRow, Tombs(c), Return(c)
      PROVE  Tombs(crs')
  <2>1. Steers(c, Last(c))
      BY <1>4, LastSteers
  <2> QED BY <1>4, <2>1 DEF Return, Steers, Tombs, NumRows
<1>5. CASE FinishAccept
  <2>1. PICK c : c = SetOriginal(crs)
      OBVIOUS
  <2>2. /\ Formed(c) /\ ~c.onInsertRow /\ NumRows(c) = NumRows(crs)
        /\ \A i \in 1..NumRows(crs) : c.rvh[i] = MakeRowOriginal(crs.rvh[i])
      BY <1>1, <2>1, OriginalRows
  <2>3. \A i \in 1..NumRows(c) : "created" \notin c.rvh[i].flags
    <3>1. \A i \in 1..NumRows(c) : MakeRowOriginal(crs.rvh[i]).flags
                                      \cap {"removed", "created", "updated"} = {}
        BY <1>1, <2>2, RowsOfCache, OriginalFlags
    <3> QED BY <2>2, <3>1
  <2>4. c.deletedRows = crs.deletedRows
      BY <1>1, <2>1, CallsKeepBits
  <2>5. Tombs(c)
      BY <2>2, <2>3, <2>4 DEF Tombs
  <2> QED BY <1>4, <1>5, <2>1, <2>2, <2>5 DEF FinishAccept
<1>6. CASE EndResolve
  <2>1. PICK c : c = CloseResolver(crs)
      OBVIOUS
  <2>2. Formed(c) /\ ~c.onInsertRow /\ c.rvh = crs.rvh /\ c.deletedRows = crs.deletedRows
      BY <1>1, <2>1, CloseKeeps, CallsKeepBits
  <2>3. Tombs(c)
      BY <2>2 DEF Tombs, NumRows
  <2> QED BY <1>4, <1>6, <2>1, <2>2, <2>3 DEF EndResolve
<1>7. CASE ResolveRow
  <2>1. PICK m : m = Min(wr.failed)
      OBVIOUS
  <2>2. m \in 1..NumRows(crs) /\ crs' = UndoConflict(crs, m)
    <3>1. wr.failed \in SUBSET Nat /\ wr.failed # {} /\ m <= NumRows(crs)
          /\ crs' = UndoConflict(crs, m)
        BY <1>7, <2>1 DEF ResolveRow, Shaped, Typed, WriterType
    <3>2. m \in wr.failed
        BY <2>1, <3>1, MinOfNat
    <3>3. m \in Nat /\ (m \in Pending(crs) \/ m > NumRows(crs))
        BY <3>1, <3>2 DEF Shaped, AtRow
    <3> QED BY <1>1, <3>1, <3>3 DEF Pending
  <2>3. crs'.deletedRows = IF Kind(crs.rvh[m]) = "delete" THEN crs.deletedRows \ {m}
                                                         ELSE crs.deletedRows
      BY <1>1, <2>2, UndoKeepsBits
  <2>4. CASE Kind(crs.rvh[m]) = "insert"
    <3>1. Shortens(crs, crs') /\ "created" \in crs.rvh[m].flags
        BY <1>1, <2>2, <2>4, UndoShortens DEF Kind
    <3>2. /\ NumRows(crs') = NumRows(crs) - 1
          /\ \A i \in 1..NumRows(crs') : i \in 1..NumRows(crs) /\ crs'.rvh[i] = crs.rvh[i]
        BY <1>1, <3>1 DEF Shortens
    <3>3. "created" \in crs.rvh[NumRows(crs)].flags /\ NumRows(crs) \notin crs.deletedRows
      <4>1. NumRows(crs) \in 1..NumRows(crs) /\ (m < NumRows(crs) \/ m = NumRows(crs))
          BY <1>1, <2>2
      <4> QED BY <2>2, <3>1, <4>1 DEF Tombs
    <3>4. \A i \in 1..NumRows(crs) : i # NumRows(crs) => i \in 1..NumRows(crs')
        BY <1>1, <3>2
    <3>5. crs'.deletedRows = crs.deletedRows
        BY <2>3, <2>4
    <3> QED BY <3>2, <3>3, <3>4, <3>5 DEF Tombs
  <2>5. CASE Kind(crs.rvh[m]) \in {"update", "delete"}
    <3>1. PICK row : row = IF Kind(crs.rvh[m]) = "update" THEN ClearUpdated(crs.rvh[m])
                           ELSE [crs.rvh[m] EXCEPT !.flags = @ \ {"removed"}]
        OBVIOUS
    <3>2. Changes(crs, crs', m, row)
        BY <1>1, <2>2, <2>5, <3>1, UndoChanges
    <3>3. "created" \in row.flags <=> "created" \in crs.rvh[m].flags
      <4>1. crs.rvh[m] \in Row
          BY <1>1, <2>2, RowsOfCache
      <4> QED BY <3>1, <4>1, ClearedRow DEF Row
    <3>4. /\ NumRows(crs') = NumRows(crs) /\ crs'.deletedRows \subseteq crs.deletedRows
          /\ \A i \in 1..NumRows(crs) :
                "created" \in crs'.rvh[i].flags <=> "created" \in crs.rvh[i].flags
        BY <2>3, <3>2, <3>3 DEF Changes
    <3> QED BY <3>4, TombsStay
  <2> QED BY <2>4, <2>5 DEF Kind
<1> QED
    BY <1>2, <1>3, <1>5, <1>6, <1>7
    DEF Writer, CheckRow, RefuseRow, WriteRow, InsertRecord, FailStatement

\* In all states the bits are those of rows that are not created.
LEMMA TombsInvariant == Spec => []Tombs(crs)
<1>1. Init => Tombs(crs)
  <2> SUFFICES ASSUME NEW n \in 0..MaxInit, NEW rows \in [1..n -> Values], NEW show \in BOOLEAN,
                      crs = Populate(rows, show)
               PROVE  Tombs(crs)
      BY DEF Init
  <2>1. n \in Nat
      BY BoundAssumption
  <2>2. /\ NumRows(crs) = n
        /\ \A i \in 1..n : crs.rvh[i] = NewRow(rows[i])
      BY <2>1, PopulateRows
  <2>3. crs.deletedRows = {}
      BY DEF Populate
  <2>4. \A i \in 1..n : crs.rvh[i].flags = {}
    <3>1. \A i \in 1..n : NewRow(rows[i]).flags = {}
        BY DEF NewRow
    <3> QED BY <2>2, <3>1
  <2> QED BY <2>2, <2>3, <2>4 DEF Tombs
<1>2. Shaped /\ Tombs(crs) /\ [Next]_vars => Tombs(crs)'
  <2> SUFFICES ASSUME Shaped, Tombs(crs), [Next]_vars PROVE Tombs(crs')
      BY DEF Tombs, NumRows
  <2>1. CASE Others \/ UNCHANGED vars
      BY <2>1 DEF Others, OtherDelete, OtherUpdate, OtherInsert, vars
  <2> QED BY <2>1, ClientKeepsTombs, WriterKeepsTombs DEF Next, Shaped
<1> QED BY <1>1, <1>2, ShapedInvariant, PTL DEF Spec
----------------------------------------------------------------------------
(* What the writer makes of the rows before any conflict is undone.        *)

\* d is c where some of the rows that wait to be inserted show what was stored.
Filled(c, d) ==
    /\ Formed(c) /\ ~c.onInsertRow
    /\ d = [c EXCEPT !.rvh = d.rvh]
    /\ d.rvh = [i \in 1..NumRows(c) |-> d.rvh[i]]
    /\ \A i \in 1..NumRows(c) :
          \/ d.rvh[i] = c.rvh[i]
          \/ /\ i \in Pending(c) /\ Kind(c.rvh[i]) = "insert"
             /\ \E vals \in Values : d.rvh[i] = [c.rvh[i] EXCEPT !.curr = vals, !.changed = Column]

\* As the call begins nothing is stored yet.
LEMMA FilledSelf ==
    ASSUME NEW c, Formed(c), ~c.onInsertRow
    PROVE  Filled(c, c)
<1>1. c \in Cache
    BY DEF Formed
<1>2. c = [c EXCEPT !.rvh = c.rvh]
    BY <1>1 DEF Cache
<1>3. c.rvh = [i \in 1..NumRows(c) |-> c.rvh[i]]
    BY <1>1 DEF Cache, NumRows
<1> QED BY <1>2, <1>3, Zenon DEF Filled

\* The marks stay, so the same rows wait.
LEMMA FilledWaits ==
    ASSUME NEW c, NEW d, Filled(c, d)
    PROVE  /\ NumRows(d) = NumRows(c) /\ Pending(d) = Pending(c) /\ ~d.onInsertRow
           /\ \A i \in 1..NumRows(c) : Kind(d.rvh[i]) = Kind(c.rvh[i])
<1>1. /\ c \in Cache /\ NumRows(c) \in Nat /\ \A i \in 1..NumRows(c) : c.rvh[i] \in Row
    BY RowsOfCache DEF Filled, Formed
<1>2. ~d.onInsertRow
  <2>1. ~c.onInsertRow /\ d = [c EXCEPT !.rvh = d.rvh]
      BY DEF Filled
  <2>2. [c EXCEPT !.rvh = d.rvh].onInsertRow = c.onInsertRow
      BY <1>1 DEF Cache
  <2> QED BY <2>1, <2>2
<1>3. NumRows(d) = NumRows(c)
  <2>1. PICK rows : rows = d.rvh
      OBVIOUS
  <2>2. rows = [i \in 1..NumRows(c) |-> rows[i]]
      BY <2>1 DEF Filled
  <2>3. Len(rows) = NumRows(c)
      BY <1>1, <2>2
  <2> QED BY <2>1, <2>3 DEF NumRows
<1>4. \A i \in 1..NumRows(c) : d.rvh[i].flags = c.rvh[i].flags
  <2> SUFFICES ASSUME NEW i \in 1..NumRows(c) PROVE d.rvh[i].flags = c.rvh[i].flags
      OBVIOUS
  <2>1. ASSUME NEW vals, d.rvh[i] = [c.rvh[i] EXCEPT !.curr = vals, !.changed = Column]
        PROVE  d.rvh[i].flags = c.rvh[i].flags
    <3>1. c.rvh[i] \in Row
        BY <1>1
    <3> QED BY <2>1, <3>1 DEF Row
  <2> QED BY <2>1 DEF Filled
<1>5. SameMarks(c, d)
    BY <1>3, <1>4 DEF SameMarks
<1> QED BY <1>2, <1>3, <1>5, SameMarksWait

\* Generated keys read into a row keep it, also when they are read again.
LEMMA FilledOn ==
    ASSUME NEW c, NEW d, Filled(c, d), Formed(d), NEW i \in Pending(d), Kind(d.rvh[i]) = "insert",
           NEW vals \in Values
    PROVE  Filled(c, UpdateKeys(d, i, vals))
<1>1. /\ NumRows(d) = NumRows(c) /\ Pending(d) = Pending(c) /\ ~d.onInsertRow
      /\ Kind(c.rvh[i]) = "insert" /\ i \in 1..NumRows(c) /\ i \in Pending(c)
    BY FilledWaits DEF Pending
<1>2. PICK e : e = UpdateKeys(d, i, vals)
    OBVIOUS
<1>3. PICK row : row = [d.rvh[i] EXCEPT !.curr = vals, !.changed = Column]
    OBVIOUS
<1>4. Changes(d, e, i, row)
    BY <1>1, <1>2, <1>3, KeysChange
<1>5. row = [c.rvh[i] EXCEPT !.curr = vals, !.changed = Column]
  <2>1. c.rvh[i] \in Row
      BY <1>1, RowsOfCache DEF Filled
  <2>2. ASSUME NEW old, d.rvh[i] = [c.rvh[i] EXCEPT !.curr = old, !.changed = Column]
        PROVE  row = [c.rvh[i] EXCEPT !.curr = vals, !.changed = Column]
      BY <1>3, <2>1, <2>2 DEF Row
  <2> QED BY <1>1, <1>3, <2>2 DEF Filled
<1>6. e.rvh = [j \in 1..NumRows(c) |-> e.rvh[j]]
  <2>1. e.rvh \in Seq(Row) /\ Len(e.rvh) = NumRows(c)
      BY <1>1, <1>4 DEF Changes, Formed, Cache, NumRows
  <2> QED BY <2>1
<1>7. e = [c EXCEPT !.rvh = e.rvh]
  <2>1. d = [c EXCEPT !.rvh = d.rvh] /\ c \in Cache
      BY DEF Filled, Formed
  <2>2. PICK mid : mid = [d EXCEPT !.rvh = [d.rvh EXCEPT ![i].curr = vals]]
      OBVIOUS
  <2>3. e = [mid EXCEPT !.rvh[i].changed = Column]
      BY <1>2, <2>2 DEF UpdateKeys
  <2>4. PICK old : old = d.rvh
      OBVIOUS
  <2>5. d = [c EXCEPT !.rvh = old]
      BY <2>1, <2>4
  <2>6. PICK some : mid = [d EXCEPT !.rvh = some]
      BY <2>2
  <2>7. PICK more : e = [mid EXCEPT !.rvh = more]
      BY <2>3
  <2>8. e = [c EXCEPT !.rvh = more] /\ e.rvh = more
      BY <2>1, <2>5, <2>6, <2>7 DEF Cache
  <2> QED BY <2>8
<1>8. ASSUME NEW j \in 1..NumRows(c)
      PROVE  \/ e.rvh[j] = c.rvh[j]
             \/ /\ j \in Pending(c) /\ Kind(c.rvh[j]) = "insert"
                /\ \E v \in Values : e.rvh[j] = [c.rvh[j] EXCEPT !.curr = v, !.changed = Column]
  <2>1. CASE j = i
    <3>1. e.rvh[j] = [c.rvh[j] EXCEPT !.curr = vals, !.changed = Column]
        BY <1>1, <1>4, <1>5, <2>1 DEF Changes
    <3> QED BY <1>1, <2>1, <3>1
  <2>2. CASE j # i
    <3>1. e.rvh[j] = d.rvh[j]
        BY <1>1, <1>4, <2>2 DEF Changes
    <3>2. \A k \in 1..NumRows(c) :
            \/ d.rvh[k] = c.rvh[k]
            \/ /\ k \in Pending(c) /\ Kind(c.rvh[k]) = "insert"
               /\ \E v \in Values : d.rvh[k] = [c.rvh[k] EXCEPT !.curr = v, !.changed = Column]
        BY DEF Filled
    <3> QED BY <3>1, <3>2
  <2> QED BY <2>1, <2>2
<1>9. Filled(c, e)
    BY <1>6, <1>7, <1>8, Zenon DEF Filled
<1> QED BY <1>2, <1>9

\* What is an outcome of a call.
LEMMA OutcomesAre ==
    ASSUME NEW c, NEW new \in SUBSET {i \in Pending(c) : Kind(c.rvh[i]) = "insert"},
           NEW vals \in [new -> Values], NEW failed \in SUBSET Pending(c)
    PROVE  AcceptChanges(StoredRows(c, vals), failed) \in Outcomes(c)
<1> DEFINE stored == UNION {[made -> Values] :
                        made \in SUBSET {i \in Pending(c) : Kind(c.rvh[i]) = "insert"}}
<1>1. \A x : x \in Outcomes(c) <=>
          \E v \in stored, f \in SUBSET Pending(c) : x = AcceptChanges(StoredRows(c, v), f)
    BY SMT DEF Outcomes
<1>2. vals \in stored
    OBVIOUS
<1> HIDE DEF stored
<1> QED BY <1>1, <1>2, Zenon

\* Whatever is refused then, it is an outcome of the call.
LEMMA FilledOutcome ==
    ASSUME NEW c, NEW d, Filled(c, d), NEW failed \in SUBSET Pending(c)
    PROVE  AcceptChanges(d, failed) \in Outcomes(c)
<1>1. Formed(c) /\ ~c.onInsertRow /\ d = [c EXCEPT !.rvh = d.rvh]
    BY DEF Filled
<1>2. PICK created : created = {i \in Pending(c) : Kind(c.rvh[i]) = "insert"}
    OBVIOUS
<1>3. PICK new : new = {i \in created : d.rvh[i] # c.rvh[i]}
    OBVIOUS
<1>4. \A i \in created : i \in 1..NumRows(c)
    BY <1>2 DEF Pending
<1>5. PICK vals \in [new -> Values] : \A i \in new :
          d.rvh[i] = [c.rvh[i] EXCEPT !.curr = vals[i], !.changed = Column]
  <2> DEFINE Stores(i, v) == d.rvh[i] = [c.rvh[i] EXCEPT !.curr = v, !.changed = Column]
  <2>1. \A i \in new : \E v \in Values : Stores(i, v)
      BY <1>3, <1>4 DEF Filled
  <2> HIDE DEF Stores
  <2>2. PICK vals : vals = [i \in new |-> CHOOSE v \in Values : Stores(i, v)]
      OBVIOUS
  <2>3. vals \in [new -> Values] /\ \A i \in new : Stores(i, vals[i])
      BY <2>1, <2>2
  <2> QED BY <2>3, Zenon DEF Stores
<1>6. \A i \in 1..NumRows(c) : d.rvh[i] = IF i \in new THEN UpdateKeys(c, i, vals[i]).rvh[i]
                                                       ELSE c.rvh[i]
  <2> SUFFICES ASSUME NEW i \in 1..NumRows(c)
               PROVE  d.rvh[i] = IF i \in new THEN UpdateKeys(c, i, vals[i]).rvh[i] ELSE c.rvh[i]
      OBVIOUS
  <2>1. CASE i \in new
    <3>1. vals[i] \in Values
        BY <1>3, <1>5, <2>1
    <3>2. PICK row : row = [c.rvh[i] EXCEPT !.curr = vals[i], !.changed = Column]
        OBVIOUS
    <3>3. Changes(c, UpdateKeys(c, i, vals[i]), i, row)
        BY <1>1, <3>1, <3>2, KeysChange
    <3>4. UpdateKeys(c, i, vals[i]).rvh[i] = row
        BY <3>3 DEF Changes
    <3> QED BY <1>5, <2>1, <3>2, <3>4
  <2>2. CASE i \notin new
    <3>1. i \notin created => d.rvh[i] = c.rvh[i]
        BY <1>2 DEF Filled
    <3> QED BY <1>3, <2>2, <3>1
  <2> QED BY <2>1, <2>2
<1>7. d = StoredRows(c, vals)
  <2>1. PICK rows : rows = d.rvh
      OBVIOUS
  <2>2. rows = [i \in 1..NumRows(c) |-> rows[i]]
      BY <2>1 DEF Filled
  <2>3. rows = [i \in 1..NumRows(c) |-> IF i \in new THEN UpdateKeys(c, i, vals[i]).rvh[i]
                                                     ELSE c.rvh[i]]
      BY <1>6, <2>1, <2>2, Zenon
  <2>4. DOMAIN vals = new
      BY <1>5
  <2>5. StoredRows(c, vals) = [c EXCEPT !.rvh = rows]
      BY <2>3, <2>4, Zenon DEF StoredRows
  <2> QED BY <1>1, <2>1, <2>5
<1>8. new \in SUBSET {i \in Pending(c) : Kind(c.rvh[i]) = "insert"}
    BY <1>2, <1>3
<1>9. AcceptChanges(StoredRows(c, vals), failed) \in Outcomes(c)
    BY <1>5, <1>8, OutcomesAre, Zenon
<1> QED BY <1>7, <1>9
----------------------------------------------------------------------------
(* The refinement: what a call under way has come from.                    *)

\* The row set c with which a call on was began to write.
Begun(c, was, last) ==
    IF last THEN c = was
    ELSE \E n \in 1..Size(was) :
            \/ c = DeleteRow(Absolute(was, n))
            \/ \E col \in Column, val \in Writable :
                  c = UpdateRow(UpdateColumn(Absolute(was, n), col, val))

\* The conflicts of the call up to row k are undone, rest is left.
Walked(c, now, rest) ==
    \E d, f : \E failed \in SUBSET Pending(c) : \E k \in 0..NumRows(c) :
        /\ Filled(c, d) /\ failed # {} /\ Undoing(d, failed, f)
        /\ now = f[k] /\ rest = {i \in failed : i > k}

Calling ==
    wr.pc # "idle" =>
        \E c : /\ Begun(c, wr.was, wr.last)
               /\ IF wr.pc = "resolve" THEN Walked(c, crs, wr.failed)
                  ELSE Filled(c, crs) /\ wr.failed \subseteq Pending(c)

\* A writer on its way forgets neither what was before nor what follows.
LEMMA ArriveKeeps ==
    ASSUME NEW c, NEW w \in WriterType
    PROVE  Arrive(c, w).was = w.was /\ Arrive(c, w).last = w.last
<1> DEFINE rest == {i \in Pending(c) : i > w.row}
<1>1. PICK pc, row : Arrive(c, w) = [w EXCEPT !.pc = pc, !.row = row]
  <2>1. CASE rest = {}
      BY <2>1 DEF Arrive
  <2>2. CASE rest # {}
      BY <2>2 DEF Arrive
  <2> QED BY <2>1, <2>2
<1> QED BY <1>1 DEF WriterType

\* Once past the last row it accepts, or has all conflicts to undo.
LEMMA ArrivedCalling ==
    ASSUME NEW c, Begun(c, wr'.was, wr'.last), Filled(c, crs'), NEW w, NEW f,
           Arrived(crs', w, f, wr'), f \subseteq Pending(c), Formed(crs')
    PROVE  Calling'
<1>1. wr'.failed = f /\ (wr'.pc = "resolve" => f # {})
  <2>1. wr'.failed = f
      BY DEF Arrived
  <2>2. CASE wr'.pc = IF f = {} THEN "accept" ELSE "resolve"
      BY <2>1, <2>2
  <2>3. CASE wr'.pc = IF Kind(crs'.rvh[wr'.row]) = "insert" THEN "write" ELSE "check"
      BY <2>1, <2>3
  <2> QED BY <2>1, <2>2, <2>3 DEF Arrived
<1>2. CASE wr'.pc # "resolve"
    BY <1>1, <1>2 DEF Calling
<1>3. CASE wr'.pc = "resolve"
  <2>1. NumRows(crs') \in Nat /\ NumRows(crs') = NumRows(c)
      BY RowsOfCache, FilledWaits
  <2>2. PICK g : Undoing(crs', f, g)
      BY <2>1, UndoingExists
  <2>3. crs' = g[0] /\ 0 \in 0..NumRows(c) /\ f \in SUBSET Pending(c)
      BY <2>1, <2>2 DEF Undoing
  <2>4. f = {i \in f : i > 0}
    <3>1. \A i \in f : i \in 1..NumRows(crs')
        BY <2>1 DEF Pending
    <3>2. \A i \in f : i > 0
        BY <2>1, <3>1
    <3> QED BY <3>2
  <2>5. Walked(c, crs', f)
      BY <1>1, <1>3, <2>2, <2>3, <2>4 DEF Walked
  <2> QED BY <1>1, <1>3, <2>5 DEF Calling
<1> QED BY <1>2, <1>3

\* The writer on its rows.
LEMMA StatementCalling ==
    ASSUME Shaped, Calling, wr.row # 0, Formed(crs'), Refuse \/ Proceed,
           \/ crs' = crs
           \/ /\ Kind(Here) = "insert"
              /\ \E vals \in Values : crs' = UpdateKeys(crs, wr.row, vals)
    PROVE  Calling'
<1>1. /\ wr.pc # "idle" /\ wr.pc # "resolve" /\ wr.row \in Pending(crs) /\ Formed(crs)
      /\ wr \in WriterType
    BY DEF Shaped, AtRow, Typed
<1>2. PICK c : Begun(c, wr.was, wr.last) /\ Filled(c, crs) /\ wr.failed \subseteq Pending(c)
    BY <1>1 DEF Calling
<1>3. Pending(c) = Pending(crs)
    BY <1>2, FilledWaits
<1>4. Filled(c, crs')
    BY <1>1, <1>2, FilledOn DEF Here
<1>5. Pending(crs') = Pending(crs) /\ \A i \in Pending(crs) : Kind(crs'.rvh[i]) = Kind(crs.rvh[i])
    BY <1>2, <1>3, <1>4, FilledWaits DEF Pending
<1>6. ASSUME NEW w \in WriterType, wr' = Arrive(crs, w), w.was = wr.was, w.last = wr.last,
             w.failed \subseteq Pending(c)
      PROVE  Calling'
  <2>1. wr'.was = wr.was /\ wr'.last = wr.last
      BY <1>6, ArriveKeeps
  <2>2. Arrived(crs, w, w.failed, wr')
      BY <1>1, <1>6, ArriveArrives
  <2>3. Arrived(crs', w, w.failed, wr')
      BY <1>5, <2>2 DEF Arrived
  <2> QED BY <1>2, <1>4, <1>6, <2>1, <2>3, ArrivedCalling
<1>7. CASE Proceed
    BY <1>1, <1>2, <1>6, <1>7 DEF Proceed
<1>8. CASE Refuse
  <2>1. PICK w : w = [wr EXCEPT !.failed = wr.failed \cup {wr.row}]
      OBVIOUS
  <2>2. /\ w \in WriterType /\ w.was = wr.was /\ w.last = wr.last
        /\ w.failed = wr.failed \cup {wr.row}
      BY <1>1, <2>1 DEF WriterType
  <2>3. wr' = Arrive(crs, w)
      BY <1>8, <2>1 DEF Refuse
  <2> QED BY <1>1, <1>2, <1>3, <1>6, <2>2, <2>3
<1> QED BY <1>7, <1>8

\* Undoing the first conflict that is left is the next place of the walk.
LEMMA ResolveCalling ==
    ASSUME Shaped, Calling, ResolveRow
    PROVE  Calling'
<1>1. wr.pc = "resolve" /\ wr.failed # {} /\ wr.failed \in SUBSET Nat /\ wr \in WriterType
    BY DEF ResolveRow, Shaped, Typed, WriterType
<1>2. PICK m : m = Min(wr.failed)
    OBVIOUS
<1>3. m \in wr.failed /\ \A i \in wr.failed : m <= i
    BY <1>1, <1>2, MinOfNat
<1>4. m <= NumRows(crs) /\ crs' = UndoConflict(crs, m) /\ wr' = [wr EXCEPT !.failed = wr.failed \ {m}]
    BY <1>1, <1>2 DEF ResolveRow, WriterType
<1>5. wr'.pc = "resolve" /\ wr'.failed = wr.failed \ {m} /\ wr'.was = wr.was /\ wr'.last = wr.last
    BY <1>1, <1>4 DEF WriterType
<1>6. PICK c : Begun(c, wr.was, wr.last) /\ Walked(c, crs, wr.failed)
    BY <1>1 DEF Calling
<1>7. PICK d, f : \E failed \in SUBSET Pending(c) : \E k \in 0..NumRows(c) :
        /\ Filled(c, d) /\ failed # {} /\ Undoing(d, failed, f)
        /\ crs = f[k] /\ wr.failed = {i \in failed : i > k}
    BY <1>6 DEF Walked
<1>8. PICK failed \in SUBSET Pending(c), k \in 0..NumRows(c) :
        /\ Filled(c, d) /\ failed # {} /\ Undoing(d, failed, f)
        /\ crs = f[k] /\ wr.failed = {i \in failed : i > k}
    BY <1>7
<1>9. NumRows(d) = NumRows(c) /\ NumRows(c) \in Nat /\ NumRows(crs) \in Nat
    BY <1>8, FilledWaits, RowsOfCache DEF Filled, Shaped, Typed
<1>10. m \in failed /\ m > k /\ m \in 1..NumRows(c) /\ m \in 0..NumRows(c)
  <2>1. m \in failed /\ m > k
      BY <1>3, <1>8
  <2> QED BY <1>9, <2>1 DEF Pending
<1>11. f[m - 1] = crs
  <2>1. k \in 0..NumRows(d) /\ m - 1 \in k..NumRows(d)
      BY <1>8, <1>9, <1>10
  <2>2. \A n \in (k + 1)..(m - 1) : n \in failed => n > NumRows(f[k])
    <3>1. \A n \in (k + 1)..(m - 1) : n > k /\ ~(m <= n)
        BY <1>9, <1>10
    <3> QED BY <1>3, <1>8, <3>1
  <2>3. f[m - 1] = f[k]
      BY <1>8, <1>9, <2>1, <2>2, UndoingStays
  <2> QED BY <1>8, <2>3
<1>12. crs' = f[m]
    BY <1>4, <1>8, <1>9, <1>10, <1>11 DEF Undoing
<1>13. wr'.failed = {i \in failed : i > m}
  <2>1. \A i \in failed : i \in Nat
      BY <1>9 DEF Pending
  <2>2. \A i \in failed : i > k /\ i # m => i > m
      BY <1>1, <1>3, <1>8, <1>10, <2>1
  <2>3. \A i \in failed : i > m => i > k /\ i # m
      BY <1>8, <1>9, <1>10, <2>1
  <2> QED BY <1>5, <1>8, <2>2, <2>3
<1>14. Walked(c, crs', wr'.failed)
    BY <1>8, <1>10, <1>12, <1>13, ZenonT(30) DEF Walked
<1> QED BY <1>5, <1>6, <1>14, Zenon DEF Calling

\* Every step of the writer goes on with its call.
LEMMA WriterCalling ==
    ASSUME Shaped, Calling, Writer, Shaped'
    PROVE  Calling'
<1>1. Formed(crs') /\ wr \in WriterType
    BY DEF Shaped, Typed, Formed
<1>2. wr.pc \in {"check", "write", "keys"} => wr.row # 0
    BY DEF Shaped, AtRow
<1>3. ASSUME UNCHANGED crs, wr.pc # "idle", wr.pc # "resolve",
             NEW pc \in {"write", "keys"}, wr' = [wr EXCEPT !.pc = pc]
      PROVE  Calling'
  <2>1. wr'.pc = pc /\ wr'.was = wr.was /\ wr'.last = wr.last /\ wr'.failed = wr.failed
      BY <1>1, <1>3 DEF WriterType
  <2>2. pc # "idle" /\ pc # "resolve"
      OBVIOUS
  <2>3. PICK c : Begun(c, wr.was, wr.last) /\ Filled(c, crs) /\ wr.failed \subseteq Pending(c)
      BY <1>3 DEF Calling
  <2> QED BY <1>3, <2>1, <2>2, <2>3 DEF Calling
<1>4. CASE CheckRow
    BY <1>3, <1>4 DEF CheckRow
<1>5. CASE RefuseRow
    BY <1>1, <1>2, <1>5, StatementCalling DEF RefuseRow
<1>6. CASE WriteRow
    BY <1>1, <1>2, <1>6, StatementCalling DEF WriteRow
<1>7. CASE InsertRecord
  <2>1. CASE Proceed
      BY <1>1, <1>2, <1>7, <2>1, StatementCalling DEF InsertRecord
  <2>2. CASE wr' = [wr EXCEPT !.pc = "keys"]
      BY <1>3, <1>7, <2>2 DEF InsertRecord
  <2> QED BY <1>7, <2>1, <2>2 DEF InsertRecord
<1>8. CASE FetchKeys
  <2>1. PICK id : id = hist.link[wr.row]
      OBVIOUS
  <2>2. /\ wr.row # 0 /\ Proceed /\ Kind(Here) = "insert"
        /\ crs' = IF id \in DOMAIN db THEN UpdateKeys(crs, wr.row, db[id]) ELSE crs
      BY <1>2, <1>8, <2>1 DEF FetchKeys, Shaped, AtRow
  <2>3. id \in DOMAIN db => db[id] \in Values
      BY DEF Shaped, Typed
  <2> QED BY <1>1, <2>2, <2>3, StatementCalling
<1>9. CASE FailStatement
    BY <1>1, <1>2, <1>9, StatementCalling DEF FailStatement
<1>10. CASE ResolveRow
    BY <1>10, ResolveCalling
<1>11. CASE FinishAccept \/ EndResolve
  <2>1. wr' = Idle
      BY <1>11 DEF FinishAccept, EndResolve, Return
  <2> QED BY <2>1 DEF Calling, Idle
<1> QED BY <1>4, <1>5, <1>6, <1>7, <1>8, <1>9, <1>10, <1>11 DEF Writer

\* A call begins from the row set the client has edited.
LEMMA StartCalling ==
    ASSUME Formed(crs), NEW c, Formed(c), ~c.onInsertRow, NEW last \in BOOLEAN,
           Begun(c, crs, last), Start(c, last)
    PROVE  Calling'
<1>1. PICK w : w = [Idle EXCEPT !.last = last, !.was = crs]
    OBVIOUS
<1>2. w \in WriterType /\ w.row = 0 /\ w.failed = {} /\ w.was = crs /\ w.last = last
    BY <1>1 DEF WriterType, Idle, Formed
<1>3. wr' = Arrive(c, w) /\ crs' = c
    BY <1>1 DEF Start
<1>4. Arrived(crs', w, {}, wr') /\ wr'.was = crs /\ wr'.last = last
    BY <1>2, <1>3, ArriveArrives, ArriveKeeps
<1>5. Filled(c, crs')
    BY <1>3, FilledSelf
<1>6. Begun(c, wr'.was, wr'.last) /\ {} \subseteq Pending(c) /\ Formed(crs')
    BY <1>3, <1>4
<1> QED BY <1>4, <1>5, <1>6, ArrivedCalling

\* Rows are numbered as the client counts them.
LEMMA MovedRow ==
    ASSUME NEW c, Formed(c), NEW n \in 1..NumRows(c), Moved(c, n)
    PROVE  n \in 1..Size(c)
<1>1. n \in Nat /\ ~(n < 0)
    BY RowsOfCache
<1> QED BY <1>1 DEF Moved

\* The calls of the client begin so.
LEMMA ClientCalling ==
    ASSUME Shaped, Calling, Client, Shaped'
    PROVE  Calling'
<1>1. Formed(crs) /\ ~crs.onInsertRow /\ NumRows(crs) \in Nat /\ Formed(crs') /\ ~crs'.onInsertRow
    BY RowsOfCache DEF Shaped, Typed, Formed
<1>2. wr = Idle => wr.pc = "idle"
    BY DEF Idle
<1>3. ASSUME NEW n \in 1..NumRows(crs), DeleteAt(n)
      PROVE  Calling'
  <2>1. PICK c : c = DeleteRow(Absolute(crs, n))
      OBVIOUS
  <2>2. Start(c, FALSE) /\ crs' = c /\ n \in 1..Size(crs)
      BY <1>1, <1>3, <2>1, MovedRow DEF DeleteAt, Start
  <2>3. Begun(c, crs, FALSE)
      BY <2>1, <2>2 DEF Begun
  <2> QED BY <1>1, <2>2, <2>3, StartCalling
<1>4. ASSUME NEW n \in 1..NumRows(crs), NEW col \in Column, NEW val \in Writable,
             UpdateAt(n, col, val)
      PROVE  Calling'
  <2>1. PICK c : c = UpdateRow(UpdateColumn(Absolute(crs, n), col, val))
      OBVIOUS
  <2>2. Start(c, FALSE) /\ crs' = c /\ n \in 1..Size(crs)
      BY <1>1, <1>4, <2>1, MovedRow DEF UpdateAt, Start
  <2>3. Begun(c, crs, FALSE)
      BY <2>1, <2>2 DEF Begun
  <2> QED BY <1>1, <2>2, <2>3, StartCalling
<1>5. CASE AcceptInserts
  <2>1. Start(crs, TRUE) /\ Begun(crs, crs, TRUE)
      BY <1>5 DEF AcceptInserts, Begun
  <2> QED BY <1>1, <2>1, StartCalling
<1>6. ASSUME wr = Idle, UNCHANGED wr
      PROVE  Calling'
    BY <1>2, <1>6 DEF Calling
<1>7. ASSUME NEW n, Browse(n)
      PROVE  Calling'
    BY <1>6, <1>7 DEF Browse
<1>8. ASSUME NEW vals, AddRow(vals)
      PROVE  Calling'
    BY <1>6, <1>8 DEF AddRow
<1> QED BY <1>3, <1>4, <1>5, <1>7, <1>8 DEF Client

\* At every moment the row set is one the call under way could be at.
LEMMA CallingInvariant == Spec => []Calling
<1>1. Init => Calling
    BY DEF Init, Calling, Idle
<1>2. Shaped /\ Shaped' /\ Calling /\ [Next]_vars => Calling'
  <2> SUFFICES ASSUME Shaped, Shaped', Calling, [Next]_vars PROVE Calling'
      OBVIOUS
  <2>1. CASE Others \/ UNCHANGED vars
    <3>1. UNCHANGED <<crs, wr>>
        BY <2>1 DEF Others, OtherDelete, OtherUpdate, OtherInsert, vars
    <3> QED BY <3>1 DEF Calling
  <2> QED BY <2>1, WriterCalling, ClientCalling DEF Next
<1> QED BY <1>1, <1>2, ShapedInvariant, PTL DEF Spec
----------------------------------------------------------------------------
(* The refinement: what the client sees of a step.                         *)

\* A call that has ended with an outcome of the row set it began with is a
\* step of AtomicRowSet.
LEMMA ReturnIsAtomic ==
    ASSUME NEW c, NEW last, Begun(c, Visible, last), NEW o \in Outcomes(c),
           Visible' = IF last THEN Last(o) ELSE o
    PROVE  Atomic!Next
<1>1. CASE last
  <2>1. o \in Atomic!Outcomes(Visible) /\ Visible' = Atomic!Last(o)
      BY <1>1, SameOutcomes, SameLast DEF Begun
  <2> QED BY <2>1 DEF Atomic!Next, Atomic!AcceptInsert
<1>2. CASE ~last
  <2>1. PICK n \in 1..Size(Visible) :
            \/ c = DeleteRow(Absolute(Visible, n))
            \/ \E col \in Column, val \in Writable :
                  c = UpdateRow(UpdateColumn(Absolute(Visible, n), col, val))
      BY <1>2, Zenon DEF Begun
  <2>2. /\ n \in 1..Atomic!Size(Visible) /\ Visible' \in Atomic!Outcomes(c)
        /\ Atomic!Absolute(Visible, n) = Absolute(Visible, n)
      BY <1>2, SameSize, SameOutcomes, SameAbsolute
  <2>3. CASE c = DeleteRow(Absolute(Visible, n))
    <3>1. c = Atomic!DeleteRow(Atomic!Absolute(Visible, n))
        BY <2>2, <2>3, SameEdits
    <3> QED BY <2>2, <3>1 DEF Atomic!Next, Atomic!Delete
  <2>4. ASSUME NEW col \in Column, NEW val \in Writable,
               c = UpdateRow(UpdateColumn(Absolute(Visible, n), col, val))
        PROVE  Atomic!Next
    <3>1. c = Atomic!UpdateRow(Atomic!UpdateColumn(Atomic!Absolute(Visible, n), col, val))
        BY <2>2, <2>4, SameEdits
    <3> QED BY <2>2, <3>1 DEF Atomic!Next, Atomic!Update
  <2> QED BY <2>1, <2>3, <2>4
<1> QED BY <1>1, <1>2

\* The end of a call without conflict.
LEMMA FinishOutcome ==
    ASSUME Shaped, Calling, FinishAccept
    PROVE  \E c : Begun(c, wr.was, wr.last) /\ SetOriginal(crs) \in Outcomes(c)
<1>1. wr.pc = "accept" /\ ~crs.onInsertRow
    BY DEF FinishAccept, Shaped, Typed
<1>2. PICK c : Begun(c, wr.was, wr.last) /\ Filled(c, crs)
    BY <1>1 DEF Calling
<1>3. AcceptChanges(crs, {}) = SetOriginal(crs)
    BY <1>1 DEF AcceptChanges
<1>4. {} \in SUBSET Pending(c)
    OBVIOUS
<1>5. AcceptChanges(crs, {}) \in Outcomes(c)
    BY <1>2, <1>4, FilledOutcome
<1> QED BY <1>2, <1>3, <1>5

\* The end of a call with conflicts: the walk is over, whatever is left of it
\* lies behind the last row.
LEMMA ResolvedOutcome ==
    ASSUME Shaped, Calling, EndResolve
    PROVE  \E c : Begun(c, wr.was, wr.last) /\ CloseResolver(crs) \in Outcomes(c)
<1>1. wr.pc = "resolve" /\ \A i \in wr.failed : i > NumRows(crs)
    BY DEF EndResolve
<1>2. PICK c : Begun(c, wr.was, wr.last) /\ Walked(c, crs, wr.failed)
    BY <1>1 DEF Calling
<1>3. PICK d, f : \E failed \in SUBSET Pending(c) : \E k \in 0..NumRows(c) :
        /\ Filled(c, d) /\ failed # {} /\ Undoing(d, failed, f)
        /\ crs = f[k] /\ wr.failed = {i \in failed : i > k}
    BY <1>2 DEF Walked
<1>4. PICK failed \in SUBSET Pending(c), k \in 0..NumRows(c) :
        /\ Filled(c, d) /\ failed # {} /\ Undoing(d, failed, f)
        /\ crs = f[k] /\ wr.failed = {i \in failed : i > k}
    BY <1>3
<1>5. /\ NumRows(d) = NumRows(c) /\ NumRows(c) \in Nat /\ NumRows(crs) \in Nat
      /\ ~d.onInsertRow
    BY <1>4, FilledWaits, RowsOfCache DEF Filled, Shaped, Typed
<1>6. f[NumRows(d)] = crs
  <2>1. k \in 0..NumRows(d) /\ NumRows(d) \in k..NumRows(d)
      BY <1>4, <1>5
  <2>2. \A n \in (k + 1)..NumRows(d) : n \in failed => n > NumRows(f[k])
    <3>1. \A n \in (k + 1)..NumRows(d) : n > k
        BY <1>5
    <3> QED BY <1>1, <1>4, <3>1
  <2> QED BY <1>4, <1>5, <2>1, <2>2, UndoingStays
<1>7. UndoConflicts(d, failed) = crs
    BY <1>4, <1>5, <1>6, UndoingIsUndoConflicts
<1>8. AcceptChanges(d, failed) = CloseResolver(crs)
    BY <1>4, <1>5, <1>7 DEF AcceptChanges
<1>9. AcceptChanges(d, failed) \in Outcomes(c)
    BY <1>4, FilledOutcome
<1> QED BY <1>2, <1>8, <1>9

\* The steps of the writer are not seen, but for the return.
LEMMA WriterIsAtomic ==
    ASSUME Shaped, Calling, Writer, Shaped'
    PROVE  Atomic!Next \/ Visible' = Visible
<1>1. wr \in WriterType /\ wr.pc # "idle"
    BY DEF Shaped, Typed, Writer, CheckRow, RefuseRow, WriteRow, InsertRecord, FetchKeys,
           FailStatement, FinishAccept, ResolveRow, EndResolve
<1>2. Visible = wr.was
    BY <1>1 DEF Visible, Idle
<1>3. ASSUME NEW o, Return(o), NEW c, Begun(c, wr.was, wr.last), o \in Outcomes(c)
      PROVE  Atomic!Next
  <2>1. Visible' = IF wr.last THEN Last(o) ELSE o
      BY <1>3 DEF Return, Visible
  <2> QED BY <1>2, <1>3, <2>1, ReturnIsAtomic
<1>4. CASE FinishAccept
    BY <1>3, <1>4, FinishOutcome DEF FinishAccept
<1>5. CASE EndResolve
    BY <1>3, <1>5, ResolvedOutcome DEF EndResolve
<1>6. ASSUME wr'.pc # "idle", wr'.was = wr.was
      PROVE  Visible' = Visible
    BY <1>2, <1>6 DEF Visible, Idle
<1>7. ASSUME NEW w \in WriterType, wr' = Arrive(crs, w), w.was = wr.was
      PROVE  Visible' = Visible
  <2>1. Arrived(crs, w, w.failed, wr')
      BY <1>7, ArriveArrives DEF Shaped, Typed
  <2>2. wr'.pc # "idle"
      BY <2>1 DEF Arrived
  <2> QED BY <1>6, <1>7, <2>2, ArriveKeeps
<1>8. ASSUME Refuse \/ Proceed
      PROVE  Visible' = Visible
  <2>1. CASE Proceed
      BY <1>1, <1>7, <2>1 DEF Proceed
  <2>2. CASE Refuse
    <3>1. wr.row \in Nat /\ wr.failed \in SUBSET Nat
        BY <1>1 DEF WriterType
    <3>2. PICK w : w = [wr EXCEPT !.failed = wr.failed \cup {wr.row}]
        OBVIOUS
    <3>3. w \in WriterType /\ w.was = wr.was
        BY <1>1, <3>1, <3>2 DEF WriterType
    <3>4. wr' = Arrive(crs, w)
        BY <2>2, <3>2 DEF Refuse
    <3> QED BY <1>7, <3>3, <3>4
  <2> QED BY <1>8, <2>1, <2>2
<1>9. ASSUME NEW pc \in {"write", "keys"}, wr' = [wr EXCEPT !.pc = pc]
      PROVE  Visible' = Visible
    BY <1>1, <1>6, <1>9 DEF WriterType
<1>10. CASE CheckRow
    BY <1>9, <1>10 DEF CheckRow
<1>11. CASE RefuseRow \/ WriteRow \/ FetchKeys \/ FailStatement
    BY <1>8, <1>11 DEF RefuseRow, WriteRow, FetchKeys, FailStatement
<1>12. CASE InsertRecord
    BY <1>8, <1>9, <1>12 DEF InsertRecord
<1>13. CASE ResolveRow
  <2>1. PICK rest : wr' = [wr EXCEPT !.failed = rest]
      BY <1>13 DEF ResolveRow
  <2> QED BY <1>1, <1>6, <2>1 DEF WriterType
<1> QED BY <1>4, <1>5, <1>10, <1>11, <1>12, <1>13 DEF Writer

\* A client that goes past the last row it sees stands after the last one,
\* however far it wanted to go.
LEMMA BrowseIsAtomic ==
    ASSUME Shaped, Tombs(crs), NEW n \in 0..(NumRows(crs) + 1), Browse(n)
    PROVE  Atomic!Next
<1>1. Formed(crs) /\ NumRows(crs) \in Nat /\ Size(crs) \in Nat /\ n \in Nat
    BY RowsOfCache, SizeCounts DEF Shaped, Typed
<1>2. Visible = crs /\ Visible' = Absolute(crs, n)
    BY DEF Browse, Visible
<1>3. PICK i \in 0..(Size(crs) + 1) : Absolute(crs, n) = Absolute(crs, i)
  <2>1. CASE n <= Size(crs)
      BY <1>1, <2>1
  <2>2. CASE n > Size(crs)
    <3>1. Absolute(crs, n) = InternalAfterLast(crs)
        BY <1>1, <2>2 DEF Absolute
    <3>2. Absolute(crs, Size(crs) + 1) = InternalAfterLast(crs)
        BY <1>1 DEF Absolute
    <3>3. Size(crs) + 1 \in 0..(Size(crs) + 1)
        BY <1>1
    <3> QED BY <3>1, <3>2, <3>3
  <2> QED BY <1>1, <2>1, <2>2
<1>4. i \in 0..(Atomic!Size(Visible) + 1) /\ Visible' = Atomic!Absolute(Visible, i)
    BY <1>2, <1>3, SameSize, SameAbsolute
<1> QED BY <1>4 DEF Atomic!Next, Atomic!Read

\* The calls of the client that write nothing are steps of AtomicRowSet, the
\* others are not seen until they return.
LEMMA ClientIsAtomic ==
    ASSUME Shaped, Tombs(crs), Client
    PROVE  Atomic!Next \/ Visible' = Visible
<1>1. Formed(crs) /\ NumRows(crs) \in Nat
    BY RowsOfCache DEF Shaped, Typed
<1>2. ASSUME NEW c, Formed(c), NEW last \in BOOLEAN, Start(c, last), wr = Idle
      PROVE  Visible' = Visible
  <2>1. PICK w : w = [Idle EXCEPT !.last = last, !.was = crs]
      OBVIOUS
  <2>2. w \in WriterType /\ w.was = crs
      BY <1>1, <2>1 DEF WriterType, Idle, Formed
  <2>3. wr' = Arrive(c, w)
      BY <1>2, <2>1 DEF Start
  <2>4. Arrived(c, w, w.failed, wr') /\ wr'.was = crs
      BY <1>2, <2>2, <2>3, ArriveArrives, ArriveKeeps
  <2>5. wr'.pc # "idle"
      BY <2>4 DEF Arrived
  <2> QED BY <1>2, <2>4, <2>5 DEF Visible, Idle
<1>3. ASSUME NEW n \in Int, DeleteAt(n)
      PROVE  Visible' = Visible
  <2>1. Formed(crs') /\ wr = Idle
      BY <1>3, DeleteEdits DEF Shaped, Changes
  <2>2. Start(crs', FALSE)
      BY <1>3 DEF DeleteAt, Start
  <2> QED BY <1>2, <2>1, <2>2
<1>4. ASSUME NEW n \in Int, NEW col \in Column, NEW val \in Writable, UpdateAt(n, col, val)
      PROVE  Visible' = Visible
  <2>1. Formed(crs') /\ wr = Idle
      BY <1>4, UpdateEdits DEF Shaped, Changes
  <2>2. Start(crs', FALSE)
      BY <1>4 DEF UpdateAt, Start
  <2> QED BY <1>2, <2>1, <2>2
<1>5. ASSUME NEW n \in 0..(NumRows(crs) + 1), Browse(n)
      PROVE  Atomic!Next
    BY <1>5, BrowseIsAtomic
<1>6. ASSUME NEW vals \in NewValues,
             AddRow([k \in Column |-> IF k \in table.auto THEN NULL ELSE vals[k]])
      PROVE  Atomic!Next
  <2>1. PICK row : row = [k \in Column |-> IF k \in table.auto THEN NULL ELSE vals[k]]
      OBVIOUS
  <2>2. PICK given : given = Column \ table.auto
      OBVIOUS
  <2>3. row \in Atomic!Values /\ given \in SUBSET Column
      BY <2>1, <2>2, NewValuesTyped, Zenon DEF Values, Datum, Atomic!Values, Atomic!Datum
  <2>4. PICK buffer : buffer = [vals |-> row, given |-> given]
      OBVIOUS
  <2>5. /\ wr = Idle /\ wr' = wr
        /\ crs' = MoveToCurrentRow(InsertRow([MoveToInsertRow(crs) EXCEPT !.insertRow = buffer]))
      BY <1>6, <2>1, <2>2, <2>4 DEF AddRow
  <2>6. Visible = crs /\ Visible' = Atomic!MoveToCurrentRow(Atomic!InsertRow(
              [Atomic!MoveToInsertRow(Visible) EXCEPT !.insertRow = buffer]))
      BY <2>5, SameEdits DEF Visible
  <2>7. Atomic!Insert
      BY <2>3, <2>4, <2>6, Zenon DEF Atomic!Insert
  <2> QED BY <2>7 DEF Atomic!Next
<1>7. CASE AcceptInserts
    BY <1>1, <1>2, <1>7 DEF AcceptInserts
<1>8. CASE \E n \in 1..NumRows(crs) :
             DeleteAt(n) \/ \E col \in Column, val \in Writable : UpdateAt(n, col, val)
    BY <1>1, <1>3, <1>4, <1>8
<1> QED BY <1>5, <1>6, <1>7, <1>8, Zenon DEF Client

\* Every step of RowSetSync is one of AtomicRowSet, or is not seen.
LEMMA NextIsAtomic ==
    Shaped /\ Shaped' /\ Tombs(crs) /\ Calling /\ [Next]_vars => Atomic!Next \/ Visible' = Visible
<1> SUFFICES ASSUME Shaped, Shaped', Tombs(crs), Calling, [Next]_vars
             PROVE  Atomic!Next \/ Visible' = Visible
    OBVIOUS
<1>1. CASE Others \/ UNCHANGED vars
  <2>1. UNCHANGED <<crs, wr>>
      BY <1>1 DEF Others, OtherDelete, OtherUpdate, OtherInsert, vars
  <2> QED BY <2>1 DEF Visible
<1> QED BY <1>1, WriterIsAtomic, ClientIsAtomic DEF Next

(* CallsLookAtomic holds for all constants: whatever the database refuses  *)
(* or generates on the way, and whoever writes in between, the client of   *)
(* RowSetBase sees of acceptChanges that each row that waited was accepted *)
(* or undone as a whole.                                                   *)
THEOREM CallsLookAtomicHolds == Spec => CallsLookAtomic
<1>1. Shaped /\ Shaped' /\ Tombs(crs) /\ Calling /\ [Next]_vars
         => [Visible' # Visible => Atomic!Next]_vars
    BY NextIsAtomic
<1> QED BY <1>1, ShapedInvariant, TombsInvariant, CallingInvariant, PTL DEF Spec, CallsLookAtomic

(* RowSetSync implements AtomicRowSet: it starts as it does, and every     *)
(* step is one of its steps or changes nothing the client of RowSetBase    *)
(* sees.                                                                   *)
THEOREM ImplementsAtomic == Spec => Atomic!Spec
<1>1. Init => Atomic!Init
  <2> SUFFICES ASSUME Init PROVE Atomic!Init
      OBVIOUS
  <2>1. PICK n \in 0..MaxInit : \E rows \in [1..n -> Values], show \in BOOLEAN :
            crs = Populate(rows, show)
      BY DEF Init
  <2>2. PICK rows \in [1..n -> Values], show \in BOOLEAN : crs = Populate(rows, show)
      BY <2>1
  <2>3. n \in Nat /\ rows \in [1..n -> Atomic!Values]
      BY BoundAssumption DEF Values, Datum, Atomic!Values, Atomic!Datum
  <2>4. Visible = Atomic!Populate(rows, show)
      BY <2>2, SamePopulate DEF Init, Visible
  <2> QED BY <2>3, <2>4 DEF Atomic!Init
<1>2. Shaped /\ Shaped' /\ Tombs(crs) /\ Calling /\ [Next]_vars => [Atomic!Next]_Visible
    BY NextIsAtomic
<1> QED BY <1>1, <1>2, ShapedInvariant, TombsInvariant, CallingInvariant, PTL
        DEF Spec, Atomic!Spec
----------------------------------------------------------------------------
(* The cursor after a call: where next and previous accept it, as long as  *)
(* two rows wait at most.                                                  *)

\* The rows in conflict that the resolver has still to undo are gone.
Spent == \A i \in wr.failed : i > NumRows(crs)

NoneCreated == \A i \in 1..NumRows(crs) : ~Created(i)

\* The last place a cursor has while no row was taken away under it.
Far == IF wr.pc = "idle" \/ wr.last THEN NumRows(crs) + 1 ELSE NumRows(crs)

\* One row at most is taken away under the cursor; last() mends it, unless
\* there is no row to see.
Reached ==
    /\ Cardinality(Pending(crs)) <= MaxPending
    /\ crs.cursorPos \in 0..(Far + 1)
    /\ crs.cursorPos = Far + 1 => \/ wr.pc = "idle" /\ IsEmpty(crs)
                                  \/ wr.pc = "resolve" /\ Spent
                                  \/ wr.last /\ NoneCreated

\* Edits, and the calls that end them, leave the cursor where it is.
LEMMA CallsKeepCursor ==
    ASSUME NEW c, Formed(c), ~c.onInsertRow
    PROVE  /\ \A col, val : UpdateRow(UpdateColumn(c, col, val)).cursorPos = c.cursorPos
           /\ DeleteRow(c).cursorPos = c.cursorPos
           /\ CloseResolver(c).cursorPos = c.cursorPos
           /\ SetOriginal(c).cursorPos = c.cursorPos
           /\ \A i, vals : UpdateKeys(c, i, vals).cursorPos = c.cursorPos
           /\ \A i \in 1..NumRows(c) : UndoConflict(c, i).cursorPos = c.cursorPos
           /\ \A buffer : MoveToCurrentRow(InsertRow(
                  [MoveToInsertRow(c) EXCEPT !.insertRow = buffer])).cursorPos = c.cursorPos
<1>1. c \in Cache
    BY DEF Formed
<1>2. ASSUME NEW col, NEW val
      PROVE  UpdateRow(UpdateColumn(c, col, val)).cursorPos = c.cursorPos
  <2>1. PICK d : d = UpdateColumn(c, col, val)
      OBVIOUS
  <2>2. PICK rows : d = [c EXCEPT !.rvh = rows]
      BY <2>1 DEF UpdateColumn
  <2>3. DOMAIN d = DOMAIN c /\ d.cursorPos = c.cursorPos /\ "cursorPos" \in DOMAIN d
      BY <1>1, <2>2 DEF Cache
  <2>4. PICK more : UpdateRow(d) = [d EXCEPT !.rvh = more]
      BY DEF UpdateRow
  <2>5. UpdateRow(d).cursorPos = d.cursorPos
      BY <2>3, <2>4
  <2> QED BY <2>1, <2>3, <2>5
<1>3. DeleteRow(c).cursorPos = c.cursorPos
    BY <1>1 DEF DeleteRow, Cache
<1>4. CloseResolver(c).cursorPos = c.cursorPos
    BY <1>1 DEF CloseResolver, Cache
<1>5. SetOriginal(c).cursorPos = c.cursorPos
    BY <1>1 DEF SetOriginal, Cache
<1>6. \A i, vals : UpdateKeys(c, i, vals).cursorPos = c.cursorPos
    BY <1>1 DEF UpdateKeys, Cache
<1>7. ASSUME NEW i \in 1..NumRows(c)
      PROVE  UndoConflict(c, i).cursorPos = c.cursorPos
  <2>1. PICK at : at = [c EXCEPT !.cursorPos = i, !.showDeleted = TRUE]
      OBVIOUS
  <2>2. DOMAIN at = DOMAIN c /\ at.rvh = c.rvh /\ "cursorPos" \in DOMAIN c
        /\ Kind(c.rvh[i]) \in {"update", "delete", "insert"}
      BY <1>1, <2>1 DEF Cache, Kind
  <2>3. PICK d : d = CASE Kind(c.rvh[i]) = "update" -> UndoUpdate(at)
                       [] Kind(c.rvh[i]) = "delete" -> UndoDelete(at)
                       [] Kind(c.rvh[i]) = "insert" -> UndoInsert(at)
      OBVIOUS
  <2>4. DOMAIN d = DOMAIN c
    <3>1. CASE Kind(c.rvh[i]) = "update"
        BY <2>2, <2>3, <3>1 DEF UndoUpdate, RefreshRow
    <3>2. CASE Kind(c.rvh[i]) = "delete"
        BY <2>2, <2>3, <3>2 DEF UndoDelete
    <3>3. CASE Kind(c.rvh[i]) = "insert"
        BY <2>2, <2>3, <3>3 DEF UndoInsert
    <3> QED BY <2>2, <3>1, <3>2, <3>3
  <2>5. UndoConflict(c, i) = [d EXCEPT !.cursorPos = c.cursorPos, !.showDeleted = c.showDeleted]
      BY <2>1, <2>3 DEF UndoConflict
  <2> QED BY <2>2, <2>4, <2>5
<1>8. ASSUME NEW buffer
      PROVE  MoveToCurrentRow(InsertRow(
                  [MoveToInsertRow(c) EXCEPT !.insertRow = buffer])).cursorPos = c.cursorPos
  <2>1. PICK m : m = MoveToInsertRow(c)
      OBVIOUS
  <2>2. DOMAIN m = DOMAIN c /\ m.currentRow = c.cursorPos /\ m.onInsertRow
        /\ {"cursorPos", "currentRow", "onInsertRow"} \subseteq DOMAIN m
      BY <1>1, <2>1 DEF MoveToInsertRow, Cache
  <2>3. PICK b : b = [m EXCEPT !.insertRow = buffer]
      OBVIOUS
  <2>4. b.currentRow = c.cursorPos /\ b.onInsertRow /\ DOMAIN b = DOMAIN m
      BY <2>2, <2>3
  <2>5. PICK d : d = InsertRow(b)
      OBVIOUS
  <2>6. d.currentRow = c.cursorPos /\ d.onInsertRow /\ DOMAIN d = DOMAIN m
      BY <2>2, <2>4, <2>5 DEF InsertRow
  <2>7. MoveToCurrentRow(d).cursorPos = c.cursorPos
      BY <2>2, <2>6 DEF MoveToCurrentRow
  <2> QED BY <2>1, <2>3, <2>5, <2>7
<1> QED BY <1>2, <1>3, <1>4, <1>5, <1>6, <1>7, <1>8

\* Fewer rows wait when none comes to wait.
LEMMA FewerWait ==
    ASSUME NEW c, NEW d, Formed(c), Pending(d) \subseteq Pending(c)
    PROVE  /\ Cardinality(Pending(d)) \in Nat /\ Cardinality(Pending(c)) \in Nat
           /\ Cardinality(Pending(d)) <= Cardinality(Pending(c))
<1>1. IsFiniteSet(Pending(c))
    BY PendingFinite
<1> QED BY <1>1, FS_Subset, FS_CardinalityType

\* No three rows wait.
LEMMA NoThreeWait ==
    ASSUME NEW S, IsFiniteSet(S), Cardinality(S) <= 2, NEW x \in S, NEW y \in S, NEW z \in S,
           x # y, y # z, x # z
    PROVE  FALSE
<1>1. IsFiniteSet(S \ {x}) /\ Cardinality(S \ {x}) = Cardinality(S) - 1 /\ Cardinality(S) \in Nat
    BY FS_RemoveElement, FS_CardinalityType
<1>2. \A a, b \in S \ {x} : a = b
    BY <1>1, AtMostOne
<1> QED BY <1>2

\* Where nothing is to be seen nothing is created: a created row has no bit.
LEMMA EmptyHasNoneCreated ==
    ASSUME NEW c, Formed(c), Tombs(c), IsEmpty(c)
    PROVE  \A i \in 1..NumRows(c) : "created" \notin c.rvh[i].flags
<1>1. NumRows(c) \in Nat /\ Cardinality(c.deletedRows) \in Nat
    BY FormedFacts
<1>2. CASE c.showDeleted
    BY <1>1, <1>2 DEF IsEmpty, Size
<1>3. CASE ~c.showDeleted
  <2>1. IsFiniteSet(1..NumRows(c)) /\ Cardinality(1..NumRows(c)) = NumRows(c)
    <3>1. 1 \in Int /\ NumRows(c) \in Int
        BY <1>1
    <3>2. /\ IsFiniteSet(1..NumRows(c))
          /\ Cardinality(1..NumRows(c)) = IF 1 > NumRows(c) THEN 0 ELSE NumRows(c) - 1 + 1
        BY <3>1, FS_Interval
    <3> QED BY <1>1, <3>2
  <2>2. Cardinality(c.deletedRows) = Cardinality(1..NumRows(c))
      BY <1>1, <1>3, <2>1 DEF IsEmpty, Size
  <2>3. c.deletedRows = 1..NumRows(c)
      BY <2>1, <2>2, FS_Subset DEF Tombs
  <2> QED BY <2>3 DEF Tombs
<1> QED BY <1>2, <1>3

\* The writer on its way to the end touches neither cursor nor marks.
LEMMA OnItsWayReaches ==
    ASSUME Reached, wr.pc # "idle", wr.pc # "resolve", wr'.pc # "idle", wr'.last = wr.last,
           SameMarks(crs, crs'), crs'.cursorPos = crs.cursorPos
    PROVE  Reached'
<1>1. NumRows(crs)' = NumRows(crs) /\ Pending(crs)' = Pending(crs)
    BY SameMarksWait DEF SameMarks, Pending, NumRows
<1>2. Far' = Far
    BY <1>1 DEF Far
<1>3. NoneCreated => NoneCreated'
    BY <1>1 DEF NoneCreated, Created, SameMarks
<1> QED BY <1>1, <1>2, <1>3 DEF Reached

\* Nor does the end of a call, but for last(), which mends the cursor.
LEMMA EndReaches ==
    ASSUME Typed, Reached, wr.pc # "idle", NEW c, Formed(c), NumRows(c) = NumRows(crs),
           c.cursorPos = crs.cursorPos, Pending(c) \subseteq Pending(crs), Return(c),
           MaxPending \in Nat
    PROVE  Reached'
<1>1. /\ Formed(crs) /\ NumRows(crs) \in Nat /\ wr' = Idle /\ wr \in WriterType
      /\ crs' = IF wr.last THEN Last(c) ELSE c
    BY RowsOfCache DEF Typed, Return
<1>2. crs'.rvh = c.rvh
    BY <1>1, LastSteers DEF Steers
<1>3. NumRows(crs)' = NumRows(crs) /\ Pending(crs)' = Pending(c)
    BY <1>2 DEF NumRows, Pending
<1>4. Cardinality(Pending(crs)') <= MaxPending
  <2>1. /\ Cardinality(Pending(c)) \in Nat /\ Cardinality(Pending(crs)) \in Nat
        /\ Cardinality(Pending(c)) <= Cardinality(Pending(crs))
      BY <1>1, FewerWait
  <2> QED BY <1>3, <2>1 DEF Reached
<1>5. Far' = NumRows(crs) + 1 /\ wr'.pc = "idle"
    BY <1>1, <1>3 DEF Far, Idle
<1>6. crs.cursorPos \in 0..(Far + 1) /\ Far \in Nat /\ Far <= NumRows(crs) + 1
      /\ (~wr.last => Far = NumRows(crs))
    BY <1>1 DEF Reached, Far
<1>7. CASE ~wr.last
    BY <1>1, <1>4, <1>5, <1>6, <1>7 DEF Reached
<1>8. CASE wr.last /\ IsEmpty(c)
  <2>1. crs' = c
      BY <1>1, <1>8, LastSteers
  <2> QED BY <1>1, <1>4, <1>5, <1>6, <1>8, <2>1 DEF Reached
<1>9. CASE wr.last /\ ~IsEmpty(c)
  <2>1. crs'.cursorPos \in 0..NumRows(c)
      BY <1>1, <1>9, LastSteers
  <2> QED BY <1>1, <1>4, <1>5, <2>1 DEF Reached
<1> QED BY <1>7, <1>8, <1>9

\* An update or a delete undone takes no row away.
LEMMA UndoneReaches ==
    ASSUME Typed, Reached, wr.pc = "resolve", NEW m \in wr.failed, m \in 1..NumRows(crs),
           NEW row, Changes(crs, crs', m, row),
           "created" \in row.flags <=> Created(m),
           Pending(crs') \subseteq Pending(crs), crs'.cursorPos = crs.cursorPos,
           wr'.pc = "resolve", wr'.last = wr.last, MaxPending \in Nat
    PROVE  Reached'
<1>1. /\ NumRows(crs)' = NumRows(crs) /\ NumRows(crs) \in Nat /\ Formed(crs)
      /\ Pending(crs)' = Pending(crs')
    BY RowsOfCache DEF Typed, Changes, NumRows, Pending
<1>2. Cardinality(Pending(crs)') <= MaxPending
  <2>1. /\ Cardinality(Pending(crs')) \in Nat /\ Cardinality(Pending(crs)) \in Nat
        /\ Cardinality(Pending(crs')) <= Cardinality(Pending(crs))
      BY <1>1, FewerWait
  <2> QED BY <1>1, <2>1 DEF Reached
<1>3. Far' = Far
    BY <1>1 DEF Far
<1>4. ~Spent
    BY <1>1 DEF Spent
<1>5. NoneCreated => NoneCreated'
    BY <1>1 DEF NoneCreated, Created, Changes
<1> QED BY <1>1, <1>2, <1>3, <1>4, <1>5 DEF Reached

\* An insert undone takes the last row away; when two rows wait that is the
\* only one.
LEMMA TakenReaches ==
    ASSUME Shaped, Tombs(crs), Reached, wr.pc = "resolve", MaxPending <= 2, MaxPending \in Nat,
           NEW m \in wr.failed, m \in 1..NumRows(crs), \A i \in wr.failed : m <= i,
           Created(m), Shortens(crs, crs'), crs'.cursorPos = crs.cursorPos,
           wr'.pc = "resolve", wr'.last = wr.last, wr'.failed = wr.failed \ {m}
    PROVE  Reached'
<1>1. /\ Formed(crs) /\ NumRows(crs) \in Nat /\ wr \in WriterType /\ wr.failed \in SUBSET Nat
      /\ IsFiniteSet(Pending(crs)) /\ Cardinality(Pending(crs)) \in Nat
    BY RowsOfCache, PendingFinite, FS_CardinalityType DEF Shaped, Typed, WriterType
<1>2. /\ NumRows(crs)' = NumRows(crs) - 1 /\ Pending(crs)' = Pending(crs')
      /\ Pending(crs') \subseteq Pending(crs) /\ NumRows(crs)' = NumRows(crs')
    BY <1>1, ShortensWaits DEF NumRows, Pending
<1>3. Cardinality(Pending(crs)') <= MaxPending /\ Cardinality(Pending(crs)) <= 2
  <2>1. /\ Cardinality(Pending(crs')) \in Nat /\ Cardinality(Pending(crs)) \in Nat
        /\ Cardinality(Pending(crs')) <= Cardinality(Pending(crs))
      BY <1>1, <1>2, FewerWait
  <2> QED BY <1>2, <2>1 DEF Reached
<1>4. Far' = Far - 1 /\ Far \in Nat
    BY <1>1, <1>2 DEF Far
<1>5. ~Spent /\ ~NoneCreated /\ wr.pc # "idle"
    BY <1>1 DEF Spent, NoneCreated
<1>6. crs.cursorPos \in 0..Far
    BY <1>4, <1>5 DEF Reached
<1>7. Spent'
  <2> SUFFICES ASSUME NEW j \in wr.failed, j # m, ~(j > NumRows(crs) - 1)
               PROVE  FALSE
      BY <1>2 DEF Spent
  <2>1. j \in Nat /\ m < j /\ j < NumRows(crs) /\ m # NumRows(crs)
      BY <1>1
  <2>2. j \in Pending(crs) /\ m \in Pending(crs)
      BY <1>1, <2>1 DEF Shaped, AtRow
  <2>3. NumRows(crs) \in Pending(crs)
    <3>1. NumRows(crs) \in 1..NumRows(crs) /\ m < NumRows(crs)
        BY <1>1, <2>1
    <3>2. "created" \in crs.rvh[NumRows(crs)].flags
        BY <3>1 DEF Tombs, Created
    <3> QED BY <3>1, <3>2 DEF Pending
  <2> QED BY <1>1, <1>3, <2>1, <2>2, <2>3, NoThreeWait
<1> QED BY <1>3, <1>4, <1>6, <1>7 DEF Reached

\* The writer keeps the cursor within reach.
LEMMA WriterReaches ==
    ASSUME Shaped, Tombs(crs), Reached, MaxPending <= 2, Writer
    PROVE  Reached'
<1>1. /\ Formed(crs) /\ ~crs.onInsertRow /\ NumRows(crs) \in Nat /\ Typed /\ AtRow
      /\ wr \in WriterType /\ MaxPending \in Nat
    BY RowsOfCache, BoundAssumption DEF Shaped, Typed
<1>2. ASSUME wr.row # 0, wr.pc # "idle", wr.pc # "resolve", Refuse \/ Proceed
      PROVE  wr'.pc # "idle" /\ wr'.last = wr.last
  <2>1. PICK w \in WriterType : wr' = Arrive(crs, w) /\ w.last = wr.last
    <3>1. CASE Proceed
        BY <1>1, <3>1 DEF Proceed
    <3>2. CASE Refuse
      <4>1. PICK w : w = [wr EXCEPT !.failed = wr.failed \cup {wr.row}]
          OBVIOUS
      <4>2. w \in WriterType /\ w.last = wr.last
        <5>1. wr.row \in Nat
            BY <1>1 DEF WriterType
        <5> QED BY <1>1, <4>1, <5>1 DEF WriterType
      <4> QED BY <3>2, <4>1, <4>2 DEF Refuse
    <3> QED BY <1>2, <3>1, <3>2
  <2>2. Arrived(crs, w, w.failed, wr') /\ wr'.last = w.last
      BY <1>1, <2>1, ArriveArrives, ArriveKeeps
  <2>3. wr'.pc # "idle"
      BY <2>2 DEF Arrived
  <2> QED BY <2>1, <2>2, <2>3
<1>3. wr.pc \in {"check", "write", "keys"} => wr.row # 0 /\ wr.pc # "idle" /\ wr.pc # "resolve"
    BY <1>1 DEF AtRow
<1>4. ASSUME UNCHANGED crs, wr.pc \in {"check", "write", "keys"},
             wr'.pc # "idle", wr'.last = wr.last
      PROVE  Reached'
  <2>1. SameMarks(crs, crs') /\ crs'.cursorPos = crs.cursorPos
      BY <1>4, SameRowsMarks
  <2> QED BY <1>3, <1>4, <2>1, OnItsWayReaches
<1>5. CASE CheckRow
  <2>1. wr'.pc # "idle" /\ wr'.last = wr.last
      BY <1>1, <1>5 DEF CheckRow, WriterType
  <2> QED BY <1>4, <1>5, <2>1 DEF CheckRow
<1>6. CASE RefuseRow \/ WriteRow \/ FailStatement
  <2>1. UNCHANGED crs /\ wr.pc \in {"check", "write", "keys"} /\ (Refuse \/ Proceed)
      BY <1>6 DEF RefuseRow, WriteRow, FailStatement
  <2> QED BY <1>2, <1>3, <1>4, <2>1
<1>7. CASE InsertRecord
  <2>1. CASE Proceed
      BY <1>2, <1>3, <1>4, <1>7, <2>1 DEF InsertRecord
  <2>2. CASE wr' = [wr EXCEPT !.pc = "keys"]
    <3>1. wr'.pc # "idle" /\ wr'.last = wr.last
        BY <1>1, <2>2 DEF WriterType
    <3> QED BY <1>4, <1>7, <3>1 DEF InsertRecord
  <2> QED BY <1>7, <2>1, <2>2 DEF InsertRecord
<1>8. CASE FetchKeys
  <2>1. SameMarks(crs, crs')
      BY <1>8, FetchKeepsMarks
  <2>2. crs'.cursorPos = crs.cursorPos
      BY <1>1, <1>8, CallsKeepCursor DEF FetchKeys
  <2>3. wr.pc = "keys" /\ Proceed
      BY <1>8 DEF FetchKeys
  <2> QED BY <1>2, <1>3, <2>1, <2>2, <2>3, OnItsWayReaches
<1>9. CASE FinishAccept
  <2>1. PICK c : c = SetOriginal(crs)
      OBVIOUS
  <2>2. /\ Formed(c) /\ NumRows(c) = NumRows(crs)
        /\ \A i \in 1..NumRows(crs) : c.rvh[i] = MakeRowOriginal(crs.rvh[i])
      BY <1>1, <2>1, OriginalRows
  <2>3. Pending(c) = {}
    <3>1. \A i \in 1..NumRows(c) : MakeRowOriginal(crs.rvh[i]).flags
                                      \cap {"removed", "created", "updated"} = {}
        BY <1>1, <2>2, RowsOfCache, OriginalFlags
    <3> QED BY <2>2, <3>1 DEF Pending
  <2>4. c.cursorPos = crs.cursorPos
      BY <1>1, <2>1, CallsKeepCursor
  <2>5. Return(c) /\ wr.pc # "idle"
      BY <1>9, <2>1 DEF FinishAccept
  <2> QED BY <1>1, <2>2, <2>3, <2>4, <2>5, EndReaches
<1>10. CASE EndResolve
  <2>1. PICK c : c = CloseResolver(crs)
      OBVIOUS
  <2>2. Formed(c) /\ c.rvh = crs.rvh /\ c.cursorPos = crs.cursorPos
      BY <1>1, <2>1, CloseKeeps, CallsKeepCursor
  <2>3. NumRows(c) = NumRows(crs) /\ Pending(c) \subseteq Pending(crs)
      BY <2>2 DEF NumRows, Pending
  <2>4. Return(c) /\ wr.pc # "idle"
      BY <1>10, <2>1 DEF EndResolve
  <2> QED BY <1>1, <2>2, <2>3, <2>4, EndReaches
<1>11. CASE ResolveRow
  <2>1. PICK m \in Pending(crs) :
              /\ m \in wr.failed /\ m \in 1..NumRows(crs)
              /\ \A i \in wr.failed : m <= i
              /\ wr' = [wr EXCEPT !.failed = wr.failed \ {m}]
              /\ \/ Kind(crs.rvh[m]) = "insert" /\ Shortens(crs, crs')
                 \/ /\ Kind(crs.rvh[m]) = "update"
                    /\ Changes(crs, crs', m, ClearUpdated(crs.rvh[m]))
                 \/ /\ Kind(crs.rvh[m]) = "delete"
                    /\ Changes(crs, crs', m, [crs.rvh[m] EXCEPT !.flags = @ \ {"removed"}])
      BY <1>1, <1>11, ResolveUndoes
  <2>2. /\ wr.pc = "resolve" /\ wr'.pc = "resolve" /\ wr'.last = wr.last
        /\ wr'.failed = wr.failed \ {m}
    <3>1. wr.pc = "resolve"
        BY <1>11 DEF ResolveRow
    <3> QED BY <1>1, <2>1, <3>1 DEF WriterType
  <2>3. crs'.cursorPos = crs.cursorPos
    <3>1. PICK i : i = Min(wr.failed)
        OBVIOUS
    <3>2. i \in 1..NumRows(crs) /\ crs' = UndoConflict(crs, i)
      <4>1. wr.failed \in SUBSET Nat /\ wr.failed # {} /\ i <= NumRows(crs)
            /\ crs' = UndoConflict(crs, i)
          BY <1>1, <1>11, <3>1 DEF ResolveRow, WriterType
      <4>2. i \in wr.failed
          BY <3>1, <4>1, MinOfNat
      <4>3. i \in Nat /\ (i \in Pending(crs) \/ i > NumRows(crs))
          BY <1>1, <4>1, <4>2 DEF AtRow
      <4> QED BY <1>1, <4>1, <4>3 DEF Pending
    <3> QED BY <1>1, <3>2, CallsKeepCursor
  <2>4. CASE Kind(crs.rvh[m]) = "insert" /\ Shortens(crs, crs')
    <3>1. Created(m)
        BY <2>4 DEF Kind, Created
    <3> QED BY <1>1, <2>1, <2>2, <2>3, <2>4, <3>1, TakenReaches
  <2>5. ASSUME NEW row, Changes(crs, crs', m, row),
               "created" \in row.flags <=> Created(m)
        PROVE  Reached'
    <3>1. \A i : i # m => (i \in Pending(crs') <=> i \in Pending(crs))
        BY <2>5, ChangesWait
    <3>2. Pending(crs') \subseteq Pending(crs)
        BY <2>1, <3>1
    <3> QED BY <1>1, <2>1, <2>2, <2>3, <2>5, <3>2, UndoneReaches
  <2>6. crs.rvh[m] \in Row
      BY <1>1, <2>1, RowsOfCache
  <2>7. CASE Kind(crs.rvh[m]) = "update" /\ Changes(crs, crs', m, ClearUpdated(crs.rvh[m]))
    <3>1. ClearUpdated(crs.rvh[m]).flags = crs.rvh[m].flags \ {"updated"}
        BY <2>6, ClearedRow
    <3> QED BY <2>5, <2>7, <3>1 DEF Created
  <2>8. CASE /\ Kind(crs.rvh[m]) = "delete"
             /\ Changes(crs, crs', m, [crs.rvh[m] EXCEPT !.flags = @ \ {"removed"}])
    <3>1. PICK row : row = [crs.rvh[m] EXCEPT !.flags = @ \ {"removed"}]
        OBVIOUS
    <3>2. row.flags = crs.rvh[m].flags \ {"removed"}
        BY <2>6, <3>1 DEF Row
    <3>3. Changes(crs, crs', m, row)
        BY <2>8, <3>1
    <3> QED BY <2>5, <3>2, <3>3 DEF Created
  <2> QED BY <2>1, <2>4, <2>7, <2>8
<1> QED BY <1>5, <1>6, <1>7, <1>8, <1>9, <1>10, <1>11 DEF Writer

\* An edit is made where the cursor is, on a row.
LEMMA EditReaches ==
    ASSUME Typed, MaxPending \in Nat, wr'.pc # "idle",
           NEW p \in 1..NumRows(crs), NEW row, Changes(crs, crs', p, row),
           Cardinality(Pending(crs) \cup {p}) <= MaxPending, crs'.cursorPos \in 1..NumRows(crs)
    PROVE  Reached'
<1>1. /\ NumRows(crs)' = NumRows(crs) /\ NumRows(crs) \in Nat /\ Formed(crs)
      /\ Pending(crs)' = Pending(crs')
    BY RowsOfCache DEF Typed, Changes, NumRows, Pending
<1>2. Cardinality(Pending(crs)') <= MaxPending
  <2>1. \A i : i # p => (i \in Pending(crs') <=> i \in Pending(crs))
      BY ChangesWait
  <2>2. Pending(crs') \subseteq Pending(crs) \cup {p} /\ IsFiniteSet(Pending(crs) \cup {p})
      BY <1>1, <2>1, PendingFinite, FS_AddElement
  <2>3. /\ Cardinality(Pending(crs')) \in Nat /\ Cardinality(Pending(crs) \cup {p}) \in Nat
        /\ Cardinality(Pending(crs')) <= Cardinality(Pending(crs) \cup {p})
      BY <2>2, FS_Subset, FS_CardinalityType
  <2> QED BY <1>1, <2>3
<1>3. Far' \in {NumRows(crs), NumRows(crs) + 1}
    BY <1>1 DEF Far
<1> QED BY <1>1, <1>2, <1>3 DEF Reached

\* The calls of the client keep the cursor within reach.
LEMMA ClientReaches ==
    ASSUME Shaped, Tombs(crs), Reached, Client
    PROVE  Reached'
<1>1. /\ Formed(crs) /\ ~crs.onInsertRow /\ NumRows(crs) \in Nat /\ Typed
      /\ MaxPending \in Nat /\ Idle.pc = "idle"
    BY RowsOfCache, BoundAssumption DEF Shaped, Typed, Idle
<1>2. ASSUME Arrived(crs', Idle, {}, wr')
      PROVE  wr'.pc # "idle"
    BY <1>2 DEF Arrived
<1>3. ASSUME NEW n \in Int, DeleteAt(n)
      PROVE  Reached'
  <2>1. PICK at : at = Absolute(crs, n)
      OBVIOUS
  <2>2. Steers(crs, at) /\ at.cursorPos \in 1..NumRows(crs)
      BY <1>1, <1>3, <2>1, AbsoluteSteers DEF DeleteAt
  <2>3. Formed(at) /\ ~at.onInsertRow /\ crs' = DeleteRow(at)
      BY <1>1, <1>3, <2>1, <2>2 DEF Steers, DeleteAt, Start
  <2>4. crs'.cursorPos \in 1..NumRows(crs)
      BY <2>2, <2>3, CallsKeepCursor
  <2>5. /\ Arrived(crs', Idle, {}, wr')
        /\ \E p \in 1..NumRows(crs) :
              /\ Cardinality(Pending(crs) \cup {p}) <= MaxPending
              /\ Changes(crs, crs', p, [crs.rvh[p] EXCEPT !.flags = @ \cup {"removed"}])
      BY <1>1, <1>3, DeleteEdits
  <2> QED BY <1>1, <1>2, <2>4, <2>5, EditReaches
<1>4. ASSUME NEW n \in Int, NEW col \in Column, NEW val \in Writable, UpdateAt(n, col, val)
      PROVE  Reached'
  <2>1. PICK at : at = Absolute(crs, n)
      OBVIOUS
  <2>2. Steers(crs, at) /\ at.cursorPos \in 1..NumRows(crs)
      BY <1>1, <1>4, <2>1, AbsoluteSteers DEF UpdateAt
  <2>3. Formed(at) /\ ~at.onInsertRow /\ crs' = UpdateRow(UpdateColumn(at, col, val))
      BY <1>1, <1>4, <2>1, <2>2 DEF Steers, UpdateAt, Start
  <2>4. crs'.cursorPos \in 1..NumRows(crs)
      BY <2>2, <2>3, CallsKeepCursor
  <2>5. /\ Arrived(crs', Idle, {}, wr')
        /\ \E p \in 1..NumRows(crs) :
              /\ Cardinality(Pending(crs) \cup {p}) <= MaxPending
              /\ Changes(crs, crs', p, SetUpdated(SetColumnObject(crs.rvh[p], col, val)))
      BY <1>1, <1>4, UpdateEdits
  <2> QED BY <1>1, <1>2, <2>4, <2>5, EditReaches
<1>5. ASSUME NEW n \in Int, Browse(n)
      PROVE  Reached'
  <2>1. Steers(crs, crs') /\ crs'.cursorPos \in 0..(NumRows(crs) + 1)
      BY <1>1, <1>5, AbsoluteSteers DEF Browse
  <2>2. /\ NumRows(crs)' = NumRows(crs) /\ Pending(crs)' = Pending(crs) /\ wr'.pc = "idle"
      BY <1>1, <1>5, <2>1 DEF Steers, NumRows, Pending, Browse
  <2>3. Far' = NumRows(crs) + 1
      BY <2>2 DEF Far
  <2> QED BY <1>1, <2>1, <2>2, <2>3 DEF Reached
<1>6. ASSUME NEW vals \in Values, AddRow(vals)
      PROVE  Reached'
  <2>1. /\ wr.pc = "idle" /\ wr'.pc = "idle" /\ Cardinality(Pending(crs)) < MaxPending
        /\ Extends(crs, crs', [NewRow(vals) EXCEPT !.flags = {"created"}])
      BY <1>1, <1>6, AddAdds
  <2>2. crs'.cursorPos = crs.cursorPos
      BY <1>1, <1>6, CallsKeepCursor DEF AddRow
  <2>3. /\ NumRows(crs)' = NumRows(crs) + 1 /\ Pending(crs)' = Pending(crs')
        /\ \A j \in 1..NumRows(crs') : j = NumRows(crs) + 1 \/ crs'.rvh[j] = crs.rvh[j]
      BY <2>1 DEF Extends, NumRows, Pending
  <2>4. Pending(crs') \subseteq Pending(crs) \cup {NumRows(crs) + 1}
    <3>1. \A j \in 1..NumRows(crs') : j = NumRows(crs) + 1 \/ j \in 1..NumRows(crs)
        BY <1>1, <2>3 DEF NumRows
    <3> QED BY <2>3, <3>1 DEF Pending
  <2>5. Cardinality(Pending(crs)') <= MaxPending
    <3>1. IsFiniteSet(Pending(crs)) /\ Cardinality(Pending(crs)) \in Nat
        BY <1>1, PendingFinite, FS_CardinalityType
    <3>2. /\ IsFiniteSet(Pending(crs) \cup {NumRows(crs) + 1})
          /\ Cardinality(Pending(crs) \cup {NumRows(crs) + 1}) <= Cardinality(Pending(crs)) + 1
          /\ Cardinality(Pending(crs) \cup {NumRows(crs) + 1}) \in Nat
      <4>1. PICK new : new = NumRows(crs) + 1
          OBVIOUS
      <4>2. /\ IsFiniteSet(Pending(crs) \cup {new})
            /\ \/ Cardinality(Pending(crs) \cup {new}) = Cardinality(Pending(crs))
               \/ Cardinality(Pending(crs) \cup {new}) = Cardinality(Pending(crs)) + 1
          BY <3>1, FS_AddElement
      <4> QED BY <3>1, <4>1, <4>2
    <3>3. /\ Cardinality(Pending(crs')) <= Cardinality(Pending(crs) \cup {NumRows(crs) + 1})
          /\ Cardinality(Pending(crs')) \in Nat
        BY <2>4, <3>2, FS_Subset, FS_CardinalityType
    <3> QED BY <1>1, <2>1, <2>3, <3>1, <3>2, <3>3
  <2>6. Far = NumRows(crs) + 1 /\ Far' = NumRows(crs) + 2
      BY <1>1, <2>1, <2>3 DEF Far
  <2>7. crs.cursorPos \in 0..(NumRows(crs) + 2)
      BY <1>1, <2>6 DEF Reached
  <2> QED BY <1>1, <2>2, <2>5, <2>6, <2>7 DEF Reached
<1>7. CASE AcceptInserts
  <2>1. wr = Idle /\ crs' = crs /\ Start(crs, TRUE)
      BY <1>7 DEF AcceptInserts, Start
  <2>2. PICK w : w = [Idle EXCEPT !.last = TRUE, !.was = crs]
      OBVIOUS
  <2>3. w \in WriterType /\ w.last = TRUE /\ wr' = Arrive(crs, w)
      BY <1>1, <2>1, <2>2 DEF WriterType, Idle, Formed, Start
  <2>4. wr'.last /\ wr'.pc # "idle"
    <3>1. Arrived(crs, w, w.failed, wr') /\ wr'.last = w.last
        BY <1>1, <2>3, ArriveArrives, ArriveKeeps
    <3> QED BY <2>3, <3>1 DEF Arrived
  <2>5. NumRows(crs)' = NumRows(crs) /\ Pending(crs)' = Pending(crs)
      BY <2>1 DEF NumRows, Pending
  <2>6. Far = NumRows(crs) + 1 /\ Far' = Far
      BY <1>1, <2>1, <2>4, <2>5 DEF Far
  <2>7. IsEmpty(crs) => NoneCreated'
      BY <1>1, <2>1, <2>5, EmptyHasNoneCreated DEF NoneCreated, Created
  <2>8. crs.cursorPos = Far + 1 => NoneCreated'
    <3>1. ASSUME wr.last PROVE FALSE
        BY <2>1, <3>1 DEF Idle
    <3>2. wr.pc # "resolve"
        BY <1>1, <2>1
    <3> QED BY <2>7, <3>1, <3>2 DEF Reached
  <2> QED BY <2>1, <2>4, <2>5, <2>6, <2>8 DEF Reached
<1> QED BY <1>1, <1>3, <1>4, <1>5, <1>6, <1>7, ClientSteps

\* While two rows wait at most, the cursor is within reach in all states.
LEMMA ReachedInvariant == ASSUME MaxPending <= 2 PROVE Spec => []Reached
<1>1. Init => Reached
  <2> SUFFICES ASSUME NEW n \in 0..MaxInit, NEW rows \in [1..n -> Values], NEW show \in BOOLEAN,
                      crs = Populate(rows, show), wr = Idle
               PROVE  Reached
      BY DEF Init
  <2>1. n \in Nat /\ MaxPending \in Nat
      BY BoundAssumption
  <2>2. /\ NumRows(crs) = n
        /\ \A i \in 1..n : crs.rvh[i] = NewRow(rows[i])
      BY <2>1, PopulateRows
  <2>3. \A i \in 1..n : NewRow(rows[i]).flags = {}
      BY DEF NewRow
  <2>4. Pending(crs) = {} /\ Cardinality(Pending(crs)) = 0
      BY <2>2, <2>3, FS_EmptySet DEF Pending
  <2>5. crs.cursorPos = 0
      BY DEF Populate
  <2>6. Far = n + 1
      BY <2>2 DEF Far, Idle
  <2> QED BY <2>1, <2>4, <2>5, <2>6 DEF Reached
<1>2. Shaped /\ Tombs(crs) /\ Reached /\ [Next]_vars => Reached'
  <2> SUFFICES ASSUME Shaped, Tombs(crs), Reached, [Next]_vars PROVE Reached'
      OBVIOUS
  <2>1. CASE Others \/ UNCHANGED vars
    <3>1. UNCHANGED <<crs, wr>>
        BY <2>1 DEF Others, OtherDelete, OtherUpdate, OtherInsert, vars
    <3> QED BY <3>1 DEF Reached, Far, Spent, NoneCreated, Created
  <2> QED BY <2>1, ClientReaches, WriterReaches DEF Next
<1> QED BY <1>1, <1>2, ShapedInvariant, TombsInvariant, PTL DEF Spec

(* Between two calls the cursor is where next and previous accept it, or   *)
(* there is no row to see: however the writer and the resolver of          *)
(* RowSetBase.acceptChanges take rows away under it, while two rows wait   *)
(* at most.  With three it may be two rows behind the last one.            *)
THEOREM CursorUsableInvariant == ASSUME MaxPending <= 2 PROVE Spec => []CursorUsable
<1>1. Shaped /\ Reached => CursorUsable
  <2> SUFFICES ASSUME Shaped, Reached, wr = Idle PROVE CanStep(crs) \/ IsEmpty(crs)
      BY DEF CursorUsable
  <2>1. wr.pc = "idle" /\ ~wr.last /\ wr.pc # "resolve" /\ NumRows(crs) \in Nat
      BY RowsOfCache DEF Idle, Shaped, Typed
  <2>2. Far = NumRows(crs) + 1
      BY <2>1 DEF Far
  <2> QED BY <2>1, <2>2 DEF Reached, CanStep
<1> QED BY <1>1, ShapedInvariant, ReachedInvariant, PTL
=============================================================================
