----------------------------- MODULE RowSetSync -----------------------------
(***************************************************************************)
(* How the edits of a CachedRowSetImpl reach the database:                 *)
(*   sdbc/RowSetBase.java            updateRow, deleteRow, acceptChanges   *)
(*   internal/CachedRowSetWriter.java  the loop over the rows              *)
(*   internal/TableWriter.java         SELECT, compare, UPDATE or DELETE   *)
(*   internal/SyncResolverImpl.java    the conflicts handed back           *)
(*                                                                         *)
(* The database is a table that other sessions write as well.  The writer  *)
(* runs in autocommit, as Base opens its connections: every statement is   *)
(* a step of its own that lasts, and other sessions come between two of    *)
(* them, also between the SELECT that checks a row and the statement that  *)
(* changes it.  Any statement may fail.                                    *)
(***************************************************************************)
EXTENDS RowSetBase

CONSTANTS
    Key,        \* the columns of the primary key, when the table has one; NOT NULL
    AutoColumns, \* the auto-increment columns, when the key is generated
    Writable,   \* what the client and the other sessions write in a column
    MaxInit,    \* bound: records when the query runs
    MaxId,      \* bound: records ever
    MaxPending, \* bound: rows waiting to be written
    MaxOthers   \* bound: writes of other sessions

ASSUME KeyAssumption == Key \subseteq Column /\ Key # {} /\ AutoColumns \subseteq Key
ASSUME WritableAssumption == Writable \subseteq Datum
ASSUME BoundAssumption ==
    {MaxInit, MaxId, MaxPending, MaxOthers} \subseteq Nat /\ MaxInit <= MaxId

VARIABLES
    crs,    \* the row set of the client
    table,  \* what the TableWriter knows: hasPrimarykeys (pk), autoColumns (auto)
    db,     \* the records: the values of each
    wr,     \* the writer: what it does next, at which row, the rows in conflict,
            \* whether last() follows, and was: the row set before the call
    hist    \* what the code does not keep, for the properties and the bounds
            \* link: the record behind each row, 0 for one not yet inserted
            \* issued, others: the records there ever were, the writes of others
            \* touched: records another session wrote, made a twin of, or made
            \* the client mistake for one it wrote
            \* window: those of them since the last SELECT of the writer

vars == <<crs, table, db, wr, hist>>

Tables == {[pk |-> FALSE, auto |-> {}], [pk |-> TRUE, auto |-> {}],
           [pk |-> TRUE, auto |-> AutoColumns]}
NewValues == [Column -> Writable]
Idle == [pc |-> "idle", row |-> 0, failed |-> {}, last |-> FALSE, was |-> NULL]

\* The constraints of the table: the columns of Key are NOT NULL, and with a
\* primary key together unique.
Allowed(d) ==
    /\ \A id \in DOMAIN d, k \in Key : d[id][k] # NULL
    /\ table.pk => \A i, j \in DOMAIN d : i # j => \E k \in Key : d[i][k] # d[j][k]

Init ==
    /\ table \in Tables
    /\ \E n \in 0..MaxInit : \E rows \in [1..n -> Values], show \in BOOLEAN :
          /\ Allowed(rows)
          /\ db = rows
          /\ crs = Populate(rows, show)
          /\ hist = [link |-> [i \in 1..n |-> i], issued |-> n,
                     others |-> 0, touched |-> {}, window |-> {}]
    /\ wr = Idle

----------------------------------------------------------------------------
(* TableWriter: the row of the row set against the record.                 *)

\* keyColumns: the primary key, or every column (ResultSetHelper).
KeyColumns == IF table.pk THEN Key ELSE Column

\* buildWhereClause: the records the predicate of the row selects.
Matches(row) == {id \in DOMAIN db : \A k \in KeyColumns : db[id][k] = row.orig[k]}

\* One record, not several twins: told from the key, or counted.
Identified(ids) == ids # {} /\ (table.pk \/ Cardinality(ids) = 1)

\* getUpdateParameters: the SET list.
UpdateParameters(row) == {k \in row.changed : row.curr[k] # row.orig[k]}

\* (mutant: the record read is not compared)
UpdateCheckedByKey(row) == Identified(Matches(row)) /\ UpdateParameters(row) # {}

\* getUpdateQuery does not throw.
UpdateChecked(row) ==
    /\ Identified(Matches(row))
    /\ \A id \in Matches(row) : db[id] = row.orig
    /\ UpdateParameters(row) # {}

\* isCachedRowSetModified: a column that is NULL on one side never differs.
IsModified(row, vals) ==
    \E k \in Column : NULL \notin {row.orig[k], vals[k]} /\ row.orig[k] # vals[k]

\* getDeleteQuery does not throw.
DeleteChecked(row) ==
    /\ Identified(Matches(row))
    /\ \A id \in Matches(row) : ~IsModified(row, db[id])

Checked(row) == IF Kind(row) = "delete" THEN DeleteChecked(row) ELSE UpdateChecked(row)

Shows(row) == [k \in Column |-> ColumnObject(row, k)]

\* What an INSERT may store: the database fills in the auto-increment columns.
Stored(row) == {vals \in Values : \A k \in Column \ table.auto : vals[k] = Shows(row)[k]}

\* The records after the statement for the row, vals being what it stores.
Written(row, vals) ==
    CASE Kind(row) = "delete" -> [id \in DOMAIN db \ Matches(row) |-> db[id]]
      [] Kind(row) = "insert" -> [id \in DOMAIN db \cup {hist.issued + 1} |->
                                      IF id \in DOMAIN db THEN db[id] ELSE vals]
      [] Kind(row) = "update" -> [id \in DOMAIN db |->
                                      IF id \notin Matches(row) THEN db[id]
                                      ELSE [k \in Column |-> IF k \in UpdateParameters(row)
                                                             THEN row.curr[k] ELSE db[id][k]]]

\* executeUpdate() answers 1.
Counted(row) == Cardinality(Matches(row)) = 1

----------------------------------------------------------------------------
(* CachedRowSetWriter.writeData: pending rows in order; a row in conflict  *)
(* is noted and the loop goes on.  The cursor it moves is saved before and *)
(* restored after, so crs stays as it is meanwhile.                        *)

\* (mutant: the loop comes back to the row in conflict)
ArriveAgain(c, w) ==
    LET rest == {i \in Pending(c) : i >= w.row}
    IN  IF rest = {}
        THEN [w EXCEPT !.pc = IF w.failed = {} THEN "accept" ELSE "resolve", !.row = 0]
        ELSE [w EXCEPT !.pc = IF Kind(c.rvh[Min(rest)]) = "insert" THEN "write" ELSE "check",
                       !.row = Min(rest)]

Arrive(c, w) ==
    LET rest == {i \in Pending(c) : i > w.row}
    IN  IF rest = {}
        THEN [w EXCEPT !.pc = IF w.failed = {} THEN "accept" ELSE "resolve", !.row = 0]
        ELSE [w EXCEPT !.pc = IF Kind(c.rvh[Min(rest)]) = "insert" THEN "write" ELSE "check",
                       !.row = Min(rest)]

Here == crs.rvh[wr.row]
Refuse == wr' = Arrive(crs, [wr EXCEPT !.failed = @ \cup {wr.row}])
Proceed == wr' = Arrive(crs, wr)

\* The SELECT finds the row as the client knows it.
CheckRow ==
    /\ wr.pc = "check"
    /\ Checked(Here)
    /\ wr' = [wr EXCEPT !.pc = "write"]
    /\ hist' = [hist EXCEPT !.window = {}]
    /\ UNCHANGED <<crs, table, db>>

\* It does not, or it fails.
RefuseRow ==
    /\ wr.pc = "check"
    /\ Refuse
    /\ UNCHANGED <<crs, table, db, hist>>

\* A row whose own record another session wrote can pass for a record that
\* has come to hold the same values.
Mistaken == IF hist.link[wr.row] \in hist.touched THEN Matches(Here) ELSE {}

\* UPDATE or DELETE runs.  When it did not change one record that is a
\* conflict too, but what it changed stays.
WriteRow ==
    /\ wr.pc = "write" /\ Kind(Here) # "insert"
    /\ db' = Written(Here, NoValues)
    /\ Allowed(db')
    /\ IF Counted(Here) THEN Proceed ELSE Refuse
    /\ hist' = [hist EXCEPT !.touched = @ \cup Mistaken]
    /\ UNCHANGED <<crs, table>>

\* INSERT runs; generated keys are then asked for.
InsertRecord ==
    /\ wr.pc = "write" /\ Kind(Here) = "insert"
    /\ hist.issued < MaxId
    /\ \E vals \in Stored(Here) : db' = Written(Here, vals)
    /\ Allowed(db')
    /\ IF table.auto = {} THEN Proceed ELSE wr' = [wr EXCEPT !.pc = "keys"]
    /\ hist' = [hist EXCEPT !.link[wr.row] = hist.issued + 1, !.issued = @ + 1]
    /\ UNCHANGED <<crs, table>>

\* updateGeneratedKeys: the new record is read into the row, if still there.
FetchKeys ==
    LET id == hist.link[wr.row]
    IN  /\ wr.pc = "keys"
        /\ crs' = IF id \in DOMAIN db THEN UpdateKeys(crs, wr.row, db[id]) ELSE crs
        /\ Proceed
        /\ UNCHANGED <<table, db, hist>>

\* The database refuses it, or it fails; or the generated keys cannot be read.
FailStatement ==
    /\ wr.pc \in {"write", "keys"}
    /\ Refuse
    /\ UNCHANGED <<crs, table, db, hist>>

\* (mutant: no last() after the accept)
ReturnInPlace(c) == wr' = Idle /\ crs' = c

\* The end of the call; acceptInsert then goes to the last row.
Return(c) == wr' = Idle /\ crs' = IF wr.last THEN Last(c) ELSE c

\* acceptChanges: nothing failed, the edits become the original values.
FinishAccept ==
    /\ wr.pc = "accept"
    /\ Return(SetOriginal(crs))
    /\ UNCHANGED <<table, db, hist>>

----------------------------------------------------------------------------
(* RowSetBase.internalAcceptChanges: the resolver walks the rows in        *)
(* conflict, deleted rows shown, and undoes each; close() puts the cursor  *)
(* back.                                                                   *)

\* nextConflict() answers true.
ResolveRow ==
    /\ wr.pc = "resolve"
    /\ wr.failed # {}
    /\ Min(wr.failed) <= NumRows(crs)
    /\ crs' = UndoConflict(crs, Min(wr.failed))
    /\ wr' = [wr EXCEPT !.failed = @ \ {Min(@)}]
    /\ hist' = [hist EXCEPT !.link = SubSeq(@, 1, NumRows(crs)')]
    /\ UNCHANGED <<table, db>>

\* It answers false: no conflict, or no row, is left.
EndResolve ==
    /\ wr.pc = "resolve"
    /\ \A i \in wr.failed : i > NumRows(crs)
    /\ Return(CloseResolver(crs))
    /\ UNCHANGED <<table, db, hist>>

Writer ==
    \/ CheckRow \/ RefuseRow \/ WriteRow \/ InsertRecord \/ FetchKeys \/ FailStatement
    \/ FinishAccept \/ ResolveRow \/ EndResolve

----------------------------------------------------------------------------
(* The client of RowSetBase.  It writes while the writer is idle, to a row *)
(* it sees that is not deleted.                                            *)

Start(c, last) == crs' = c /\ wr' = Arrive(c, [Idle EXCEPT !.last = last, !.was = crs])

\* absolute alone: the client reads.
Browse(n) ==
    /\ wr = Idle
    /\ crs' = Absolute(crs, n)
    /\ UNCHANGED <<table, db, wr, hist>>

\* absolute, updateXXX, updateRow: accepted at once.
UpdateAt(n, col, val) ==
    LET at == Absolute(crs, n)
    IN  /\ wr = Idle
        /\ Moved(crs, n)
        /\ "deleted" \notin at.rvh[at.cursorPos].flags
        /\ Cardinality(Pending(crs) \cup {at.cursorPos}) <= MaxPending
        /\ Start(UpdateRow(UpdateColumn(at, col, val)), FALSE)
        /\ UNCHANGED <<table, db, hist>>

\* absolute, deleteRow: accepted at once.  A row whose insert still waits
\* is not deleted.
DeleteAt(n) ==
    LET at == Absolute(crs, n)
    IN  /\ wr = Idle
        /\ Moved(crs, n)
        /\ at.rvh[at.cursorPos].flags \cap {"deleted", "created", "removed"} = {}
        /\ Cardinality(Pending(crs) \cup {at.cursorPos}) <= MaxPending
        /\ Start(DeleteRow(at), FALSE)
        /\ UNCHANGED <<table, db, hist>>

\* moveToInsertRow, updateXXX for every column the client fills in, insertRow, back to the row:
\* the insert waits.
AddRow(vals) ==
    LET buffer == [vals |-> vals, given |-> Column \ table.auto]
    IN  /\ wr = Idle
        /\ Cardinality(Pending(crs)) < MaxPending
        /\ hist.issued < MaxId
        /\ crs' = MoveToCurrentRow(InsertRow([MoveToInsertRow(crs) EXCEPT !.insertRow = buffer]))
        /\ hist' = [hist EXCEPT !.link = Append(@, 0)]
        /\ UNCHANGED <<table, db, wr>>

\* moveToCurrentRow after insertRow: acceptInsert, which ends with last().
AcceptInserts ==
    /\ wr = Idle
    /\ Pending(crs) # {}
    /\ Start(crs, TRUE)
    /\ UNCHANGED <<table, db, hist>>

Client ==
    \/ \E n \in 1..NumRows(crs) :
          DeleteAt(n) \/ \E col \in Column, val \in Writable : UpdateAt(n, col, val)
    \/ \E n \in 0..(NumRows(crs) + 1) : Browse(n)
    \/ \E vals \in NewValues : AddRow([k \in Column |-> IF k \in table.auto THEN NULL
                                                       ELSE vals[k]])
    \/ AcceptInserts

----------------------------------------------------------------------------
(* Other sessions. *)

Twins(vals) == {id \in DOMAIN db : db[id] = vals}

Touch(ids) ==
    hist' = [hist EXCEPT !.others = @ + 1, !.touched = @ \cup ids, !.window = @ \cup ids]

OtherUpdate(id, vals) ==
    /\ hist.others < MaxOthers
    /\ vals # db[id]
    /\ Allowed([db EXCEPT ![id] = vals])
    /\ db' = [db EXCEPT ![id] = vals]
    /\ Touch({id} \cup Twins(vals))
    /\ UNCHANGED <<crs, table, wr>>

OtherDelete(id) ==
    /\ hist.others < MaxOthers
    /\ db' = [i \in DOMAIN db \ {id} |-> db[i]]
    /\ Touch({id})
    /\ UNCHANGED <<crs, table, wr>>

\* Leaves the ids that the inserts of the client will need.
OtherInsert(vals) ==
    LET d == [i \in DOMAIN db \cup {hist.issued + 1} |->
                  IF i \in DOMAIN db THEN db[i] ELSE vals]
        ids == Twins(vals) \cup {hist.issued + 1}
    IN  /\ hist.others < MaxOthers
        /\ hist.issued + Cardinality(Pending(crs)) < MaxId
        /\ Allowed(d)
        /\ db' = d
        /\ hist' = [hist EXCEPT !.others = @ + 1, !.issued = @ + 1,
                                !.touched = @ \cup ids, !.window = @ \cup ids]
        /\ UNCHANGED <<crs, table, wr>>

Others ==
    \/ \E id \in DOMAIN db : OtherDelete(id) \/ \E vals \in NewValues : OtherUpdate(id, vals)
    \/ \E vals \in NewValues : OtherInsert(vals)

Next == Writer \/ Client \/ Others

\* acceptChanges is a call: once begun it runs to its end.
Spec == Init /\ [][Next]_vars /\ WF_wr(wr # Idle /\ Writer)

----------------------------------------------------------------------------
(* Shapes, and the history keeps pace with the row set.                    *)
TypeOK ==
    /\ crs \in Cache
    /\ table \in Tables
    /\ DOMAIN db \subseteq 1..hist.issued /\ \A id \in DOMAIN db : db[id] \in Values
    /\ Allowed(db)
    /\ wr.pc \in {"idle", "check", "write", "keys", "accept", "resolve"}
    /\ wr.pc \in {"check", "write", "keys"} <=> wr.row # 0
    /\ wr.row # 0 => wr.row \in Pending(crs)
    /\ \A i \in wr.failed : i \in Pending(crs) \/ i > NumRows(crs)
    /\ Len(hist.link) = NumRows(crs)
    /\ wr = Idle => \A i \in 1..NumRows(crs) :
                       hist.link[i] = 0 => "created" \in crs.rvh[i].flags

(* A conflict takes rows away under the cursor, and yet between two calls  *)
(* the cursor is where next and previous accept it.  Not so when no row is *)
(* left: last() does not move the cursor of an empty row set.              *)
CursorUsable == wr = Idle => CanStep(crs) \/ IsEmpty(crs)

Settled(i) == i \notin Pending(crs) /\ hist.link[i] \notin hist.touched

(* Between two calls, a row with no edit waiting shows its record as it is *)
(* in the table, or is deleted there as here, unless another session had a *)
(* hand in it.  Whatever was accepted, refused, undone or half done       *)
(* before, the row set has not drifted from the table by itself.           *)
CacheMirrorsDb ==
    wr = Idle => \A i \in 1..NumRows(crs) :
        Settled(i) => LET id == hist.link[i] IN
            IF "deleted" \in crs.rvh[i].flags
            THEN id \notin DOMAIN db
            ELSE id \in DOMAIN db /\ db[id] = Shows(crs.rvh[i])

(* A record the writer changes or deletes is one the client has seen as it *)
(* is.  It is not when it has a primary key and another session wrote it   *)
(* after the SELECT that checked it, or, for a delete, when all that the   *)
(* other session changed was to NULL or from NULL.                         *)
NoLostUpdate ==
    [][WriteRow => \A id \in DOMAIN db :
          \/ id \in DOMAIN db' /\ db'[id] = db[id]
          \/ db[id] = Here.orig
          \/ table.pk /\ id \in hist.window
          \/ table.pk /\ Kind(Here) = "delete" /\ ~IsModified(Here, db[id])]_vars

(* A row that still waits to be inserted has not reached the table: no     *)
(* call sends a row again that an earlier one has stored.                  *)
InsertedOnce ==
    wr = Idle => \A i \in 1..NumRows(crs) :
        "created" \in crs.rvh[i].flags => hist.link[i] = 0

(* Updates and deletes are written or undone by the call that makes them:  *)
(* between two calls only an insert can wait.                              *)
OnlyInsertsWait ==
    wr = Idle => \A i \in Pending(crs) : Kind(crs.rvh[i]) = "insert"

(* Between two calls the client of the row set sees none of this: each     *)
(* call looks like one step of AtomicRowSet.                               *)
Visible == IF wr = Idle THEN crs ELSE wr.was
Atomic == INSTANCE AtomicRowSet WITH crs <- Visible

CallsLookAtomic == [][Visible' # Visible => Atomic!Next]_vars

(* acceptChanges comes to its end, whatever statements fail and however    *)
(* many rows are in conflict.                                              *)
AcceptTerminates == wr.pc # "idle" ~> wr.pc = "idle"
=============================================================================
