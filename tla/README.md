# jdbcDriverOOo in TLA+

jdbcDriverOOo lets LibreOffice Base use any JDBC driver. Base speaks SDBC, a
set of UNO interfaces; the driver translates them to JDBC and adds what JDBC
drivers do not have: result sets that can be edited through an in-memory row
set, bookmarks, and containers of tables, views, columns, keys, indexes, users,
groups and roles. This directory models the parts whose state can go wrong,
checks them with TLC and proves with TLAPS what holds for every size.

Short names below: `R/` is
`source/RowSetFactory/source/io/github/prrvchr/java/rowset/`, `J/` is
`source/jdbcDriverOOo/source/io/github/prrvchr/uno/`.

## The system

| component | state | operations | talks to |
|---|---|---|---|
| In-memory row set (`R/CachedRowSetImpl`, `R/internal/Row`, `InsertRow`) | rows with original and current values and five marks; cursor, row number, bit set of deleted rows, insert row | populate, navigation, updateXXX, insertRow, updateRow, deleteRow, undo, setOriginal | the writer, through acceptChanges |
| Writer and resolver (`R/internal/CachedRowSetWriter`, `TableWriter`, `SyncResolverImpl`) | statements per table, conflicts per row | writeData: SELECT, compare, INSERT, UPDATE, DELETE, read generated keys; nextConflict, close | database, row set |
| Row sets of the driver (`J/sdbc/ResultSetBase`, `RowSetBase`, `RowSetMain`, `CachedRowSetMain`) | on-insert-row flag, row-inserted flag; own cursor, count and deleted rows in CachedRowSetMain | XResultSet, XResultSetUpdate, XRowLocate (bookmarks), XDeleteRows | Base above, row set below |
| Choice of row set and keys (`J/sdb/Statement`, `J/driver/resultset/ResultSetHelper`) | none after the choice | getResultSet, setCachedRowSetKeyDesc | metadata |
| Containers (`J/driver/container/BiMap*`, `J/sdbcx/Container*`) | names by order and by place, elements made when first asked for, listeners | getByName, getByIndex, add, remove, rename, refresh, enumerate | each other, database |
| Tables, views, keys, indexes, columns (`J/sdbcx`) | containers inside containers; a view is in two of them | append, drop, rename, alter | containers, SQL helpers |
| Users, groups, roles (`J/sdb`, `J/sdbcx/RoleContainer`) | two containers; membership lists, one on each side of a grant; privileges | append, drop, grant, revoke, refresh | containers, listeners of the lists |
| Connection and statements (`J/sdbc/ConnectionBase`, `Statement*`) | open, closed, disposed; weak map of statements | create, execute, close, dispose | provider, result sets |
| SQL helpers, configuration, provider, property sets, metadata | read-only once built | compose SQL, convert | all |
| Row set providers, XML form, Jdbc/Join/Filtered/Web row sets | | | not used by the driver |
| Options page of the drivers (`service/pythonpath/jdbcdriver/options/tab2`, Python) | a copy of the configuration, archives staged in a temporary folder, versions read by a thread | add, edit, remove a driver; save, load | configuration, file system, the page |
| Logging, UNO helpers, instrumentation agent, other Python dialogs, vendored Python | | | |

### How an edit travels

Base positions the row set (`absolute`, `next`, a bookmark), sets columns
(`updateXXX`) and calls `updateRow`, `deleteRow`, or `moveToInsertRow` ...
`insertRow`, `moveToCurrentRow`. `RowSetBase` passes the call to the
`CachedRowSetImpl`, which only marks the row, and then calls `acceptChanges`:
at once for an update or a delete, on leaving the insert row for an insert. The
writer walks all rows, deleted ones too, and for each marked row runs its
statements; a row it cannot write is noted as a conflict and the loop goes on.
Without conflict, `setOriginal` makes the edits the original values. With one,
`RowSetBase` walks the resolver and undoes each row in conflict.

### What is hard, and what makes it correct

- *Deleted rows stay in the list* (Base needs their place) and navigation skips
  them. Cursor moves must be those of a list without them; the bit set that
  navigation reads must agree with the marks the writer reads.
- *The list shrinks under the cursor* when a refused insert is undone. The
  cursor must stay where `next` and `previous` accept it.
- *Nothing is locked.* Other sessions write between the load and the edit, and
  between the SELECT that checks a record and the statement that changes it. A
  record must not be changed that the client has not seen.
- *Any statement can fail*, also the second of a batch and the one that reads
  the generated keys of a stored insert. The row set must not drift from the
  table, a stored insert must not be sent twice.
- *Two layers keep the same state*: the insert-row flag exists in `ResultSetBase`
  and in `CachedRowSetImpl`, cursor and count in `CachedRowSetMain` and below.
- *Containers keep a set of names, a list of names and a list of elements* in
  step, create elements lazily, and take their lock only after they have looked
  up what they are going to change. A view is in two containers that have to
  agree with each other and with the database.
- *A grant is seen from two sides*, in lists that are read once; when a user or
  a group goes, every list has to lose the name.
- *The options page edits a copy*, loads parts of it when they are shown, and
  stages files that are copied after the configuration is written.

`PROJECT.json` lists these hazards one by one, at their lines.

## Modules

| module | models |
|---|---|
| `CachedRowSetImpl` | `R/CachedRowSetImpl.java`, `Row`, `InsertRow` as operators from row set to row set, one for each method that changes state; `CanX` when the method does not throw |
| `CachedRowSet` | one row set and its client, one action per call; `MCCachedRowSet` instantiates it |
| `RowSetBaseProofs` | lemmas about those operators and those of `RowSetBase`, and about counting the rows left, for every module that uses them |
| `CachedRowSetProofs` | the theorems about `CachedRowSet`: cursor, marks, navigation |
| `RowSetBase` | what `J/sdbc/RowSetBase.java` makes of it: accept, undo the conflicts |
| `AtomicRowSet` | abstract: a call of the row set is one step, each waiting row accepted or undone |
| `RowSetSync` | detailed: row set, writer, table and other sessions, one step per SQL statement; implements `AtomicRowSet`; `MCRowSetSync` instantiates it |
| `RowSetSyncProofs` | the theorems about it |
| `ResultSetBase` | the edits both row sets of the driver share: the insert row, the waiting insert, update, delete (`J/sdbc/ResultSetBase.java`, `RowSetBase.java`) |
| `RowSetMain` | `J/sdbc/RowSetMain.java`: navigation, bookmarks, `deleteRows`; `MCRowSetMain` instantiates it |
| `RowSetMainProofs` | the theorems about it |
| `CachedRowSetMain` | `J/sdbc/CachedRowSetMain.java`: its own cursor, count and deleted rows over those below; `MCCachedRowSetMain` instantiates it |
| `CachedRowSetMainProofs` | the theorems about it |
| `BiMapBase` | `J/driver/container/BiMapBase.java`: the sorted map of a container, as operators from map to map |
| `TableContainer` | the containers of tables and views over it, with several threads and another session; `MCTableContainer` instantiates it |
| `TableContainerProofs` | the theorems about the map and the containers |
| `RoleContainer` | the containers of users and groups and the membership lists; `MCRoleContainer` instantiates it |
| `RoleContainerProofs` | the theorems about it |
| `TabModel` | the options page of the drivers, its files and its thread; `MCTabModel` instantiates it |
| `TabModelProofs` | the theorems about it |

**State.** The record `crs` has the fields of the Java class under their names.
The booleans of a row are the set `flags`, its bit set is the set `changed`. A
row is numbered from 1, as `cursorPos` numbers it. Strings and numbers are a few
model values; SQL NULL is `NULL`, as it is a Java null in the arrays and the
code treats it apart. Left out: typed conversions, paging, listeners, warnings,
logging. `notifyXXX` calls reach no listener of the driver that changes the row
set.

**A loop is what it computes.** `cursorPos(row)` adds one for each deleted row
met on its way: `CursorPos` is the place where it ends, the least one up to
which `row` rows are left. The `do ... while` of `internalNext` is the least row
ahead that is shown. The theorem `CursorPosIsNthLeft` says what the first is for.

**The writer.** `wr.pc` is where the writer is: `check` before the SELECT of an
update or a delete, `write` before the statement, `keys` before the generated
keys are read, `accept` after the last row when nothing failed, `resolve` while
`RowSetBase` undoes conflicts. The loop moves the cursor of the row set, but
saves it before and restores it after, and nobody else can look meanwhile: one
thread, one call. So the model leaves `crs` as it is and moves `wr.row`.

**The table.** `db` maps the identity of a record, which no SQL statement sees,
to its values. It has a primary key or none, generated or not (`table`).
`KeyColumns` is what the WHERE of the driver uses: the key, or every column.
Without key, twins (records with the same values) can exist. `OtherUpdate`,
`OtherDelete` and `OtherInsert` are other sessions, external to the code. The
columns of `Key` are NOT NULL.

**The UNO side.** `RowSetMain` and `CachedRowSetMain` extend `ResultSetBase`,
which extends `RowSetBase`: a call of the UNO side is a composition of operators
of `CachedRowSetImpl`, taken as one step. What the database does is one Boolean:
it accepts all a call writes, or nothing; single refusals are in `RowSetSync`.
Rows have one column, a number that tells them apart, so that a property can say
which row a bookmark finds (`held`: a bookmark and the row it was taken on).

**Containers.** `doing[th]` is what a call has still to do. The lock is the
connection, one for both containers. It covers the change of a map and the whole
of `refresh()`, and nothing else: places are looked up, names are tested and the
database is asked without it. So a call is its first action, up to and with the
database, and then one action for each test (`Insert`, `Replace`) and one for each
change (`Add`, `Relabel`, `Create`, `TakeOut`). Between the test and the change
another thread can take the name out; `RenameElement` then does the half that
`BiMapBase.java:147` does before it throws. `refresh()` is four steps under one
lock: `clear()` disposes of the elements, `clear()` empties the map, one map is
filled again and then the other (`Refresh`, `Empty`, two `RefillOne`); a query
that fails ends it (`RefillFails`). `Locked` is what keeps the changes of other
threads out meanwhile. Who reads takes no lock: in the middle of a refresh `Look`
finds the disposed elements, the empty map and the map half told. Apart from
`clear()`, a method of the map is one step. The name test of a rename
(`getTablesInternal().hasByName`) is taken at any time, although that getter waits
for a refresh to end: the container it returns is read after that.

`elem` numbers the Java objects, so two objects for one table can be told apart.
`around` holds the names changed behind the back of a container (by another
session, by a load or refresh that failed, or by a rename of a view that the
tables are not told of), `stale` the threads whose map another one changed
meanwhile, `raced` that such a thread went on, or that a call began that is about
a name of a call under way. The code does not defend itself against that: what is
stated of the containers is stated of threads that do not meet. In races too
`NoneDisposed` holds, the lists of a map have one length, and a place nobody moved
answers the right element; names and slots need not agree any more.

**Roles.** `top` is the map of each container, `elem` has the loaded lists of
every element not disposed of. `exists` and `granted` are the database. The
listener of a list runs inside the call that drops a role, so a drop is one
step, with what is left undone when the listener throws. An element asked for the
first time loads its list; the query for it can fail, also inside a drop
(`Unread`), and leaves an empty list (`Connection.java:273`). `outside` and `behind`
remember what no list can know: changes of other sessions and of the other side,
and what a failed query did not read.

**The options page.** `config` is the configuration of the office, `drivers` the
copy the page edits, whose entries are loaded when shown. `tmp` and `lib` are
the folder of staged archives and that of the extension. The thread of the
versions has a step for what it reads, one for the map it replaces, and one for
the call back in the main thread.

**History.** `hist` is not in the code: which record is behind which row
(`link`), which records another session touched and since when (`touched`,
`window`), and counters that bound the runs.

## Runs

| run | result | question |
|---|---|---|
| `cache` | pass | does every sequence of calls keep cursor, deleted rows, marks and row numbers in step? |
| `sync` | pass | one edit at a time: do row set and table agree afterwards, is no unseen record changed, does each call look atomic, with other sessions and failing statements? |
| `sync_many` | pass | several rows in one call: does the call end, look atomic and leave a usable cursor? |
| `rowset` | pass | do bookmarks find their rows, are waiting inserts and the insert row known on both sides? |
| `cachedrowset` | pass | do the two cursors, counts and sets of deleted rows agree? |
| `container` | pass | do the containers of tables and views list the database, under right names, with two threads? |
| `roles` | pass | do containers and membership lists show what was created, dropped, granted and revoked? |
| `options` | pass | is what is saved what is shown, and are its archives installed, and no others? |
| `cache_undo` | violated | does `undoInsert` remove the current row? |
| `sync_null` | violated | is a column emptied by the user NULL in the row set as well? |
| `sync_partial` | violated | is an operation rolled back when one of its rows is in conflict? |
| `roles_drop` | violated | do the groups lose a user that is dropped? |

### Properties

`cache`, of `CachedRowSet`:

- `TypeOK`, `CursorInRange`: the cursor is in the list, one off its ends, or at
  -1 on the insert row; and the place to come back to from there.
- `DeletedRowsMarked`: the bit set and the marks name the same rows.
- `InsertedRowsAreTail`: what `undoInsert` may drop is never a row of the query.
  It holds because `insertRow` appends (`CachedRowSetImpl.java:5385`), where its
  javadoc (line 5349) has the row inserted behind the current one: a finding of
  the run `cache`, in which the javadoc is what is wrong.
- `UpdatedRowsHaveEdits`: no UPDATE without a SET list.
- `NavigationSkipsDeleted`: from every reachable place, each navigation call
  lands where it would in a list from which the deleted rows are gone.
- `RowNumberResynced`: `deleteRow` does not correct the row number that `getRow`
  answers; the absolute moves do.

`sync`, of `RowSetSync`:

- `CacheMirrorsDb`: between calls, a row that no other session touched and that
  does not wait shows its record, or is deleted here and there.
- `NoLostUpdate`: a record changed or deleted by the writer is one the client
  has seen as it is. Two holes of the code are stated as exceptions: a record
  with primary key written by others after the SELECT, and a delete where the
  other session's change was to or from NULL.
- `InsertedOnce`: a row still marked to be inserted is not in the table yet.
- `OnlyInsertsWait`: after a call no update or delete is left half-way.
- `CursorUsable` (in `sync_many`): after a call the cursor is where `next`
  accepts it. With three inserts waiting it is not: when the client updates the
  last of them and all are refused, the resolver drops rows from the end while it
  walks by number, so it leaves one and the cursor comes back behind the list.
- `CallsLookAtomic`: the refinement. While the writer runs, what the client last
  saw is `wr.was`; with that mapping each change is a step of `AtomicRowSet`.
- `AcceptTerminates` (in `sync_many`): a call comes to its end.

`rowset`, of `RowSetMain`:

- `BookmarkFindsRow`: a bookmark finds the row it was taken on as long as the
  row set has it, whatever was deleted, inserted, refused or undone since.
- `RelativeCountsLeftRows`: `moveRelativeToBookmark` counts the rows left.
- `FlagsAgree`: an insert that waits is one the next `moveToCurrentRow` will
  accept, and where the UNO side is on the insert row, so is the row set below.
- `AcceptedInsertIsCurrent`: an accepted insert is the current row, a refused
  one is gone.
- `DeleteRowsHitsBookmark`: `deleteRows` deletes the row of the bookmark while
  none up to it is deleted. The condition is needed: it takes the bookmark, a
  place in the full list, for a row number.

`cachedrowset`, of `CachedRowSetMain`:

- `LayersAgree`: both layers have the same count and deleted rows; once the
  client went to a place by number or bookmark, both cursors are on one row.
- `BookmarkFindsRow`, `NavigationSkipsDeleted`: as above, although the row set
  below shows its deleted rows here.

`container`, of `TableContainer`:

- `NoneDisposed`: no container has a disposed element to hand out, in races too,
  but between the two steps of `clear()` in its own refresh, when it has
  (`BiMapBase.java:169`, "Seen while reading").
- `NamesOnce`: no name twice; an enumeration asks for each place once.
- `ListsTheDatabase`: what a container lists is what the database has.
- `UnderOwnName`: a loaded element is under the name it has itself.
- `GetsWhatItAsked`: `getByName` answers the element of that name, unless another
  thread moved the places meanwhile.

`roles`, of `RoleContainer`:

- `ShowsTheDatabase`: the containers list the roles, a membership list shows the
  grants, apart from what was changed around them.
- `DroppedGroupLeavesUsers`: no loaded user is shown in a dropped group.

`options`, of `TabModel`:

- `SavedPathsExist`: a class path in the configuration has its archives.
- `OnlyStagedInstalled`: only what this page staged is installed.
- `PageIsConfigured`: after a save or load the page shows the configuration.
- `VersionShown`: the version shown is that of the driver selected.
- `TypeOK` also says that a page without url has nothing staged.

### Violations

- `cache_undo`: `undoInsert` (`CachedRowSetImpl.java:1216`) removes the last row
  of the list; its javadoc says the current one. The driver meets this when two
  inserts are in conflict: the resolver drops the last row first, then finds no
  row at the place of the second conflict.
- `sync_null`: `moveCurrentToOrig` (`Row.java:455`) skips a column edited to
  null, against its javadoc. The client of the run writes nothing but NULL: it
  empties a column of the row the query gave, the `UPDATE` stores NULL, the call
  succeeds and the row set shows the old value again. `Row.clearChanged`
  (`Row.java:433`) has the same test: a NULL written over a value of a row that
  still waits to be inserted is lost when the row becomes original
  (`CachedRowSetImpl.java:6261`).
- `sync_partial`: after a conflict `setOriginal` does not run for the rows that
  were written, and autocommit rolls nothing back (`CHANGELOG.md:345` promises
  it). The stored insert waits on and is sent again. For the same reason a
  stored delete waits on: with two rows waiting `OnlyInsertsWait` and
  `CacheMirrorsDb` fail too. That is why `sync` has one row waiting at a time.

- `roles_drop`: the users tell the lists of the groups that a name is gone, and
  a list asks the users for the element before it drops the name
  (`BiMapSuper.java:128`): `getByName` throws. The list keeps the name, although
  the comment at `UserContainer.java:151` wants it gone; `dropByName` ends with an
  exception after the database has dropped the user, and the element is never
  disposed of. Dropping a group that belongs to another group does the same.

### Bounds

`cache`: up to `MaxInit` rows from the query, `MaxRows` rows in all, `MaxEdited`
rows with edits, one column that can only hold NULL. Two rows next to each other
can be deleted with a third behind them, which is what the loops that skip need,
and an insert can be behind them. Navigation does not look at values.

`sync`: `MaxInit` 1 record when the query runs, `MaxId` 2 records ever,
`MaxPending` 1 row waiting, `MaxOthers` 1 write by another session; two columns,
one of them the key, two values. Two records suffice for twins and for a key
taken by another record; one foreign write suffices for every window between two
statements of the writer.

`sync_many`: `MaxPending` 2, `MaxId` 2, no foreign writes, the key column alone;
any statement can still fail, so any subset of the rows can be in conflict. The
bounds are in the guards of `AddRow`, `UpdateAt`, `DeleteAt`, `InsertRecord` and
the actions of other sessions.

`rowset`, `cachedrowset`: `MaxInit` 2 rows from the query, `MaxRows` 3,
`MaxInserts` 1, `MaxWaiting` 1 inserted row not accepted yet, `MaxEdited` 1 row
with an edited column. Rows in front of, at and behind a deleted one, and an
insert at the end, are what bookmarks and the second cursor can confuse.

`container`: two names, two threads, `MaxElements` 2 objects created, `MaxTrouble`
1 change by another session, load or refresh that fails; symmetric threads. No
call starts after a race (`~raced` in `Call`), those under way end: two threads
and two names are enough for each of the races above, a third call after one adds
nothing the properties speak of. The objects run
out, so the run may stop: `CHECK_DEADLOCK FALSE`. Two names are what a place can
be taken for the wrong one with; `RenamesViews` is TRUE.

`roles`: one user, two symmetric groups, so that a grant of each kind exists;
`MaxElements` 2 objects at a time, whose numbers are used again; `MaxTrouble` 1
change by another session or query that fails.

`options`: one installed driver, at most one new one at a time, two archives,
archives picked `MaxPicks` 3 times: for both drivers, and again after a save.

`MCView` hides what nothing reads before it is written again: the buffer of the
insert row, the values of columns not marked as edited, the window of a finished
check, and the cursor before a call that begins by moving it. In `rowset` and
`cachedrowset` it also hides the place to come back to when off the insert row,
and, where it is dead, the row number of the row set below.

### A careful client

`CachedRowSetImpl` trusts its caller in some places. With `Careful = TRUE` the
client keeps to what `RowSetBase` does: it leaves the insert row before entering
it again, calls `relative` off the insert row, deletes a row once and only after
its insert was accepted, and undoes the pending insert that is last. `TypeOK`,
`InsertedRowsAreTail` and `UpdatedRowsHaveEdits` are proved for any client; the
others need the careful one. `cache_undo` has a client that is not.

The client of `CachedRowSetMain` is careful in another way: after a delete, an
insert, `first`, `last` or `moveRelativeToBookmark` it goes to its row by number
or bookmark before it steps, deletes or takes a bookmark, and it leaves the
insert row before it moves; and the database accepts its edits. Each of these is
needed; what happens otherwise is under "Seen while reading".
The client of `RoleContainer` creates no role whose name is still listed.

### Fairness

`RowSetSync` assumes `WF_wr(wr # Idle /\ Writer)`: `acceptChanges` is a call on
the thread of the client, and once begun it goes on to the next statement or to
its return. Nothing is assumed of the client, of other sessions or of the
success of statements.

## Proofs

Eight modules of theorems, checked by TLAPS for every value of the constants. The assumptions on constants are the
named ASSUMEs of the modules: NULL and `NoElement` are no values, `Required`,
`Key` and `AutoColumns` are columns, bounds are naturals, the rows the driver's row
sets begin with are within `MaxRows`, the archives one can pick and the names of
tables are finitely many, no user is a group. What a theorem
assumes beyond that is in its statement and in the table.

| module | theorem | says | assuming |
|---|---|---|---|
| `RowSetBaseProofs` | `CursorPosIsNthLeft` | `cursorPos(row)` ends on the row-th row that is left, and exists when there are that many | |
| `CachedRowSetProofs` | `ShapeInvariant`, `TypeCorrect` | the row set keeps its type, the cursor its range | |
| | `UpdatedRowsHaveEditsInvariant`, `InsertedRowsAreTailInvariant` | as the properties | |
| | `CursorStaysInRange`, `DeletedRowsMarkedInvariant` | as `CursorInRange` and `DeletedRowsMarked` | `Careful` |
| | `NavigationSkipsDeletedInvariant`, `RowNumberResyncedInvariant` | as the properties | `Careful` |
| `RowSetSyncProofs` | `ShapedInvariant`, `TypeCorrect` | row set, table, writer and history keep their types and fit each other | |
| | `NoLostUpdateHolds` | as the action property | |
| | `InsertedOnceInvariant`, `OnlyInsertsWaitInvariant` | as the properties | `MaxPending = 1` |
| | `CacheMirrorsDbInvariant` | as the property | `MaxPending = 1`, no edit to NULL (`NULL \notin Writable`) |
| | `CursorUsableInvariant` | as the property | `MaxPending <= 2` |
| | `CallsLookAtomicHolds` | as the action property: each change the client sees is a step of `AtomicRowSet` | |
| | `ImplementsAtomic` | the refinement: `Spec => Atomic!Spec` | |
| `RowSetMainProofs` | `Invariant`, `TypeCorrect` | the inductive invariant; row set, history and what a bookmark is held for keep their types | `MaxWaiting = 1` |
| | `FlagsAgreeInvariant`, `BookmarkFindsRowInvariant`, `RelativeCountsLeftRowsInvariant` | as the properties | `MaxWaiting = 1` |
| | `AcceptedInsertIsCurrentHolds`, `DeleteRowsHitsBookmarkHolds` | as the action properties | `MaxWaiting = 1` |
| `CachedRowSetMainProofs` | `LayersInvariant`, `LayersAgreeInvariant` | the inductive invariant of the two layers; as the property | |
| | `NavigationSkipsDeletedHolds` | as the action property | |
| | `NumbersInvariant`, `TypeCorrect` | rows keep ids of their own, the bookmark is the place of its row; the state keeps its types | `MaxWaiting = 1` |
| | `BookmarkFindsRowInvariant` | as the property | `MaxWaiting = 1` |
| `TableContainerProofs` | `SortedFacts` | the sorted list of a set of names has each name once, at the place `GetIndex` answers | |
| | `OnePlaceInvariant` | no element is at two places, nor in a map and disposed of, but for those `clear()` is about to take out; in races too | |
| | `TypeCorrect` | in races too the lists of a map have one length, and hold elements created; without a race each name has a slot | |
| | `NoneDisposedInvariant` | as the property: in races, and but for `clear()` | |
| | `GetsWhatItAskedHolds` | as the action property: a place nobody moved, also after others raced | |
| | `WatchedInvariant` | containers and the changes on their way to them say what the database has, without a race | `RenamesViews = TRUE` |
| | `NamesOnceInvariant`, `ListsTheDatabaseInvariant`, `UnderOwnNameInvariant` | as the properties | `RenamesViews = TRUE` |
| `RoleContainerProofs` | `TypedInvariant`, `TypeCorrect` | containers, elements and lists keep their types | |
| | `ShowsTheDatabaseInvariant`, `DroppedGroupLeavesUsersInvariant` | as the properties | |
| `TabModelProofs` | `TypedInvariant`, `TypeCorrect` | the page keeps its types | |
| | `VersionShownInvariant`, `PageIsConfiguredInvariant`, `SavedPathsExistInvariant` | as the properties | |
| | `OnlyStagedIsInstalled` | as the action property | |

### Along which arguments

`CachedRowSetProofs`. `TypeOK` is not inductive: a cursor at -1 is brought back
to `currentRow`, which `TypeOK` does not speak of, and `CursorPos` has a least
element to take only while the bits of `deletedRows` are finitely many.
`Shape` adds both: the bits are among `1..MaxRows`, and on the insert row the
place to come back to is near the list. Navigation lemmas show that each call
only moves the cursor (`Moves`); edits either keep the marks of every row, add a
row, drop the last one, or set the delete mark of the current one (`EditCases`).
On those cases rest the three theorems about marks. `DeletedRowsMarked` needs
that no row is both pending as an insert and deleted, which the careful client
grants.

Navigation, there too. The properties are about one state, so the work is in the
operators. `RankAt` counts the rows left up to a place. It grows by one at a row
that is left and stays at one that is deleted (`CountFacts` in `RowSetBaseProofs`), so
`Next` and `Previous` go one up and down in it and `absolute` and `relative` to a
given count. The invariant needed is `Tombs`: the bits of `deletedRows` are rows
of the list. It needs `DeletedRowsMarked`, hence the careful client.

`RowSetSyncProofs`. First what the calls make of the rows: change one
(`Changes`), drop the last (`Shortens`), add one (`Extends`), nothing else. Then
what the loop of the writer may come to (`Arrived`), without its minimum.
`Shaped` is the inductive form of `TypeOK`: it adds that the statement the writer
is at fits the row, that a row without record is one marked as created
(`Linked`), and that a created row the writer has passed has got its record or is
in conflict. Without the last part `FinishAccept` could make a row original that
has no record. `NoLostUpdate` needs `Guarded`: from the SELECT to the statement,
each record the WHERE clause finds is the one the row shows, or was written in
between, or is one the comparison of a delete takes for equal. `InsertedOnce` and
`OnlyInsertsWait` hold with one edit at a time and rest on `Single`: one row
waits at most, it is the one in conflict while the resolver walks, and an
inserted row is the last of the list, so that undoing it drops that one. With two
rows waiting both are false: see `sync_partial`.
`CacheMirrorsDb` needs `Mirroring`, over that. `Mirror` says what the table holds
of a row no other session touched at each place of the writer: what the row was
read with until its statement ran, what it shows from then on. `OwnRecord`, no
two rows have one record, keeps the statement of one row off the records of the
others; `OneRecord`, without primary key the SELECT found a single record and
twins made since count as touched, makes the record of the row the only one its
WHERE clause finds. `Neat` says that rows that wait are not deleted and edits are
not NULL. The two assumptions are those without which the property is false:
`sync_partial` shows it with two rows waiting, `sync_null` with edits to NULL.

`CursorUsable` holds while two rows wait at most, and is false with three: the
client updates a row that itself waits, the last one, two other inserts are
refused with it, and the cursor comes back to place 3 of a list of one row.
`Reached` says how far the cursor may lie behind the list: one place more than
usual, and then either every conflict the resolver has left is gone (`Spent`:
of two rows waiting it can take away one), or the list has nothing to see and
no created row to lose, or the call has ended and there is nothing to see.

The refinement has no assumption: with any number of rows waiting, whatever is
refused. While a call runs its client sees `wr.was`, so only the last step of a
call is to be a step of `AtomicRowSet`, and the invariant has to remember what
the call did: `Calling` says that the row set is the one the call began with
(`Begun`), with some rows showing what was stored (`Filled`), and that the
resolver, once it walks, is at the k-th place of the walk of `UndoConflicts`
(`Walked`, `Undoing`). At the end of the walk the conflicts left lie behind the
last row, where `UndoConflicts` does nothing either (`UndoingStays`). A client
that reads past the last row needs `size()` to be a count, hence `Tombs`: the bits
of `deletedRows` are rows of the list and none of a created one, and the created
rows are the last ones, so that the row an undone insert takes away is never one
with a bit.

`RowSetMainProofs`. `IInv` says of the row set that it is typed, with its counts
(`WellCounted`), that each row has a value of its own in the column `Id`, no
greater than the last one given out, that at most the last row waits and no other
has a mark left over (`Settled`), that a buffer of the insert row holds values one
may insert (`Ready`), and that outside a call the deleted rows are hidden; of the
bookmark that is held, that a row with its value of `Id` is at its place
(`HeldBy`). That one is inductive because rows come and go at the end of the list
only: an edit adds the last row or changes one, the walk of the resolver drops the
last one (`Shrinks`). What the flags agree on follows from `Settled`, what
`relative` counts from the lemmas about `RankAt`. `MaxWaiting = 1` is the client
that leaves the insert row before it inserts again. A second `insertRow` with the
same buffer gives two rows one value of `Id`, and of two inserts that are refused
one row is taken away and the other waits without the flag that says so.

`CachedRowSetMainProofs`. The class hides rows that the row set below shows, so
what it counts is proved of that row set with the deleted rows hidden (`Hidden`),
for which `RowSetBaseProofs` has the counting lemmas: the row number is the rank
among the rows left (`NumberIsRank`), and `Cursor` of the number of a place is
that place again (`PlaceFound`). `Layers` is the inductive form of `LayersAgree`:
rows and deleted rows are counted alike (`Counted`), and while `placed` the
cursor below is on a row left or off an end, with the row number of that place
(`Placed`). The loops of `next` and `previous` need it: counting down from a
number that belongs to another row they would pass the wrong rows. Nothing is
assumed of the inserts that wait. The bookmark needs more, `Numbers`: the values
of `Id` are of one row each, and the bookmark of a row that is left is its
place. Every step but `insertRow` is `Calm`, it appends no row and leaves each row
its `Id`; `getBookmark` takes a new bookmark, `insertRow` appends a row with the
next `Id` as long as no other insert waits (`Ready`), hence `MaxWaiting = 1`.

`TableContainerProofs`. Three invariants, for any number of threads.

`OnePlace`: an element is at no more than one place, and there once: in one of the
maps, in the hands of the one call that will add it, or disposed. It holds in races
too, since a step can only move an element from one of these places to another;
what a `clear()` under way has disposed of counts as in its map until that map is
empty (`Gone`), and the lock lets no other thread put it anywhere meanwhile.
`NoneDisposed` follows. Of a map only `AnyMap` holds there: its lists are of one
length.

`Whole`: without a race each name of a map has a slot and a place (`AllWhole`), and
what a rename has tested is still there when it changes the map (`Tested`), so that
`renameElement` does not throw half-way. With a race that is false, and `TypeOK`
does not say it. That a map stays a map (its two lists have the places of its
names) rests on `SortedFacts`.

What the containers list needs a third invariant, `Watched`: a call is a statement
and up to two changes of the maps, and between them the containers differ from the
database. `Coherent` therefore speaks of a container together with the changes that
all threads have still to make to it (`On`): a name is listed when the database has
it, unless it is still to come, and while it is about to leave (`Listed`); a place a
call has looked up is still that of its name (`AtPlaces`); an element is under its
own name, or under the one a rename on its way will replace (`Named`, `Relabels`);
no two calls are about one name (`Apart`). A refresh is about all names, so without
a race it runs alone, and then `Renewal` holds instead: each container is right, or
empty with its refill to come. Each kind of change has a lemma about one map
(`FineSet`, `FineTaken`, ...) and each action one that it keeps `Coherent`, as long
as no thread goes on with what another has changed, the `stale` and `raced` of the
history. The three properties need a database that can rename a view; where the
driver drops the view and creates it again the element keeps its old name, and
they are false.

`GetsWhatItAsked` is about a thread whose place nobody moved, also after others
have raced, so it has an invariant of its own: `PlacesHold`, a place looked up is
that of its name, and has a slot, until another thread changes the names of that
map. `Reaches` in the guard of `Create` is the rest: what has no slot throws.

`RoleContainerProofs`. `Typed` says that an element in a map is one not disposed
of, under its own name, and that every list has names of its kind. On it
`ShowsTheDatabase` is inductive. `DroppedGroupLeavesUsers` needs both: what a
list of a user shows is in the container of the groups, so the drop finds it.

`TabModelProofs`. `Typed`, and beside it one invariant for each property: which
versions are known at each point of the thread (`VersionsKnown`), that the files
in the folder of this page are ones it staged (`OwnFolder`), what page and
configuration agree on while the page is edited (`PageFollows`), and that class
paths of the page, of its dialog and of the configuration have their files,
staged, installed or wiped (`PathsFound`).

### What is only model-checked

- `AcceptTerminates`: liveness is out of the prover's reach, as are `ENABLED`,
  induction over data and RECURSIVE operators. No module declares one;
  `UndoConflicts` is a recursive function, and what is said of it is said of
  the places of its walk one by one.

## Seen while reading

- `moveToInsertRow` twice saves -1 as the place to come back to
  (`CachedRowSetImpl.java:5527`): with `Careful = FALSE` `CursorInRange` fails.
- `relative` throws when every row is deleted (`CachedRowSetImpl.java:3781`), so
  `moveRelativeToBookmark` does then.
- `deleteRows` takes a bookmark, a place in the full list, for a row number
  (`RowSetBase.java:139`): once a row in front of it is deleted it hits another one.
- `RowSetBase.acceptChanges` (`RowSetBase.java:243`) builds the exception that
  `UnoHelper.getSQLException` returns and drops it, so Base is not told of a
  refused edit; `CHANGELOG.md:455` says errors before an insertion, modification
  or deletion are reported.
- The comment in `cancelRowUpdates` (`CachedRowSetImpl.java:5489`) allows an empty
  row set, but `checkCursor` has thrown before.
- `RowSetMain.getBookmark` (line 64) means to validate a pending insert, but the
  flag it reads is never set.

`CachedRowSetMain`:

- `acceptInsert` (line 281), which corrects the row number after an insert, is
  never called: after the insert row the driver is one row off, or at 0.
- `first()` and `last()` can land on a deleted row; `next` right after a delete
  is off by one; a refused insert stays counted and a refused delete marked.
- `deleteRow` calls `acceptChanges` twice; `moveRelativeToBookmark` counts the
  deleted rows, unlike that of `RowSetMain`; `moveToBookmark` of a bookmark that
  is no number throws, in `RowSetMain` after the deleted rows were made visible.
- `updateRow` of both row sets does not ask whether it is on the insert row.

Containers:

- A view renamed by `DROP VIEW` and `CREATE VIEW` keeps its old name in the element
  of the views (`TableSuper.java:462`): with `RenamesViews = FALSE` the property
  `UnderOwnName` fails, with three names `ListsTheDatabase` too. When the `CREATE VIEW` fails the view is lost and listed.
- `refresh` of one container clears its own map only and adds to the other.
- `getElementByIndex` (`ContainerBase.java:317`) does not look again once it has
  the lock: two threads create one element twice, and one of them keeps an
  object that the container does not have.
- `getActiveElements` steps on before it makes an element; when that fails the
  entry goes and the next one is skipped. An enumeration that goes on while
  entries are removed ends early.
- `clear()` disposes of the elements and empties the map then (`BiMapBase.java:169`),
  and `getElementByIndex` (`ContainerBase.java:316`) reads without the lock: who
  asks in the middle of a refresh gets a disposed element. `NoneDisposed` without
  `~Disposing(c)` fails after one load and one `refresh`.
- `replaceElement` looks for the old name before it takes the lock
  (`ContainerMain.java:200`, `202`), and `renameElement` (`BiMapBase.java:147`)
  changes the set of names before it looks for the slot. When another thread takes
  the name out in between it throws half-way: the set has the new name, the lists
  have not. `insertElement` (line 238) tests outside the lock as well; a name can
  come twice.

Users and groups:

- A membership list is read once (`Role.java:202`): what is granted or revoked from
  the other side afterwards, or by another session, it does not show, and after a
  failed query it is empty (`Connection.java:273`). Those entries are in `behind` and
  `outside`, and `ShowsTheDatabase` leaves them out.
- `getByName` of a membership list is null unless the container has loaded the
  element already; `GetGroupRolesQuery` of MySQL and MariaDB (`Drivers.xcu:900`,
  `1039`) reads the grants in the other direction.
- `dispatch.py` uses a name `parent` it does not define, so the administration
  dialog does not open; `dropGrantee` of `adminmanager.py` catches nothing.

Options page:

- Staging more than one archive empties the folder it stages into, for a new driver
  the whole folder (`tabmodel.py:387`): what other drivers have staged there is gone.
  Those are in `wiped`, and `SavedPathsExist` leaves them out.
- A driver added in the page registers under `juda::*x`, which no url matches.
- After a save `loadSetting` throws before it reads the configuration, and a
  second save throws after writing it (`tabmodel.py:220`, `330`).
- The configuration is written before the archives are copied.
- A driver removed and added again before a save keeps its old properties.
- `TabHandler.getSupportedMethodNames` lacks a comma between `EditDriver` and
  `AddDriver`.

## Not modelled, and why

Getters, conversions and the text of SQL: no state. Row sets over several joined
tables and the transaction mode of the writer: left for later; the driver keeps
its connections in autocommit. Connections and statements (close, dispose,
`checkDisposed`): left for later. Keys, indexes, columns and the unsorted map
`BiMapMain` under them: left for later. Listeners other than those of membership
lists: the one inside the driver writes a log. Privileges, passwords and the
administration dialog: one SQL command each, nothing kept. The reader, the XML
form and the other row set classes: not used by the driver. Configuration,
provider, metadata, property sets: read-only once built.

Nearly all lines of the repository are Python libraries kept with it
(`uno/lib/python`), which are not the driver's code. The modules cover Java and
Python of the driver only, a small part of the whole by number of lines.

Hazards in `PROJECT.json` without a property, and why: an error that is built and
not thrown is a defect by the shape of the code, a run would restate it; the
writer's transaction mode is not modelled; names are numbers here, so a name in
another case cannot be said; the rename of a view succeeds or fails as a whole;
the careful client of `CachedRowSetMain` goes round the missing `acceptInsert`.
Six more are what the code does, and listed under "Seen while reading":
`moveToInsertRow` twice, `deleteRows` after a delete, archives wiped while others
are staged, lists never read again, an element disposed of in the middle of a
refresh, a rename in a race. The properties next to them leave these out by name
and would not catch them.

## Plan

Modelled: the row set, the writer, both row sets of the driver, the containers
of tables and views, users and groups, the options page. Left, in this order:

1. `Lifecycle`: connection, statements, result sets; dispose and close.
2. Keys, indexes and columns of a table, and the unsorted map under them.
3. The writer with autocommit off.
