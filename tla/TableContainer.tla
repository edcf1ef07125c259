---------------------------- MODULE TableContainer ----------------------------
(***************************************************************************)
(* The containers of tables and of views of one connection                 *)
(* (sdbcx/ContainerBase, ContainerMain, ContainerSuper, TableContainerBase,*)
(* TableContainerSuper, ViewContainer, rename of TableSuper and View) over *)
(* the database, with the threads that call them and another session that *)
(* changes the same database.                                              *)
(*                                                                         *)
(* The lock of both containers is the connection.  It covers the change of *)
(* a map and the whole of refresh(), never another call: a call looks up a *)
(* place, tests a name and talks to the database without it, then changes  *)
(* the map under it.  A call is here its first action, up to the database, *)
(* and the tests and changes it still has to make, in doing[th], one action*)
(* each.  Who reads a map takes no lock at all.                            *)
(***************************************************************************)
EXTENDS BiMapBase

CONSTANTS Name,          \* the names of tables and views, numbers
          Thread,
          NoElement,     \* null: the element is not loaded
          RenamesViews,  \* ConfigDDL.supportsRenameView()
          MaxElements,   \* bound: elements created in a behaviour
          MaxTrouble     \* bound: changes of the other session, failed loads

ASSUME NameAssumption == Name \subseteq Nat /\ IsFiniteSet(Name)
ASSUME NoElementAssumption == NoElement \notin Nat \ {0}
ASSUME BoundsAssumption == MaxElements \in Nat /\ MaxTrouble \in Nat
ASSUME RenamesAssumption == RenamesViews \in BOOLEAN

VARIABLES
  db,        \* [Name -> "none", "table" or "view"], the database
  map,       \* [Container -> map], mBimap of each container
  elem,      \* Seq([name, kind]), every element created, its name property
  disposed,  \* the elements disposed, by number
  doing,     \* [Thread -> Seq(change)], what a call has still to do
  trouble,   \* number of changes of the other session and failed loads
  stale,     \* history: the threads whose container another one changed
  raced,     \* history: a stale thread went on and changed a map
  around     \* history: [Container -> names changed behind its back, or through
             \* an element that had another name]

vars == <<db, map, elem, disposed, doing, trouble, stale, raced, around>>

Container == {"tables", "views"}
Idle(th) == doing[th] = <<>>
NextElement == Len(elem) + 1

\* What getTableNames() and getViewNames() read from the database
Lists(c, d) == {n \in Name : IF c = "tables" THEN d[n] # "none"
                                             ELSE d[n] = "view"}

\* refill(): the names that a map has not are added, their elements not loaded
Refill(m, new) ==
  LET added == Sorted(new \ m.names) IN
  [names   |-> m.names \union new,
   listed  |-> IF new \subseteq m.names THEN m.listed ELSE m.names \union new,
   index   |-> m.index \o added,
   element |-> m.element \o [k \in DOMAIN added |-> NoElement]]

Init ==
  /\ db \in [Name -> {"none", "table", "view"}]
  /\ map = [c \in Container |-> Refill(EmptyMap, Lists(c, db))]
  /\ elem = <<>>
  /\ disposed = {}
  /\ doing = [th \in Thread |-> <<>>]
  /\ trouble = 0
  /\ stale = {}
  /\ raced = FALSE
  /\ around = [c \in Container |-> {}]

\* A change still to make: of the entry at the place of a name, or with an
\* element
AtPlace(what, c, n) ==
  [do |-> what, on |-> c, name |-> n, to |-> n, at |-> GetIndex(map[c], n)]
WithElement(what, c, n, e) ==
  [do |-> what, on |-> c, name |-> n, to |-> n, element |-> e]

\* th starts a call: steps are the changes it has still to make; th has made
\* the first of them
Start(th, steps) == Idle(th) /\ doing' = [doing EXCEPT ![th] = steps]
Done(th) == doing' = [doing EXCEPT ![th] = Tail(@)]
Doing(th, what) == ~Idle(th) /\ Head(doing[th]).do \in what

\* refresh() is under way: it has the lock from its first step to its last
Renews(steps) == steps # <<>> /\ Head(steps).do \in {"empty", "refill"}
Locked(th) == \E o \in Thread \ {th} : Renews(doing[o])

\* A thread goes on from the test to the change, or an exception ends its call
GoesOnTo(th, what) == doing' = [doing EXCEPT ![th][1].do = what]
Ends(th) == doing' = [doing EXCEPT ![th] = <<>>]

NamesOf(steps) == UNION {{steps[k].name, steps[k].to} : k \in DOMAIN steps}

\* Two calls are about the same name; a refresh is about all of them
Overlap(steps, others) ==
  /\ steps # <<>> /\ others # <<>>
  /\ Renews(steps) \/ Renews(others) \/ NamesOf(steps) \cap NamesOf(others) # {}

SameEntries(m, w) ==
  w.names = m.names /\ w.listed = m.listed /\ w.index = m.index

\* The history: a call is stale when another thread has changed the names of a
\* map that it has still to change; the threads have raced when a stale call
\* goes on, or when a call starts that overlaps another
Track(th) ==
  /\ stale' = {o \in Thread : /\ doing'[o] # <<>>
                              /\ \/ o \in stale
                                 \/ /\ o # th
                                    /\ \E k \in DOMAIN doing[o] :
                                         LET c == doing[o][k].on IN
                                         ~SameEntries(map[c], map'[c])}
  /\ raced' = \/ raced \/ th \in stale
              \/ /\ Idle(th)
                 /\ \E o \in Thread \ {th} : Overlap(doing'[th], doing[o])

--------------------------------------------------------------------------------
\* Loading of an element

\* getByName(), getByIndex(), an enumeration: hasByName(), the place and the
\* element are read without the lock; the element is not loaded
Look(th, c, n) ==
  /\ HasByName(map[c], n)
  /\ GetByIndex(map[c], GetIndex(map[c], n)) = NoElement
  /\ Start(th, <<AtPlace("create", c, n)>>)
  /\ UNCHANGED <<db, map, elem, disposed, trouble, around>>

\* createElement(name): no table when the database has none, always a view
Loads(c, n) == c = "views" \/ db[n] # "none"
Loaded(c, n) == [name |-> n, kind |-> IF c = "views" THEN "view" ELSE db[n]]

\* The name createElement(index) loads: the one at the place now
NameNow(s) == GetName(map[s.on], s.at)

\* createElement(index) and setElement(index), with the lock
Create(th) ==
  /\ Doing(th, {"create"}) /\ ~Locked(th)
  /\ LET s == Head(doing[th])
         m == map[s.on] IN
     /\ Reaches(m, s.at)
     /\ \/ /\ Loads(s.on, NameNow(s)) /\ NextElement <= MaxElements
           /\ elem' = Append(elem, Loaded(s.on, NameNow(s)))
           /\ map' = [map EXCEPT ![s.on] = SetElement(m, s.at, NextElement)]
        \/ /\ ~Loads(s.on, NameNow(s))
           /\ map' = [map EXCEPT ![s.on] = SetElement(m, s.at, NoElement)]
           /\ UNCHANGED elem
  /\ Done(th)
  /\ UNCHANGED <<db, disposed, trouble, around>>

\* removeContainerElement(): the entry at a place is taken out of its map and
\* its element disposed
TakenOut(c, i) == /\ map' = [map EXCEPT ![c] = RemoveElement(@, i)]
                  /\ disposed' = disposed
                       \union ({GetByIndex(map[c], i)} \ {NoElement})

\* The database cannot be read: getElementByIndex() takes the entry out
CreateFails(th) ==
  /\ Doing(th, {"create"}) /\ ~Locked(th) /\ trouble < MaxTrouble
  /\ LET s == Head(doing[th]) IN
     /\ Reaches(map[s.on], s.at)
     /\ TakenOut(s.on, s.at)
     /\ around' = [around EXCEPT ![s.on] = @ \union {NameNow(s)}]
  /\ trouble' = trouble + 1
  /\ Done(th)
  /\ UNCHANGED <<db, elem>>

\* The place is gone, or its name has no slot: an exception ends the call, with
\* an element that no container has if one was created
Throw(th) ==
  /\ Doing(th, {"create", "remove"}) /\ ~Locked(th)
  /\ LET s == Head(doing[th]) IN ~Reaches(map[s.on], s.at)
  /\ Ends(th)
  /\ UNCHANGED <<db, map, elem, disposed, trouble, around>>

--------------------------------------------------------------------------------
\* Dropping.  A call that the database refuses changes nothing but the
\* elements it has loaded, which Look and Create do too.

\* removeContainerElement() at the place looked up before, with the lock
TakeOut(th) ==
  /\ Doing(th, {"remove"}) /\ ~Locked(th)
  /\ LET s == Head(doing[th]) IN
     /\ Reaches(map[s.on], s.at)
     /\ TakenOut(s.on, s.at)
  /\ Done(th)
  /\ UNCHANGED <<db, elem, trouble, around>>

\* What getElementByName() leaves: the maps and the elements, with the element
\* of the name loaded when it was not
Now == [map |-> map, elem |-> elem]
Fetch(c, n, now) ==
  LET i == GetIndex(now.map[c], n) IN
  IF GetByIndex(now.map[c], i) # NoElement \/ ~Loads(c, n) THEN now
  ELSE [map  |-> [now.map EXCEPT ![c] = SetElement(@, i, Len(now.elem) + 1)],
        elem |-> Append(now.elem, Loaded(c, n))]

Has(c, n, now) == GetByIndex(now.map[c], GetIndex(now.map[c], n)) # NoElement
Of(c, n, now) == now.elem[GetByIndex(now.map[c], GetIndex(now.map[c], n))]

\* An element that is not loaded is created with the lock, one that is loaded is
\* read without
Keep(th, now) == /\ Len(now.elem) <= MaxElements
                 /\ Locked(th) => now.map = map
                 /\ map' = now.map /\ elem' = now.elem

Removal(c, n) == AtPlace("remove", c, n)

\* dropByName(), dropByIndex() of the tables, a table: DROP TABLE, then the
\* entry is taken out
DropTable(th, n) ==
  /\ HasByName(map["tables"], n) /\ db[n] = "table"
  /\ LET got == Fetch("tables", n, Now) IN
     /\ Has("tables", n, got) => Of("tables", n, got).kind = "table"
     /\ Keep(th, got)
  /\ Start(th, <<Removal("tables", n)>>)
  /\ db' = [db EXCEPT ![n] = "none"]
  /\ UNCHANGED <<disposed, trouble, around>>

\* A view is taken out of the views first, then of the tables
BothRemovals(n) == <<Removal("views", n), Removal("tables", n)>>

\* The element of the views under n had another name, own: the tables are told
\* of n, the database of own
Misled(n, own, new) == IF own = n THEN {} ELSE {n, own} \union new

\* The same of a view: the container of views drops it, under the name of its
\* own element
DropViewOfTables(th, n) ==
  /\ HasByName(map["tables"], n) /\ HasByName(map["views"], n)
  /\ LET got  == Fetch("tables", n, Now)
         both == Fetch("views", n, got)
         own  == Of("views", n, both).name IN
     /\ Has("tables", n, got) /\ Of("tables", n, got).kind = "view"
     /\ Has("views", n, both) /\ db[own] = "view"
     /\ Keep(th, both)
     /\ db' = [db EXCEPT ![own] = "none"]
     /\ around' = [around EXCEPT !["tables"] = @ \union Misled(n, own, {})]
  /\ Start(th, BothRemovals(n))
  /\ UNCHANGED <<disposed, trouble>>

\* dropByName(), dropByIndex() of the views: the tables are not told
DropView(th, n) ==
  /\ HasByName(map["views"], n)
  /\ LET got == Fetch("views", n, Now)
         own == Of("views", n, got).name IN
     /\ Has("views", n, got) /\ db[own] = "view"
     /\ Keep(th, got)
     /\ db' = [db EXCEPT ![own] = "none"]
     /\ around' = [around EXCEPT !["tables"] = @ \union {own}]
  /\ Start(th, <<Removal("views", n)>>)
  /\ UNCHANGED <<disposed, trouble>>

--------------------------------------------------------------------------------
\* Creating

\* insertElement() looks without the lock whether the name is there
Insert(th) ==
  /\ Doing(th, {"insert"})
  /\ LET s == Head(doing[th]) IN
     IF HasByName(map[s.on], s.name) THEN Done(th) ELSE GoesOnTo(th, "add")
  /\ UNCHANGED <<db, map, elem, disposed, trouble, around>>

\* addElement() of appendByDescriptor() and insertElement(), with the lock
Add(th) ==
  /\ Doing(th, {"add"}) /\ ~Locked(th)
  /\ LET s == Head(doing[th]) IN
     map' = [map EXCEPT ![s.on] = AddElement(@, s.name, s.element)]
  /\ Done(th)
  /\ UNCHANGED <<db, elem, disposed, trouble, around>>

Addition(c, n) == WithElement("add", c, n, NextElement)

\* A mutant: the tables are not told of a new view
ViewAddition(c, n) == <<Addition(c, n)>>

\* What is added after CREATE: a view is a table too, not yet loaded
Additions(c, n) ==
  IF c = "tables" THEN <<Addition(c, n)>>
  ELSE <<WithElement("insert", "tables", n, NoElement), Addition(c, n)>>

\* appendByDescriptor(): CREATE, refused when the database has the name, and
\* the new element
AppendByDescriptor(th, c, n) ==
  /\ db[n] = "none" /\ NextElement <= MaxElements
  /\ LET kind == IF c = "tables" THEN "table" ELSE "view" IN
     /\ db' = [db EXCEPT ![n] = kind]
     /\ elem' = Append(elem, [name |-> n, kind |-> kind])
  /\ Start(th, Additions(c, n))
  /\ UNCHANGED <<map, disposed, trouble, around>>

--------------------------------------------------------------------------------
\* Renaming

\* rename() and replaceElement() look without the lock whether the old name is
\* there
Replace(th) ==
  /\ Doing(th, {"rename"})
  /\ LET s == Head(doing[th]) IN
     IF s.to # s.name /\ HasByName(map[s.on], s.name)
     THEN GoesOnTo(th, "relabel") ELSE Done(th)
  /\ UNCHANGED <<db, map, elem, disposed, trouble, around>>

\* renameElement(), with the lock: it throws when the old name has gone since
Relabel(th) ==
  /\ Doing(th, {"relabel"}) /\ ~Locked(th)
  /\ LET s == Head(doing[th]) IN
     /\ map' = [map EXCEPT ![s.on] = RenameElement(@, s.name, s.to)]
     /\ IF HasSlot(map[s.on], s.name) THEN Done(th) ELSE Ends(th)
  /\ UNCHANGED <<db, elem, disposed, trouble, around>>

Renaming(c, n, to) == [do |-> "rename", on |-> c, name |-> n, to |-> to]

\* What the database does: the name is taken, or the object is gone
Renamed(kind, n, to) ==
  /\ db[n] = kind /\ db[to] = "none"
  /\ db' = [db EXCEPT ![n] = "none", ![to] = kind]

\* A client can have asked the container for the element
Held(c, e) == \E i \in DOMAIN map[c].element : map[c].element[i] = e

\* What was changed behind a container's back has a new name
Carried(n, to) ==
  [c \in Container |-> IF n \in around[c] THEN around[c] \union {to} ELSE around[c]]

\* rename() of an element e that a client has: a table
RenameTable(th, e, to) ==
  /\ elem[e].kind = "table" /\ Held("tables", e)
  /\ ~HasByName(map["tables"], to)
  /\ Renamed("table", elem[e].name, to)
  /\ elem' = [elem EXCEPT ![e].name = to]
  /\ Start(th, <<Renaming("tables", elem[e].name, to)>>)
  /\ around' = Carried(elem[e].name, to)
  /\ UNCHANGED <<map, disposed, trouble>>

\* A mutant: the element of the view keeps its name
ViewKeepsName(now, v, to) == now.elem

\* The view is renamed with its element, or dropped and created again without
ViewRenamed(now, v, to) ==
  IF RenamesViews THEN [now.elem EXCEPT ![v].name = to] ELSE now.elem

\* rename() of a view as the tables have it, e: the element of the views is
\* renamed, or the view dropped and created again; then e and the tables
RenameViewOfTables(th, e, to) ==
  LET n    == elem[e].name
      both == Fetch("views", n, Now)
      v    == GetByIndex(both.map["views"], GetIndex(both.map["views"], n))
      own  == both.elem[v].name IN
  /\ elem[e].kind = "view" /\ Held("tables", e)
  /\ HasByName(map["views"], n)
  /\ Has("views", n, both)
  /\ RenamesViews => ~HasByName(map["tables"], to)
  /\ Renamed("view", own, to)
  /\ Keep(th, [both EXCEPT !.elem = [ViewRenamed(both, v, to) EXCEPT ![e].name = to]])
  /\ Start(th, <<Renaming("views", IF RenamesViews THEN own ELSE n, to),
                 Renaming("tables", n, to)>>)
  /\ around' = [Carried(n, to) EXCEPT !["tables"] = @ \union Misled(n, own, {to})]
  /\ UNCHANGED <<disposed, trouble>>

\* rename() of a view as the views have it: the tables are not told
RenameView(th, e, to) ==
  LET n == elem[e].name IN
  /\ Held("views", e)
  /\ ~HasByName(map["tables"], to)
  /\ Renamed("view", n, to)
  /\ elem' = [elem EXCEPT ![e].name = to]
  /\ around' = [Carried(n, to) EXCEPT !["tables"] = @ \union {n, to}]
  /\ Start(th, <<Renaming("views", n, to)>>)
  /\ UNCHANGED <<map, disposed, trouble>>

--------------------------------------------------------------------------------
\* Refreshing

\* refresh() of a container has still to empty its map, and to add to both maps
\* the names that the database has and they have not
Refreshing(c) == <<[do |-> "empty", on |-> c],
                   [do |-> "refill", on |-> "tables"],
                   [do |-> "refill", on |-> "views"]>>

\* clear() disposes of the elements first, while the map still has them for
\* whoever reads it
Refresh(th, c) ==
  /\ ~Locked(th)
  /\ Start(th, Refreshing(c))
  /\ disposed' = disposed \union ({map[c].element[i] :
                              i \in DOMAIN map[c].element} \ {NoElement})
  /\ UNCHANGED <<db, map, elem, trouble, around>>

\* A mutant: the elements are disposed, the entries stay
ClearDisposesOnly(c) == map[c]

\* What clear() leaves of a map
Clear(c) == EmptyMap

\* clear() empties the map: what was done behind the container's back before is
\* forgotten
Empty(th) ==
  /\ Doing(th, {"empty"})
  /\ LET c == Head(doing[th]).on IN
     /\ map' = [map EXCEPT ![c] = Clear(c)]
     /\ around' = [around EXCEPT ![c] = {}]
  /\ Done(th)
  /\ UNCHANGED <<db, elem, disposed, trouble>>

\* refreshTables(), refreshViews(): the names are read and those that are missing
\* added
RefillOne(th) ==
  /\ Doing(th, {"refill"})
  /\ LET c == Head(doing[th]).on IN
     map' = [map EXCEPT ![c] = Refill(@, Lists(c, db))]
  /\ Done(th)
  /\ UNCHANGED <<db, elem, disposed, trouble, around>>

\* The names cannot be read: an exception ends the refresh, and a map is not told
\* of what the database has and it has not, all of it if it was emptied
RefillFails(th) ==
  /\ Doing(th, {"refill"}) /\ trouble < MaxTrouble
  /\ Ends(th)
  /\ trouble' = trouble + 1
  /\ around' = [c \in Container |-> around[c] \union (Lists(c, db) \ map[c].names)]
  /\ UNCHANGED <<db, map, elem, disposed>>

\* Another session creates or drops a table or a view
OtherSession(n, kind) ==
  /\ trouble < MaxTrouble /\ db[n] # kind
  /\ kind = "none" \/ db[n] = "none"
  /\ db' = [db EXCEPT ![n] = kind]
  /\ trouble' = trouble + 1
  /\ around' = [c \in Container |-> around[c] \union {n}]
  /\ UNCHANGED <<map, elem, disposed, doing>>

\* The bound: after a race the calls under way end, no other starts
Call(th) ==
  /\ ~raced
  /\ \/ \E c \in Container, n \in Name : Look(th, c, n)
     \/ \E c \in Container, n \in Name : AppendByDescriptor(th, c, n)
     \/ \E n \in Name : DropTable(th, n)
     \/ \E n \in Name : DropViewOfTables(th, n)
     \/ \E n \in Name : DropView(th, n)
     \/ \E e \in DOMAIN elem, to \in Name : RenameTable(th, e, to)
     \/ \E e \in DOMAIN elem, to \in Name : RenameViewOfTables(th, e, to)
     \/ \E e \in DOMAIN elem, to \in Name : RenameView(th, e, to)
     \/ \E c \in Container : Refresh(th, c)

GoOn(th) == \/ Create(th) \/ CreateFails(th) \/ Throw(th) \/ TakeOut(th)
            \/ Insert(th) \/ Add(th) \/ Replace(th) \/ Relabel(th)
            \/ Empty(th) \/ RefillOne(th) \/ RefillFails(th)

Next ==
  \/ \E th \in Thread : (Call(th) \/ GoOn(th)) /\ Track(th)
  \/ /\ \E n \in Name, kind \in {"none", "table", "view"} : OtherSession(n, kind)
     /\ UNCHANGED <<stale, raced>>

Spec == Init /\ [][Next]_vars

--------------------------------------------------------------------------------
\* Properties

\* The lists of a map are of one length, every element is one that was created.
\* As long as the threads have not raced, the names are those the places are
\* counted by and each has a slot; a rename that tested a name before another
\* thread took it out can leave them apart (ContainerMain.java:200 and 202,
\* BiMapBase.java:148).
TypeOK ==
  /\ db \in [Name -> {"none", "table", "view"}]
  /\ disposed \subseteq DOMAIN elem
  /\ \A c \in Container :
       /\ Len(map[c].index) = Len(map[c].element)
       /\ \A i \in DOMAIN map[c].element :
            map[c].element[i] \in DOMAIN elem \union {NoElement}
  /\ ~raced => \A c \in Container :
       map[c].names = map[c].listed /\ \A n \in map[c].names : HasSlot(map[c], n)

\* refresh() has disposed of the elements of a container and not yet emptied it
Disposing(c) == \E th \in Thread : Doing(th, {"empty"}) /\ Head(doing[th]).on = c

\* A container has no disposed element to hand out but between these two steps
\* of its own refresh, in races too: what else is disposed has left the map
\* (ContainerBase.java:294), and no call that was under way puts it back
\* (BiMapBase.java:169).
NoneDisposed ==
  \A c \in Container : ~Disposing(c) =>
    \A i \in DOMAIN map[c].element : map[c].element[i] \notin disposed

\* Nobody is in the middle of a call and no call has worked on with what
\* another thread had made wrong
Settled == ~raced /\ \A th \in Thread : Idle(th)

\* A container has no name twice, ContainerMain.java:256, as long as nobody
\* creates what it still lists behind its back; then its count and its places
\* agree, and an enumeration, which goes by getEnumerationOrder(), asks for
\* every place once.
NamesOnce ==
  Settled => \A c \in Container : around[c] = {} =>
    /\ Cardinality(map[c].names) = GetCount(map[c])
    /\ {EnumerationOrder(map[c])[k] : k \in DOMAIN EnumerationOrder(map[c])}
         = 0..(GetCount(map[c]) - 1)

\* What a container lists is what the database has, the two containers
\* together: a view created, dropped or renamed through one is seen in the
\* other, apart from what was done behind its back or through an element that
\* had another name.
ListsTheDatabase ==
  Settled => \A c \in Container : \A n \in Name \ around[c] :
    HasByName(map[c], n) <=> n \in Lists(c, db)

\* Every loaded element is under its own name, as are the two elements of a
\* view (TableSuper.java:381, View.java:138, ContainerMain.java:193).
UnderOwnName ==
  Settled => \A c \in Container : \A i \in DOMAIN map[c].element :
    LET e == map[c].element[i] IN
    e # NoElement /\ map[c].index[i] \notin around[c]
      => elem[e].name = map[c].index[i]

\* A thread that asked for a name whose place nobody moved gets the element of
\* that name, or none when the database has none (ContainerBase.java:314).
GetsWhatItAsked ==
  [][\A th \in Thread :
       Doing(th, {"create"}) /\ doing'[th] # doing[th] /\ th \notin stale =>
         LET s == Head(doing[th])
             e == GetByIndex(map'[s.on], GetIndex(map'[s.on], s.name)) IN
         HasByName(map'[s.on], s.name) /\ e # NoElement
           => elem'[e].name = s.name]_vars
================================================================================
