---------------------------- MODULE RoleContainer ----------------------------
(***************************************************************************)
(* Users, groups and who belongs to whom: the containers of users and of   *)
(* groups of a connection (sdb/UserContainer, GroupContainer), the         *)
(* elements in them (User, Group, Role) and the membership lists of an     *)
(* element (sdbcx/RoleContainer, sdb/Users, sdb/Groups): the groups of a   *)
(* user, the users of a group, and the groups that belong to a group.      *)
(*                                                                         *)
(* A list has names of its own (BiMapSuper) and no elements: it asks the   *)
(* container for them, and getByName() of a name the container does not    *)
(* have throws.  It is read from the database when it is first asked for   *)
(* and never again; a listener takes out the names that leave the          *)
(* container (RoleListener).  Each grant is seen from two sides.           *)
(*                                                                         *)
(* One thread calls; other sessions work on the database between two       *)
(* calls.  A call the database refuses changes nothing.  The client        *)
(* creates no role whose name is still listed: what the map of a container *)
(* makes of that is in TableContainer.                                     *)
(***************************************************************************)
EXTENDS Integers, FiniteSetsExt, Functions

CONSTANTS User, Group,   \* the names of users and of groups
          NoElement,     \* null: the element is not loaded
          MaxElements,   \* bound: elements there are at a time
          MaxTrouble     \* bound: changes of other sessions, failed queries

ASSUME RolesAssumption == User \cap Group = {}
ASSUME BoundsAssumption == MaxElements \in Nat /\ MaxTrouble \in Nat
ASSUME NoElementAssumption == NoElement \notin (User \union Group) \X Nat

Role == User \union Group
Container == {"users", "groups"}
Names(c) == IF c = "users" THEN User ELSE Group

VARIABLES
  exists,    \* the roles in the database
  granted,   \* the grants in the database, pairs <<group, its member>>
  top,       \* [Container -> [its names -> element or NoElement]]
  elem,      \* the elements not disposed of, <<name, number>>, and the lists
             \* of each that are loaded, [element -> [lists -> names]]
  trouble,   \* number of changes of other sessions and of failed queries
  outside,   \* history: roles other sessions created or dropped, and those
             \* of a query that failed
  behind     \* history: <<element, list, name>> changed not through the list

database == <<exists, granted>>
vars == <<database, top, elem, trouble, outside, behind>>

--------------------------------------------------------------------------------
\* The two sides of a grant

Name(e) == e[1]

\* The grant of the name n in the list l of an element: GRANT ... TO
Grant(e, l, n) ==
  IF Name(e) \in User THEN <<n, Name(e)>> ELSE <<Name(e), n>>

\* The lists an element can have
Lists(e) == IF Name(e) \in User THEN {"groups"} ELSE Container

\* What the query for a list finds
Members(e, l, grants) == {n \in Names(l) : Grant(e, l, n) \in grants}

Loaded(e, l) == l \in DOMAIN elem[e]

\* The history, when the list entries own have seen what became of the grants
Tracked(own) ==
  {v \in (DOMAIN elem') \X Container \X Role :
     /\ v \notin own
     /\ \/ v \in behind
        \/ /\ Loaded(v[1], v[2]) /\ v[3] \in Names(v[2])
           /\ (Grant(v[1], v[2], v[3]) \in granted)
                 # (Grant(v[1], v[2], v[3]) \in granted')}
Track(own) == behind' = Tracked(own)

\* put() of a map
With(f, x, v) == [y \in DOMAIN f \union {x} |-> IF y = x THEN v ELSE f[y]]

\* An element when it is made: no list is loaded
NoLists == [l \in {} |-> {}]

\* A new element; the numbers of those disposed of are used again
Number(n) == Min({k \in 1..MaxElements : <<n, k>> \notin DOMAIN elem})
NextElement(n) == <<n, Number(n)>>
Create(n) == /\ Cardinality(DOMAIN elem) < MaxElements
             /\ elem' = With(elem, NextElement(n), NoLists)

Init ==
  /\ exists \in SUBSET Role
  /\ granted \in SUBSET ((exists \cap Group) \X exists)
  /\ \A g, h \in Group : <<g, h>> \in granted => <<h, g>> \notin granted
  /\ top = [c \in Container |-> [n \in exists \cap Names(c) |-> NoElement]]
  /\ elem = [e \in {} |-> NoLists]
  /\ trouble = 0 /\ outside = {} /\ behind = {}

--------------------------------------------------------------------------------
\* Elements and their lists

\* getByName(), getByIndex() of a container: the element is created
Get(c, n) ==
  /\ n \in DOMAIN top[c] /\ top[c][n] = NoElement
  /\ Create(n)
  /\ top' = [top EXCEPT ![c][n] = NextElement(n)]
  /\ UNCHANGED <<database, trouble, outside, behind>>

\* getGroups(), getUsers() of an element, the first time; getRoleNames()
\* makes an empty list of a query that fails
Load(e, l) ==
  /\ l \in Lists(e) /\ ~Loaded(e, l)
  /\ \/ /\ elem' = [elem EXCEPT ![e] = With(@, l, Members(e, l, granted))]
        /\ UNCHANGED <<trouble, behind>>
     \/ /\ trouble < MaxTrouble /\ trouble' = trouble + 1
        /\ elem' = [elem EXCEPT ![e] = With(@, l, {})]
        /\ behind' = behind \union {<<e, l, n>> : n \in Members(e, l, granted)}
  /\ UNCHANGED <<database, top, outside>>

\* A mutant: a user is granted to the group, whichever side asks
GrantedFrom(e, l, n) == <<Name(e), n>>

\* The grant a list makes when a name is appended or dropped
Granting(e, l, n) == Grant(e, l, n)

\* The database wants both roles, and no group in itself
Accepts(grant) == grant[1] \in exists \cap Group /\ grant[2] \in exists
                    /\ grant[1] # grant[2] /\ <<grant[2], grant[1]>> \notin granted

\* appendByDescriptor() of a list: GRANT, then the name is added; the
\* container is asked for the element only after that
AppendMember(e, l, n) ==
  /\ Loaded(e, l) /\ n \in Names(l) \ elem[e][l]
  /\ Accepts(Granting(e, l, n))
  /\ granted' = granted \union {Granting(e, l, n)}
  /\ elem' = [elem EXCEPT ![e][l] = @ \union {n}]
  /\ Track({<<e, l, n>>})
  /\ UNCHANGED <<exists, top, trouble, outside>>

\* dropByName(), dropByIndex() of a list: REVOKE, then the name is taken out;
\* the container is asked for the element before that
DropMember(e, l, n) ==
  /\ Loaded(e, l) /\ n \in elem[e][l]
  /\ {n, Name(e)} \subseteq exists
  /\ granted' = granted \ {Granting(e, l, n)}
  /\ IF n \in DOMAIN top[l]
     THEN /\ elem' = [elem EXCEPT ![e][l] = @ \ {n}]
          /\ Track({<<e, l, n>>})
     ELSE UNCHANGED elem /\ Track({})
  /\ UNCHANGED <<exists, top, trouble, outside>>

--------------------------------------------------------------------------------
\* Roles

\* appendByDescriptor() of a container: CREATE, and the new element
CreateRole(c, n) ==
  /\ n \notin exists /\ n \notin DOMAIN top[c]
  /\ exists' = exists \union {n}
  /\ Create(n)
  /\ top' = [top EXCEPT ![c] = With(@, n, NextElement(n))]
  /\ UNCHANGED <<granted, trouble, outside, behind>>

\* DROP takes the grants along
DroppedFromDatabase(n) ==
  /\ n \in exists
  /\ exists' = exists \ {n}
  /\ granted' = {g \in granted : g[1] # n /\ g[2] # n}

\* removeContainerElement(): the name leaves the container, then the listeners
\* are told.  A list that has the name asks the container for the element
\* before it takes the name out, and the container has lost it: elementRemoved()
\* throws, no list loses the name and the element is not disposed of.
TakenOut(c, n, now) ==
  /\ top' = [top EXCEPT ![c] = Restrict(@, DOMAIN @ \ {n})]
  /\ elem' =
       IF \E e \in DOMAIN now : c \in DOMAIN now[e] /\ n \in now[e][c]
       THEN now ELSE Restrict(now, DOMAIN now \ {top[c][n]})

\* dropByName(), dropByIndex() of the users
DropUser(n) ==
  /\ n \in DOMAIN top["users"]
  /\ DroppedFromDatabase(n)
  /\ TakenOut("users", n, elem)
  /\ Track({})
  /\ UNCHANGED <<trouble, outside>>

\* The elements of the users that are loaded
ActiveUsers == {e \in DOMAIN elem : \E u \in DOMAIN top["users"] : top["users"][u] = e}

\* A mutant: the users are not told
UsersNotTold(n, failed) == elem

\* Those of them whose groups are not loaded yet
Unread == {e \in ActiveUsers : ~Loaded(e, "groups")}

\* The groups of a user after the DROP: getRoleNames() makes an empty list of a
\* query that fails
GroupsOf(e, failed) ==
  CASE e \notin Unread -> elem[e]["groups"]
    [] e \in Unread \cap failed -> {}
    [] e \in Unread \ failed -> Members(e, "groups", granted')

\* removeRole(): every loaded user loses the group, and loads its groups when
\* it had not; the container still has the group
RoleRemoved(n, failed) ==
  [e \in DOMAIN elem |->
     IF e \in ActiveUsers THEN [l \in {"groups"} |-> GroupsOf(e, failed) \ {n}]
     ELSE elem[e]]

\* dropByName(), dropByIndex() of the groups; the queries for the groups of some
\* users may fail
DropGroup(n, failed) ==
  /\ n \in DOMAIN top["groups"]
  /\ failed \subseteq Unread
  /\ trouble' = trouble + Cardinality(failed) /\ trouble' <= MaxTrouble
  /\ DroppedFromDatabase(n)
  /\ TakenOut("groups", n, RoleRemoved(n, failed))
  /\ behind' = Tracked({<<e, "groups", n>> : e \in ActiveUsers}) \union
                 {v \in failed \X {"groups"} \X Group : Grant(v[1], v[2], v[3]) \in granted'}
  /\ UNCHANGED outside

\* What the queries for the names of both containers find, when some fail
Found(x, failed) == IF x \in failed THEN {} ELSE exists \cap Names(x)

\* A mutant: the elements of the container are kept
RefilledOnly(c, failed) ==
  [x \in Container |-> [n \in DOMAIN top[x] \union Found(x, failed) |->
                          IF n \in DOMAIN top[x] THEN top[x][n] ELSE NoElement]]

\* clear() of one container, and what both have not is added to them
Refilled(c, failed) ==
  [x \in Container |->
     LET kept == IF x = c THEN {} ELSE DOMAIN top[x] IN
     [n \in kept \union Found(x, failed) |-> IF n \in kept THEN top[x][n] ELSE NoElement]]

\* refresh(): the lists of the elements that stay are not read again
Refresh(c, failed) ==
  /\ trouble' = trouble + Cardinality(failed) /\ trouble' <= MaxTrouble
  /\ top' = Refilled(c, failed)
  /\ elem' = Restrict(elem, DOMAIN elem \ Range(top[c]))
  /\ outside' = outside \union UNION {Names(x) : x \in failed}
  /\ UNCHANGED database
  /\ Track({})

--------------------------------------------------------------------------------
\* Another session creates or drops a role, grants or revokes
OtherSession ==
  /\ trouble < MaxTrouble /\ trouble' = trouble + 1
  /\ \/ \E n \in Role \ exists :
          /\ exists' = exists \union {n}
          /\ outside' = outside \union {n}
          /\ UNCHANGED granted
     \/ \E n \in Role :
          DroppedFromDatabase(n) /\ outside' = outside \union {n}
     \/ /\ \E grant \in Group \X Role :
             Accepts(grant) /\ granted' = granted \union {grant}
        /\ UNCHANGED <<exists, outside>>
     \/ /\ \E grant \in granted : granted' = granted \ {grant}
        /\ UNCHANGED <<exists, outside>>
  /\ UNCHANGED <<top, elem>>
  /\ Track({})

Next ==
  \/ \E c \in Container, failed \in SUBSET Container : Refresh(c, failed)
  \/ \E c \in Container : \E n \in Names(c) : Get(c, n) \/ CreateRole(c, n)
  \/ \E e \in DOMAIN elem, l \in Container :
       Load(e, l) \/ \E n \in Names(l) : AppendMember(e, l, n) \/ DropMember(e, l, n)
  \/ \E n \in User : DropUser(n)
  \/ \E n \in Group, failed \in SUBSET DOMAIN elem : DropGroup(n, failed)
  \/ OtherSession

Spec == Init /\ [][Next]_vars

--------------------------------------------------------------------------------
\* Properties

\* Grants are of roles there are, elements are in their own container, under
\* their name, and no element that is handed out is disposed of.
TypeOK ==
  /\ granted \subseteq (exists \cap Group) \X exists
  /\ \A c \in Container : \A n \in DOMAIN top[c] :
       /\ n \in Names(c)
       /\ top[c][n] # NoElement => top[c][n] \in DOMAIN elem /\ Name(top[c][n]) = n
  /\ \A e \in DOMAIN elem : \A l \in DOMAIN elem[e] :
       l \in Lists(e) /\ elem[e][l] \subseteq Names(l)

\* The containers list the roles of the database, whatever calls ended with an
\* exception, apart from the roles other sessions created or dropped and those a
\* query that failed did not show.
ListsTheRoles ==
  \A c \in Container : \A n \in Names(c) \ outside :
    n \in DOMAIN top[c] <=> n \in exists

\* A membership list shows the grants of the database, apart from those that
\* were changed from the other side of the list, by another session, or with a
\* user that was dropped, and those of a query that failed.
ListsTheGrants ==
  \A e \in DOMAIN elem : \A l \in DOMAIN elem[e] : \A n \in Names(l) :
    <<e, l, n>> \notin behind
      => (n \in elem[e][l] <=> Grant(e, l, n) \in granted)

\* The lists, and the containers they are lists of, agree with the database
\* (RoleContainer.java:152, ContainerBase.java:288, Connection.java:188).
ShowsTheDatabase == ListsTheRoles /\ ListsTheGrants

\* "A role has just been deleted, it should also be deleted from any member
\* user" (GroupContainer.java:137): no user of the container is shown in a group
\* that the driver has dropped.
DroppedGroupLeavesUsers ==
  \A e \in ActiveUsers : Loaded(e, "groups") =>
    elem[e]["groups"] \subseteq DOMAIN top["groups"] \union outside

\* "A user has just been deleted, they should also be deleted from any role
\* they are a member of" (UserContainer.java:151): no group of the container
\* shows a user that the driver has dropped.
DroppedUserLeavesGroups ==
  \A g \in DOMAIN top["groups"] : LET e == top["groups"][g] IN
    e # NoElement /\ Loaded(e, "users")
      => elem[e]["users"] \subseteq DOMAIN top["users"] \union outside
================================================================================
