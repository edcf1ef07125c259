------------------------- MODULE RoleContainerProofs -------------------------
(***************************************************************************)
(* What holds of users, groups and their membership lists for any names,   *)
(* any number of elements and any order of calls and of changes of other   *)
(* sessions.                                                               *)
(*                                                                         *)
(* Typed is the inductive form of TypeOK: the maps are maps, and there are *)
(* finitely many elements, so that a new one gets a number of its own.     *)
(***************************************************************************)
EXTENDS RoleContainer, FiniteSetTheorems, WellFoundedInduction, TLAPS

IsMap(f) == f = [x \in DOMAIN f |-> f[x]]

\* The map of the container c, when the elements not disposed of are E.
MapTyped(c, m, E) ==
  /\ IsMap(m) /\ DOMAIN m \subseteq Names(c)
  /\ \A n \in DOMAIN m : m[n] # NoElement => m[n] \in E /\ Name(m[n]) = n

\* The lists of the element e.
ListsTyped(e, lists) ==
  /\ IsMap(lists)
  /\ \A l \in DOMAIN lists : l \in Lists(e) /\ lists[l] \subseteq Names(l)

ElementsTyped(m) ==
  /\ IsMap(m) /\ DOMAIN m \subseteq Role \X Nat /\ IsFiniteSet(DOMAIN m)
  /\ \A e \in DOMAIN m : ListsTyped(e, m[e])

MapsTyped(maps, E) ==
  /\ maps = [c \in Container |-> maps[c]]
  /\ \A c \in Container : MapTyped(c, maps[c], E)

Typed ==
  /\ exists \subseteq Role /\ granted \subseteq (exists \cap Group) \X exists
  /\ ElementsTyped(elem)
  /\ MapsTyped(top, DOMAIN elem)

--------------------------------------------------------------------------------
(* The operators on maps. *)

\* A set of naturals has a least element.
LEMMA NatLeast ==
    ASSUME NEW S \in SUBSET Nat, S # {}
    PROVE  \E x \in S : \A y \in S : x <= y
<1> DEFINE R == OpToRel(<, Nat)
<1>1. IsWellFoundedOn(R, Nat)
    BY NatLessThanWellFounded
<1>2. PICK x \in S : \A y \in S : <<y, x>> \notin R
    BY <1>1, WFMin
<1>3. \A y \in S : ~(y < x)
    BY <1>2 DEF OpToRel
<1> QED BY <1>3

\* Min, a CHOOSE, is that least element.
LEMMA MinOfNat ==
    ASSUME NEW S \in SUBSET Nat, S # {}
    PROVE  Min(S) \in S /\ \A y \in S : Min(S) <= y
BY NatLeast DEF Min

\* What is left of a map has the values it had.
LEMMA RestrictFacts ==
    ASSUME NEW f, NEW S
    PROVE  /\ IsMap(Restrict(f, S)) /\ DOMAIN Restrict(f, S) = S
           /\ \A y \in S : Restrict(f, S)[y] = f[y]
BY DEF Restrict, IsMap

\* While there are fewer elements than the bound, the next one has a number that
\* no element of its name has.
LEMMA NextElementIsNew ==
    ASSUME ElementsTyped(elem), Cardinality(DOMAIN elem) < MaxElements, NEW n
    PROVE  Number(n) \in Nat /\ NextElement(n) \notin DOMAIN elem
<1> DEFINE S == {k \in 1..MaxElements : <<n, k>> \notin DOMAIN elem}
<1>1. S # {}
  <2>1. SUFFICES ASSUME S = {} PROVE FALSE
      OBVIOUS
  <2> DEFINE f == [k \in 1..MaxElements |-> <<n, k>>]
  <2>2. f \in Injection(1..MaxElements, DOMAIN elem)
      BY <2>1 DEF Injection, IsInjective
  <2>3. Cardinality(1..MaxElements) <= Cardinality(DOMAIN elem)
      BY <2>2, FS_Injection DEF ElementsTyped
  <2>4. Cardinality(1..MaxElements) = MaxElements
      BY BoundsAssumption, FS_Interval
  <2>5. Cardinality(DOMAIN elem) \in Nat
      BY FS_CardinalityType DEF ElementsTyped
  <2> QED BY <2>3, <2>4, <2>5, BoundsAssumption
<1>2. Number(n) = Min(S)
    BY DEF Number
<1> HIDE DEF S
<1>3. S \in SUBSET Nat
    BY BoundsAssumption DEF S
<1>4. Number(n) \in S
    BY <1>1, <1>2, <1>3, MinOfNat
<1> QED BY <1>4, BoundsAssumption DEF S, NextElement

\* A map keeps its type while its elements are not disposed of.
LEMMA MapStays ==
    ASSUME NEW c, NEW m, NEW E, NEW F, MapTyped(c, m, E),
           \A n \in DOMAIN m : m[n] # NoElement => m[n] \in F
    PROVE  MapTyped(c, m, F)
BY DEF MapTyped

\* Elements of two names, and of two containers, are not the same.
LEMMA OwnElement ==
    ASSUME Typed, NEW c \in Container, NEW d \in Container,
           NEW n \in DOMAIN top[c], NEW k \in DOMAIN top[d],
           top[c][n] = top[d][k], top[c][n] # NoElement
    PROVE  c = d /\ n = k
<1>1. n \in Names(c) /\ k \in Names(d) /\ n = Name(top[c][n]) /\ k = Name(top[d][k])
    BY DEF Typed, MapsTyped, MapTyped
<1> QED BY <1>1, RolesAssumption DEF Names, Container

\* A set of elements that keep their lists.
LEMMA ElementsStay ==
    ASSUME NEW m, ElementsTyped(m), NEW S, S \subseteq DOMAIN m
    PROVE  ElementsTyped(Restrict(m, S))
<1>1. IsFiniteSet(S)
    BY FS_Subset DEF ElementsTyped
<1> QED BY <1>1, RestrictFacts DEF ElementsTyped

\* The members a query finds are names of the list.
LEMMA MembersType ==
    ASSUME NEW e, NEW l, NEW grants
    PROVE  Members(e, l, grants) \subseteq Names(l)
BY DEF Members

--------------------------------------------------------------------------------
(* Types. *)

\* At first no element is loaded.
LEMMA InitTyped == Init => Typed
<1> SUFFICES ASSUME Init PROVE Typed
    OBVIOUS
<1>1. elem = [e \in {} |-> NoLists]
    BY DEF Init
<1>2. DOMAIN elem = {} /\ IsMap(elem)
    BY <1>1 DEF IsMap
<1>3. ElementsTyped(elem)
    BY <1>2, FS_EmptySet DEF ElementsTyped
<1>4. top = [c \in Container |-> [n \in exists \cap Names(c) |-> NoElement]]
    BY DEF Init
<1>5. MapsTyped(top, DOMAIN elem)
    BY <1>4 DEF MapsTyped, MapTyped, IsMap
<1> QED BY <1>3, <1>5 DEF Init, Typed

\* A new element, with no list.
LEMMA CreateTyped ==
    ASSUME Typed, NEW n \in Role, Create(n)
    PROVE  /\ ElementsTyped(elem') /\ DOMAIN elem' = DOMAIN elem \union {NextElement(n)}
           /\ elem'[NextElement(n)] = NoLists
           /\ \A e \in DOMAIN elem : elem'[e] = elem[e]
           /\ NextElement(n) \notin DOMAIN elem /\ NextElement(n) # NoElement
           /\ Name(NextElement(n)) = n
<1>1. elem' = With(elem, NextElement(n), NoLists)
    BY DEF Create
<1>2. Number(n) \in Nat /\ NextElement(n) \notin DOMAIN elem
    BY NextElementIsNew DEF Create, Typed
<1>3. /\ NextElement(n) \in Role \X Nat /\ NextElement(n) # NoElement
      /\ Name(NextElement(n)) = n
    BY <1>2, NoElementAssumption DEF NextElement, Role, Name
<1>4. /\ IsMap(elem') /\ DOMAIN elem' = DOMAIN elem \union {NextElement(n)}
      /\ elem'[NextElement(n)] = NoLists
      /\ \A e \in DOMAIN elem : elem'[e] = elem[e]
  <2>1. /\ IsMap(elem') /\ DOMAIN elem' = DOMAIN elem \union {NextElement(n)}
        /\ elem'[NextElement(n)] = NoLists
        /\ \A e \in DOMAIN elem : elem'[e] = IF e = NextElement(n) THEN NoLists ELSE elem[e]
      BY <1>1 DEF With, IsMap
  <2> QED BY <1>2, <2>1
<1>5. IsFiniteSet(DOMAIN elem')
    BY <1>4, FS_AddElement DEF Typed, ElementsTyped
<1>6. \A e : ListsTyped(e, NoLists)
  <2>1. DOMAIN NoLists = {} /\ IsMap(NoLists)
      BY DEF NoLists, IsMap
  <2> QED BY <2>1 DEF ListsTyped
<1>7. ElementsTyped(elem')
    BY <1>3, <1>4, <1>5, <1>6 DEF Typed, ElementsTyped
<1> QED BY <1>2, <1>3, <1>4, <1>7

\* An element that loads a list.
LEMMA LoadTyped ==
    ASSUME Typed, NEW e \in DOMAIN elem, NEW l \in Lists(e), NEW S \in SUBSET Names(l),
           elem' = [elem EXCEPT ![e] = With(@, l, S)]
    PROVE  /\ ElementsTyped(elem') /\ DOMAIN elem' = DOMAIN elem
           /\ DOMAIN elem'[e] = DOMAIN elem[e] \union {l} /\ elem'[e][l] = S
           /\ \A k \in DOMAIN elem[e] \ {l} : elem'[e][k] = elem[e][k]
           /\ \A d \in DOMAIN elem \ {e} : elem'[d] = elem[d]
<1>0. PICK w : w = With(elem[e], l, S)
    OBVIOUS
<1>1. /\ IsMap(w) /\ DOMAIN w = DOMAIN elem[e] \union {l} /\ w[l] = S
      /\ \A k \in DOMAIN elem[e] : w[k] = IF k = l THEN S ELSE elem[e][k]
    BY <1>0 DEF With, IsMap
<1>2. elem' = [elem EXCEPT ![e] = w]
    BY <1>0
<1>3. /\ DOMAIN elem' = DOMAIN elem /\ IsMap(elem') /\ elem'[e] = w
      /\ \A d \in DOMAIN elem : d # e => elem'[d] = elem[d]
    BY <1>2 DEF IsMap
<1>4. ListsTyped(e, elem'[e])
  <2>1. ListsTyped(e, elem[e])
      BY DEF Typed, ElementsTyped
  <2> QED BY <1>1, <1>3, <2>1 DEF ListsTyped
<1>5. ElementsTyped(elem')
    BY <1>3, <1>4 DEF Typed, ElementsTyped
<1> QED BY <1>1, <1>3, <1>5

\* An element with a list that changed.
LEMMA ListTyped ==
    ASSUME Typed, NEW e \in DOMAIN elem, NEW l \in DOMAIN elem[e], NEW S \in SUBSET Names(l),
           elem' = [elem EXCEPT ![e][l] = S]
    PROVE  /\ ElementsTyped(elem') /\ DOMAIN elem' = DOMAIN elem
           /\ DOMAIN elem'[e] = DOMAIN elem[e] /\ elem'[e][l] = S
           /\ \A k \in DOMAIN elem[e] : k # l => elem'[e][k] = elem[e][k]
           /\ \A d \in DOMAIN elem : d # e => elem'[d] = elem[d]
<1>0. ListsTyped(e, elem[e])
    BY DEF Typed, ElementsTyped
<1>1. /\ DOMAIN elem' = DOMAIN elem /\ IsMap(elem')
      /\ elem'[e] = [elem[e] EXCEPT ![l] = S]
      /\ \A d \in DOMAIN elem : d # e => elem'[d] = elem[d]
    BY DEF Typed, ElementsTyped, IsMap
<1>2. /\ DOMAIN elem'[e] = DOMAIN elem[e] /\ elem'[e][l] = S /\ IsMap(elem'[e])
      /\ \A k \in DOMAIN elem[e] : k # l => elem'[e][k] = elem[e][k]
    BY <1>0, <1>1 DEF ListsTyped, IsMap
<1>3. ListsTyped(e, elem'[e])
    BY <1>0, <1>2 DEF ListsTyped
<1>4. ElementsTyped(elem')
    BY <1>1, <1>3 DEF Typed, ElementsTyped
<1> QED BY <1>1, <1>2, <1>4

\* A name taken out of a container: at most its own element is disposed of.
LEMMA TakenOutTyped ==
    ASSUME Typed, NEW c \in Container, NEW n \in DOMAIN top[c], NEW now,
           ElementsTyped(now), DOMAIN now = DOMAIN elem, TakenOut(c, n, now)
    PROVE  /\ ElementsTyped(elem') /\ MapsTyped(top', DOMAIN elem')
           /\ DOMAIN elem' \subseteq DOMAIN elem
           /\ \A e \in DOMAIN elem' : elem'[e] = now[e]
           /\ DOMAIN top'[c] = DOMAIN top[c] \ {n}
           /\ \A k \in DOMAIN top'[c] : top'[c][k] = top[c][k]
           /\ \A d \in Container : d # c => top'[d] = top[d]
<1> DEFINE S == DOMAIN now \ {top[c][n]}
<1>1. elem' = now \/ elem' = Restrict(now, S)
    BY DEF TakenOut
<1>2. S \subseteq DOMAIN now
    OBVIOUS
<1>3. /\ ElementsTyped(elem') /\ DOMAIN elem' \subseteq DOMAIN elem
      /\ S \subseteq DOMAIN elem'
      /\ \A e \in DOMAIN elem' : elem'[e] = now[e]
  <2>1. CASE elem' = now
      BY <2>1
  <2>2. CASE elem' = Restrict(now, S)
    <3> HIDE DEF S
    <3>1. DOMAIN elem' = S /\ \A e \in S : elem'[e] = now[e]
        BY <2>2, RestrictFacts
    <3> QED BY <1>2, <2>2, <3>1, ElementsStay
  <2> QED BY <1>1, <2>1, <2>2
<1>4. /\ top' = [d \in Container |-> top'[d]]
      /\ top'[c] = Restrict(top[c], DOMAIN top[c] \ {n})
      /\ \A d \in Container : d # c => top'[d] = top[d]
    BY DEF TakenOut, Typed, MapsTyped
<1>5. /\ IsMap(top'[c]) /\ DOMAIN top'[c] = DOMAIN top[c] \ {n}
      /\ \A k \in DOMAIN top'[c] : top'[c][k] = top[c][k]
    BY <1>4, RestrictFacts
<1>6. ASSUME NEW d \in Container PROVE MapTyped(d, top'[d], DOMAIN elem')
  <2>1. MapTyped(d, top[d], DOMAIN elem)
      BY DEF Typed, MapsTyped
  <2>2. \A k \in DOMAIN top[d] :
          (d # c \/ k # n) /\ top[d][k] # NoElement => top[d][k] \in DOMAIN elem'
    <3>1. SUFFICES ASSUME NEW k \in DOMAIN top[d], d # c \/ k # n, top[d][k] # NoElement
                   PROVE  top[d][k] \in S
        BY <1>3
    <3>2. top[d][k] \in DOMAIN elem
        BY <2>1, <3>1 DEF MapTyped
    <3> QED BY <3>1, <3>2, OwnElement
  <2>3. CASE d # c
      BY <1>4, <2>1, <2>2, <2>3, MapStays
  <2>4. CASE d = c
      BY <1>5, <2>1, <2>2, <2>4 DEF MapTyped
  <2> QED BY <2>3, <2>4
<1> QED BY <1>3, <1>4, <1>5, <1>6 DEF MapsTyped

\* The users loaded are elements of users.
LEMMA ActiveUserFacts ==
    ASSUME Typed, NEW e \in ActiveUsers
    PROVE  e \in DOMAIN elem /\ Name(e) \in User /\ Lists(e) = {"groups"}
<1>1. PICK u \in DOMAIN top["users"] : top["users"][u] = e
    BY DEF ActiveUsers
<1>2. e \in DOMAIN elem /\ e # NoElement
    BY NoElementAssumption DEF ActiveUsers, Typed, ElementsTyped, Role
<1>3. MapTyped("users", top["users"], DOMAIN elem)
    BY DEF Typed, MapsTyped, Container
<1>4. Name(e) = u /\ u \in User
    BY <1>1, <1>2, <1>3 DEF MapTyped, Names
<1> QED BY <1>2, <1>4 DEF Lists

\* The groups a loaded user has after the DROP: those it had, those in the
\* database, or none.
LEMMA GroupsOfFacts ==
    ASSUME NEW e \in ActiveUsers, NEW failed
    PROVE  /\ Loaded(e, "groups") => GroupsOf(e, failed) = elem[e]["groups"]
           /\ ~Loaded(e, "groups") /\ e \in failed => GroupsOf(e, failed) = {}
           /\ ~Loaded(e, "groups") /\ e \notin failed
                => GroupsOf(e, failed) = Members(e, "groups", granted')
<1>1. e \in Unread <=> ~Loaded(e, "groups")
    BY DEF Unread
<1>2. CASE e \notin Unread
    BY <1>1, <1>2 DEF GroupsOf
<1>3. CASE e \in Unread /\ e \in failed
    BY <1>1, <1>3 DEF GroupsOf
<1>4. CASE e \in Unread /\ e \notin failed
    BY <1>1, <1>4 DEF GroupsOf
<1> QED BY <1>1, <1>2, <1>3, <1>4

\* A group taken from the loaded users.
LEMMA RoleRemovedTyped ==
    ASSUME Typed, NEW n, NEW failed, NEW now, now = RoleRemoved(n, failed)
    PROVE  /\ ElementsTyped(now) /\ DOMAIN now = DOMAIN elem
           /\ \A e \in ActiveUsers :
                /\ DOMAIN now[e] = {"groups"}
                /\ now[e]["groups"] = GroupsOf(e, failed) \ {n}
           /\ \A e \in DOMAIN elem \ ActiveUsers : now[e] = elem[e]
<1>1. /\ DOMAIN now = DOMAIN elem /\ IsMap(now)
      /\ \A e \in DOMAIN elem \ ActiveUsers : now[e] = elem[e]
    BY DEF RoleRemoved, IsMap
<1>2. \A e \in ActiveUsers : now[e] = [l \in {"groups"} |-> GroupsOf(e, failed) \ {n}]
    BY ActiveUserFacts DEF RoleRemoved
<1>3. \A e \in ActiveUsers :
        /\ DOMAIN now[e] = {"groups"} /\ IsMap(now[e])
        /\ now[e]["groups"] = GroupsOf(e, failed) \ {n}
    BY <1>2 DEF IsMap
<1>4. ASSUME NEW e \in ActiveUsers PROVE ListsTyped(e, now[e])
  <2>1. e \in DOMAIN elem /\ "groups" \in Lists(e) /\ ListsTyped(e, elem[e])
      BY ActiveUserFacts DEF Typed, ElementsTyped
  <2>2. GroupsOf(e, failed) \subseteq Names("groups")
      BY <2>1, GroupsOfFacts, MembersType DEF ListsTyped, Loaded
  <2>3. now[e]["groups"] \subseteq Names("groups")
      BY <1>3, <2>2
  <2> QED BY <1>3, <2>1, <2>3 DEF ListsTyped
<1>5. ElementsTyped(now)
    BY <1>1, <1>4 DEF Typed, ElementsTyped
<1> QED BY <1>1, <1>3, <1>5

\* A container read again: its elements are disposed of, those of the other one
\* stay with their names.
LEMMA RefreshTyped ==
    ASSUME Typed, NEW c \in Container, NEW failed, Refresh(c, failed)
    PROVE  /\ ElementsTyped(elem') /\ MapsTyped(top', DOMAIN elem')
           /\ DOMAIN elem' \subseteq DOMAIN elem
           /\ \A e \in DOMAIN elem' : elem'[e] = elem[e]
           /\ \A d \in Container :
                DOMAIN top'[d] = (IF d = c THEN {} ELSE DOMAIN top[d]) \union Found(d, failed)
           /\ \A n \in DOMAIN top'[c] : top'[c][n] = NoElement
           /\ \A d \in Container \ {c} : \A n \in DOMAIN top'[d] :
                top'[d][n] = IF n \in DOMAIN top[d] THEN top[d][n] ELSE NoElement
<1> DEFINE S == DOMAIN elem \ Range(top[c])
<1>1. elem' = Restrict(elem, S) /\ top' = Refilled(c, failed) /\ S \subseteq DOMAIN elem
    BY DEF Refresh
<1>2. ASSUME NEW d \in Container, d # c, NEW n \in DOMAIN top[d], top[d][n] # NoElement
      PROVE  top[d][n] \in S
  <2>1. top[d][n] \in DOMAIN elem
      BY <1>2 DEF Typed, MapsTyped, MapTyped
  <2>2. \A k \in DOMAIN top[c] : top[c][k] # top[d][n]
      BY <1>2, OwnElement
  <2> QED BY <2>1, <2>2 DEF Range
<1> HIDE DEF S
<1>3. /\ ElementsTyped(elem') /\ DOMAIN elem' = S
      /\ \A e \in DOMAIN elem' : elem'[e] = elem[e]
    BY <1>1, RestrictFacts, ElementsStay DEF Typed
<1>4. /\ top' = [d \in Container |-> top'[d]]
      /\ \A d \in Container : top'[d] =
           [n \in (IF d = c THEN {} ELSE DOMAIN top[d]) \union Found(d, failed) |->
              IF n \in (IF d = c THEN {} ELSE DOMAIN top[d]) THEN top[d][n] ELSE NoElement]
    BY <1>1 DEF Refilled
<1>5. ASSUME NEW d \in Container
      PROVE  /\ IsMap(top'[d])
             /\ DOMAIN top'[d] = (IF d = c THEN {} ELSE DOMAIN top[d]) \union Found(d, failed)
             /\ d = c => \A n \in DOMAIN top'[d] : top'[d][n] = NoElement
             /\ d # c => \A n \in DOMAIN top'[d] :
                  top'[d][n] = IF n \in DOMAIN top[d] THEN top[d][n] ELSE NoElement
    BY <1>4, ZenonT(30) DEF IsMap
<1>6. ASSUME NEW d \in Container PROVE MapTyped(d, top'[d], DOMAIN elem')
  <2>1. MapTyped(d, top[d], DOMAIN elem) /\ Found(d, failed) \subseteq Names(d)
      BY DEF Typed, MapsTyped, Found
  <2>2. CASE d = c
      BY <1>5, <2>1, <2>2 DEF MapTyped
  <2>3. CASE d # c
      BY <1>2, <1>3, <1>5, <2>1, <2>3 DEF MapTyped
  <2> QED BY <2>2, <2>3
<1> QED BY <1>1, <1>3, <1>4, <1>5, <1>6 DEF MapsTyped

\* A new element under its name in its container.
LEMMA NewElementTyped ==
    ASSUME Typed, NEW c \in Container, NEW n \in Names(c), Create(n),
           \/ n \in DOMAIN top[c] /\ top' = [top EXCEPT ![c][n] = NextElement(n)]
           \/ top' = [top EXCEPT ![c] = With(@, n, NextElement(n))]
    PROVE  /\ MapsTyped(top', DOMAIN elem')
           /\ DOMAIN top'[c] = DOMAIN top[c] \union {n}
           /\ top'[c][n] = NextElement(n)
           /\ \A k \in DOMAIN top[c] : k # n => top'[c][k] = top[c][k]
           /\ \A d \in Container : d # c => top'[d] = top[d]
<1>0. n \in Role
    BY DEF Names, Role
<1>1. /\ top' = [d \in Container |-> top'[d]]
      /\ \A d \in Container : d # c => top'[d] = top[d]
    BY DEF Typed, MapsTyped
<1>2. /\ IsMap(top'[c]) /\ DOMAIN top'[c] = DOMAIN top[c] \union {n}
      /\ top'[c][n] = NextElement(n)
      /\ \A k \in DOMAIN top[c] : k # n => top'[c][k] = top[c][k]
  <2>1. CASE n \in DOMAIN top[c] /\ top' = [top EXCEPT ![c][n] = NextElement(n)]
    <3>1. top'[c] = [top[c] EXCEPT ![n] = NextElement(n)]
        BY <2>1 DEF Typed, MapsTyped
    <3>2. IsMap(top[c])
        BY DEF Typed, MapsTyped, MapTyped
    <3> QED BY <2>1, <3>1, <3>2 DEF IsMap
  <2>2. CASE top' = [top EXCEPT ![c] = With(@, n, NextElement(n))]
    <3>1. top'[c] = With(top[c], n, NextElement(n))
        BY <2>2 DEF Typed, MapsTyped
    <3> QED BY <3>1 DEF With, IsMap
  <2> QED BY <2>1, <2>2
<1>3. /\ DOMAIN elem' = DOMAIN elem \union {NextElement(n)}
      /\ Name(NextElement(n)) = n
    BY <1>0, CreateTyped
<1>4. ASSUME NEW d \in Container PROVE MapTyped(d, top'[d], DOMAIN elem')
  <2>1. MapTyped(d, top[d], DOMAIN elem)
      BY DEF Typed, MapsTyped
  <2>2. CASE d # c
      BY <1>1, <1>3, <2>1, <2>2, MapStays DEF MapTyped
  <2>3. CASE d = c
      BY <1>2, <1>3, <2>1, <2>3 DEF MapTyped
  <2> QED BY <2>2, <2>3
<1> QED BY <1>1, <1>2, <1>4 DEF MapsTyped

\* A grant the database accepts is of two roles it has.
LEMMA AcceptedType ==
    ASSUME Typed, NEW g, g[1] \in Role, g[2] \in Role, g = <<g[1], g[2]>>, Accepts(g)
    PROVE  g \in (exists \cap Group) \X exists
BY DEF Accepts

\* A grant of a list is a pair of roles.
LEMMA GrantType ==
    ASSUME Typed, NEW e \in DOMAIN elem, NEW l \in Container, NEW n \in Names(l)
    PROVE  /\ Grant(e, l, n) \in Role \X Role
           /\ n \in {Grant(e, l, n)[1], Grant(e, l, n)[2]}
<1>1. Name(e) \in Role /\ n \in Role
    BY DEF Typed, ElementsTyped, Name, Names, Role
<1> QED BY <1>1 DEF Grant

\* Every call and every change of another session keeps the types.
LEMMA TypedStep == Typed /\ [Next]_vars => Typed'
<1> SUFFICES ASSUME Typed, [Next]_vars PROVE Typed'
    OBVIOUS
<1> USE DEF database
<1>1. ASSUME NEW c \in Container, NEW failed, Refresh(c, failed) PROVE Typed'
    BY <1>1, RefreshTyped DEF Typed, Refresh
<1>2. ASSUME NEW c \in Container, NEW n \in Names(c), Get(c, n) PROVE Typed'
  <2>1. n \in Role
      BY DEF Names, Role
  <2> QED BY <1>2, <2>1, CreateTyped, NewElementTyped DEF Typed, Get
<1>3. ASSUME NEW c \in Container, NEW n \in Names(c), CreateRole(c, n) PROVE Typed'
  <2>1. n \in Role
      BY DEF Names, Role
  <2>2. exists' = exists \union {n} /\ granted' = granted
      BY <1>3 DEF CreateRole
  <2>3. exists' \subseteq Role /\ granted' \subseteq (exists' \cap Group) \X exists'
      BY <2>1, <2>2 DEF Typed
  <2> QED BY <1>3, <2>1, <2>3, CreateTyped, NewElementTyped DEF Typed, CreateRole
<1>4. ASSUME NEW e \in DOMAIN elem, NEW l \in Container, Load(e, l) PROVE Typed'
  <2>1. PICK S \in SUBSET Names(l) : elem' = [elem EXCEPT ![e] = With(@, l, S)]
      BY <1>4, MembersType DEF Load
  <2>2. ElementsTyped(elem') /\ DOMAIN elem' = DOMAIN elem
      BY <1>4, <2>1, LoadTyped DEF Load
  <2> QED BY <1>4, <2>2 DEF Typed, Load
<1>5. ASSUME NEW e \in DOMAIN elem, NEW l \in Container, NEW n \in Names(l), AppendMember(e, l, n)
      PROVE  Typed'
  <2>1. l \in DOMAIN elem[e] /\ elem[e][l] \subseteq Names(l)
      BY <1>5 DEF AppendMember, Loaded, Typed, ElementsTyped, ListsTyped
  <2>2. PICK S \in SUBSET Names(l) : elem' = [elem EXCEPT ![e][l] = S]
      BY <1>5, <2>1 DEF AppendMember
  <2>3. ElementsTyped(elem') /\ DOMAIN elem' = DOMAIN elem
      BY <2>1, <2>2, ListTyped
  <2>4. Grant(e, l, n) \in (exists \cap Group) \X exists
      BY <1>5, GrantType, AcceptedType DEF AppendMember, Granting
  <2> QED BY <1>5, <2>3, <2>4 DEF Typed, AppendMember, Granting
<1>6. ASSUME NEW e \in DOMAIN elem, NEW l \in Container, NEW n \in Names(l), DropMember(e, l, n)
      PROVE  Typed'
  <2>1. l \in DOMAIN elem[e] /\ elem[e][l] \subseteq Names(l)
      BY <1>6 DEF DropMember, Loaded, Typed, ElementsTyped, ListsTyped
  <2>2. CASE n \in DOMAIN top[l]
    <3>1. PICK S \in SUBSET Names(l) : elem' = [elem EXCEPT ![e][l] = S]
        BY <1>6, <2>1, <2>2 DEF DropMember
    <3>2. ElementsTyped(elem') /\ DOMAIN elem' = DOMAIN elem
        BY <2>1, <3>1, ListTyped
    <3> QED BY <1>6, <3>2 DEF Typed, DropMember
  <2>3. CASE n \notin DOMAIN top[l]
      BY <1>6, <2>3 DEF Typed, DropMember
  <2> QED BY <2>2, <2>3
<1>7. ASSUME NEW n, DroppedFromDatabase(n)
      PROVE  exists' \subseteq Role /\ granted' \subseteq (exists' \cap Group) \X exists'
  <2>1. \A g \in granted : g[1] # n /\ g[2] # n => g \in (exists' \cap Group) \X exists'
      BY <1>7 DEF DroppedFromDatabase, Typed
  <2> QED BY <1>7, <2>1 DEF DroppedFromDatabase, Typed
<1>8. ASSUME NEW n \in User, DropUser(n) PROVE Typed'
  <2>1. ElementsTyped(elem') /\ MapsTyped(top', DOMAIN elem')
      BY <1>8, TakenOutTyped DEF DropUser, Typed, Container
  <2> QED BY <1>7, <1>8, <2>1 DEF Typed, DropUser
<1>9. ASSUME NEW n \in Group, NEW failed, DropGroup(n, failed) PROVE Typed'
  <2>1. ElementsTyped(RoleRemoved(n, failed)) /\ DOMAIN RoleRemoved(n, failed) = DOMAIN elem
      BY RoleRemovedTyped
  <2>2. ElementsTyped(elem') /\ MapsTyped(top', DOMAIN elem')
      BY <1>9, <2>1, TakenOutTyped DEF DropGroup, Container
  <2> QED BY <1>7, <1>9, <2>2 DEF Typed, DropGroup
<1>10. CASE OtherSession
  <2>1. elem' = elem /\ top' = top
      BY <1>10 DEF OtherSession
  <2>2. CASE \E n \in Role \ exists : exists' = exists \union {n} /\ UNCHANGED granted
      BY <2>1, <2>2 DEF Typed
  <2>3. CASE \E n \in Role : DroppedFromDatabase(n)
      BY <1>7, <2>1, <2>3 DEF Typed
  <2>4. CASE \E grant \in Group \X Role :
               Accepts(grant) /\ granted' = granted \union {grant} /\ UNCHANGED exists
    <3>1. PICK grant \in Group \X Role :
            Accepts(grant) /\ granted' = granted \union {grant} /\ UNCHANGED exists
        BY <2>4
    <3>2. grant \in (exists \cap Group) \X exists
        BY <3>1 DEF Accepts
    <3> QED BY <2>1, <3>1, <3>2 DEF Typed
  <2>5. CASE \E grant \in granted : granted' = granted \ {grant} /\ UNCHANGED exists
      BY <2>1, <2>5 DEF Typed
  <2> QED BY <1>10, <2>2, <2>3, <2>4, <2>5 DEF OtherSession
<1>11. CASE UNCHANGED vars
    BY <1>11 DEF Typed, vars
<1> QED BY <1>1, <1>2, <1>3, <1>4, <1>5, <1>6, <1>8, <1>9, <1>10, <1>11 DEF Next

\* The types hold in every reachable state.
THEOREM TypedInvariant == Spec => []Typed
<1>1. Typed /\ [Next]_vars => Typed'
    BY TypedStep
<1> QED BY InitTyped, <1>1, PTL DEF Spec

(* Grants are of roles there are, the elements are under their own names,   *)
(* and none that is handed out is disposed of.                              *)
THEOREM TypeCorrect == Spec => []TypeOK
<1>1. Typed => TypeOK
    BY DEF Typed, TypeOK, ElementsTyped, MapsTyped, MapTyped, ListsTyped
<1> QED BY <1>1, TypedInvariant, PTL

--------------------------------------------------------------------------------
(* The names of the containers. *)

\* A name dropped leaves its container and the database.
LEMMA DropListsTheRoles ==
    ASSUME Typed, ListsTheRoles, NEW c \in Container, NEW n \in DOMAIN top[c], NEW now,
           ElementsTyped(now), DOMAIN now = DOMAIN elem, TakenOut(c, n, now),
           DroppedFromDatabase(n), outside' = outside
    PROVE  ListsTheRoles'
<1>1. /\ DOMAIN top'[c] = DOMAIN top[c] \ {n}
      /\ \A d \in Container : d # c => top'[d] = top[d]
    BY TakenOutTyped
<1>2. exists' = exists \ {n} /\ n \in Names(c)
    BY DEF DroppedFromDatabase, Typed, MapsTyped, MapTyped
<1>3. \A d \in Container : d # c => n \notin Names(d)
    BY <1>2, RolesAssumption DEF Names, Container
<1> QED BY <1>1, <1>2, <1>3 DEF ListsTheRoles

\* The containers keep listing the roles of the database.
LEMMA RolesStep == Typed /\ ListsTheRoles /\ [Next]_vars => ListsTheRoles'
<1> SUFFICES ASSUME Typed, ListsTheRoles, [Next]_vars PROVE ListsTheRoles'
    OBVIOUS
<1> USE DEF database
<1>1. ASSUME NEW c \in Container, NEW failed \in SUBSET Container, Refresh(c, failed)
      PROVE  ListsTheRoles'
  <2>1. \A d \in Container :
          DOMAIN top'[d] = (IF d = c THEN {} ELSE DOMAIN top[d]) \union Found(d, failed)
      BY <1>1, RefreshTyped
  <2>2. exists' = exists /\ outside' = outside \union UNION {Names(x) : x \in failed}
      BY <1>1 DEF Refresh
  <2>3. ASSUME NEW d \in Container, NEW n \in Names(d) \ outside'
        PROVE  n \in DOMAIN top'[d] <=> n \in exists'
    <3>1. d \notin failed /\ n \notin outside
        BY <2>2, <2>3
    <3>2. Found(d, failed) = exists \cap Names(d)
        BY <3>1 DEF Found
    <3>3. n \in DOMAIN top[d] <=> n \in exists
        BY <2>3, <3>1 DEF ListsTheRoles
    <3> QED BY <2>1, <2>2, <3>2, <3>3
  <2> QED BY <2>3 DEF ListsTheRoles
<1>2. ASSUME NEW c \in Container, NEW n \in Names(c), Get(c, n) PROVE ListsTheRoles'
  <2>1. /\ DOMAIN top'[c] = DOMAIN top[c] \union {n} /\ n \in DOMAIN top[c]
        /\ \A d \in Container : d # c => top'[d] = top[d]
      BY <1>2, NewElementTyped DEF Get
  <2> QED BY <1>2, <2>1 DEF Get, ListsTheRoles
<1>3. ASSUME NEW c \in Container, NEW n \in Names(c), CreateRole(c, n) PROVE ListsTheRoles'
  <2>1. /\ DOMAIN top'[c] = DOMAIN top[c] \union {n}
        /\ \A d \in Container : d # c => top'[d] = top[d]
      BY <1>3, NewElementTyped DEF CreateRole
  <2>2. \A d \in Container : d # c => n \notin Names(d)
      BY <1>3, RolesAssumption DEF Names, Container
  <2> QED BY <1>3, <2>1, <2>2 DEF CreateRole, ListsTheRoles
<1>4. CASE UNCHANGED <<exists, top, outside>>
    BY <1>4 DEF ListsTheRoles
<1>5. ASSUME NEW n \in User, DropUser(n) PROVE ListsTheRoles'
  <2>1. n \in DOMAIN top["users"] /\ DroppedFromDatabase(n) /\ TakenOut("users", n, elem)
        /\ outside' = outside /\ ElementsTyped(elem)
      BY <1>5 DEF DropUser, Typed
  <2> QED BY <2>1, DropListsTheRoles DEF Container
<1>6. ASSUME NEW n \in Group, NEW failed, DropGroup(n, failed) PROVE ListsTheRoles'
  <2>1. n \in DOMAIN top["groups"] /\ DroppedFromDatabase(n)
        /\ TakenOut("groups", n, RoleRemoved(n, failed)) /\ outside' = outside
      BY <1>6 DEF DropGroup
  <2>2. ElementsTyped(RoleRemoved(n, failed)) /\ DOMAIN RoleRemoved(n, failed) = DOMAIN elem
      BY RoleRemovedTyped
  <2> QED BY <2>1, <2>2, DropListsTheRoles DEF Container
<1>7. CASE OtherSession
  <2>1. top' = top /\ outside \subseteq outside'
      BY <1>7 DEF OtherSession
  <2>2. \A n \in Role \ outside' : n \in exists' <=> n \in exists
      BY <1>7 DEF OtherSession, DroppedFromDatabase
  <2>3. \A c \in Container : Names(c) \subseteq Role
      BY DEF Names, Role
  <2> QED BY <2>1, <2>2, <2>3 DEF ListsTheRoles
<1> QED BY <1>1, <1>2, <1>3, <1>4, <1>5, <1>6, <1>7, ZenonT(30)
        DEF Next, vars, Load, AppendMember, DropMember

--------------------------------------------------------------------------------
(* The lists of members. *)

\* A list keeps saying what the database has: where an entry is not of the own
\* ones, what became of its grant is in the history when it changed.
LEMMA TrackShows ==
    ASSUME Typed, ListsTheGrants, NEW own, Tracked(own) \subseteq behind', DOMAIN elem' \subseteq DOMAIN elem,
           NEW e \in DOMAIN elem', NEW l \in DOMAIN elem'[e], NEW n \in Names(l), l \in Container,
           <<e, l, n>> \notin own, <<e, l, n>> \notin behind',
           l \in DOMAIN elem[e], n \in elem'[e][l] <=> n \in elem[e][l]
    PROVE  n \in elem'[e][l] <=> Grant(e, l, n) \in granted'
<1>1. <<e, l, n>> \in (DOMAIN elem') \X Container \X Role
    BY DEF Names, Role
<1>2. <<e, l, n>> \notin behind
    BY <1>1 DEF Tracked
<1>3. (Grant(e, l, n) \in granted) = (Grant(e, l, n) \in granted')
    BY <1>1 DEF Tracked, Loaded
<1>4. n \in elem[e][l] <=> Grant(e, l, n) \in granted
    BY <1>2 DEF ListsTheGrants
<1> QED BY <1>3, <1>4

\* The lists of an element are the two there are.
LEMMA ListsAreContainers ==
    ASSUME Typed, NEW e \in DOMAIN elem, NEW l \in DOMAIN elem[e]
    PROVE  l \in Container /\ elem[e][l] \subseteq Names(l)
BY DEF Typed, ElementsTyped, ListsTyped, Lists, Container

\* Elements that stay as they are, whatever becomes of the database and of the
\* others.
LEMMA StayingShow ==
    ASSUME Typed, ListsTheGrants, Track({}), DOMAIN elem' \subseteq DOMAIN elem,
           \A e \in DOMAIN elem' : elem'[e] = elem[e]
    PROVE  ListsTheGrants'
<1>1. SUFFICES ASSUME NEW e \in DOMAIN elem', NEW l \in DOMAIN elem'[e], NEW n \in Names(l),
                      <<e, l, n>> \notin behind'
               PROVE  n \in elem'[e][l] <=> Grant(e, l, n) \in granted'
    BY DEF ListsTheGrants, Grant, Name
<1>2. e \in DOMAIN elem /\ l \in DOMAIN elem[e] /\ l \in Container
    BY ListsAreContainers
<1> QED BY <1>1, <1>2, TrackShows DEF Track

\* A list that appends or drops a name shows the grant it made or took back.
LEMMA ChangeShows ==
    ASSUME Typed, ListsTheGrants, NEW e \in DOMAIN elem, NEW l \in DOMAIN elem[e],
           NEW n \in Names(l), NEW S \in SUBSET Names(l), elem' = [elem EXCEPT ![e][l] = S],
           \A k \in Names(l) \ {n} : k \in S <=> k \in elem[e][l],
           n \in S <=> Grant(e, l, n) \in granted',
           Track({<<e, l, n>>})
    PROVE  ListsTheGrants'
<1>1. /\ DOMAIN elem' = DOMAIN elem
      /\ DOMAIN elem'[e] = DOMAIN elem[e] /\ elem'[e][l] = S
      /\ \A k \in DOMAIN elem[e] : k # l => elem'[e][k] = elem[e][k]
      /\ \A d \in DOMAIN elem : d # e => elem'[d] = elem[d]
    BY ListTyped
<1>2. SUFFICES ASSUME NEW d \in DOMAIN elem', NEW k \in DOMAIN elem'[d], NEW m \in Names(k),
                      <<d, k, m>> \notin behind'
               PROVE  m \in elem'[d][k] <=> Grant(d, k, m) \in granted'
    BY DEF ListsTheGrants, Grant, Name
<1>3. d \in DOMAIN elem /\ k \in DOMAIN elem[d] /\ k \in Container
    BY <1>1, ListsAreContainers
<1>4. CASE <<d, k, m>> = <<e, l, n>>
    BY <1>1, <1>4
<1>5. CASE <<d, k, m>> # <<e, l, n>>
  <2>1. m \in elem'[d][k] <=> m \in elem[d][k]
      BY <1>1, <1>3, <1>5
  <2>2. Tracked({<<e, l, n>>}) \subseteq behind' /\ <<d, k, m>> \notin {<<e, l, n>>}
      BY <1>5 DEF Track
  <2> QED BY <1>1, <1>2, <1>3, <2>1, <2>2, TrackShows
<1> QED BY <1>4, <1>5

\* The users who lose a group show the grants that are left, whether they had
\* loaded their groups or not; what a query that failed did not find is noted.
LEMMA RoleRemovedShows ==
    ASSUME Typed, ListsTheGrants, NEW n \in Group, NEW failed, DropGroup(n, failed)
    PROVE  ListsTheGrants'
<1> DEFINE own == {<<e, "groups", n>> : e \in ActiveUsers}
<1>1. /\ n \in DOMAIN top["groups"] /\ TakenOut("groups", n, RoleRemoved(n, failed))
      /\ granted' = {g \in granted : g[1] # n /\ g[2] # n} /\ Tracked(own) \subseteq behind'
      /\ {v \in failed \X {"groups"} \X Group : Grant(v[1], v[2], v[3]) \in granted'} \subseteq behind'
    BY DEF DropGroup, DroppedFromDatabase
<1>2. PICK now : now = RoleRemoved(n, failed)
    OBVIOUS
<1>3. /\ ElementsTyped(now) /\ DOMAIN now = DOMAIN elem
      /\ \A e \in ActiveUsers :
           /\ DOMAIN now[e] = {"groups"}
           /\ now[e]["groups"] = GroupsOf(e, failed) \ {n}
      /\ \A e \in DOMAIN elem \ ActiveUsers : now[e] = elem[e]
    BY <1>2, RoleRemovedTyped
<1>4. DOMAIN elem' \subseteq DOMAIN elem /\ \A e \in DOMAIN elem' : elem'[e] = now[e]
    BY <1>1, <1>2, <1>3, TakenOutTyped DEF Container
<1>5. SUFFICES ASSUME NEW e \in DOMAIN elem', NEW l \in DOMAIN elem'[e], NEW m \in Names(l),
                      <<e, l, m>> \notin behind'
               PROVE  m \in elem'[e][l] <=> Grant(e, l, m) \in granted'
    BY DEF ListsTheGrants, Grant, Name
<1>6. CASE e \notin ActiveUsers
  <2>1. elem'[e] = elem[e] /\ l \in DOMAIN elem[e] /\ l \in Container
      BY <1>3, <1>4, <1>6, ListsAreContainers
  <2>2. <<e, l, m>> \notin own
      BY <1>6
  <2> HIDE DEF own
  <2> QED BY <1>1, <1>4, <1>5, <2>1, <2>2, TrackShows
<1>7. CASE e \in ActiveUsers
  <2>1. /\ l = "groups" /\ e \in DOMAIN elem /\ Name(e) \in User
        /\ elem'[e][l] = GroupsOf(e, failed) \ {n}
      BY <1>3, <1>4, <1>7, ActiveUserFacts
  <2>2. Grant(e, l, m) = <<m, Name(e)>>
      BY <2>1 DEF Grant
  <2>3. CASE m = n
      BY <1>1, <2>1, <2>2, <2>3
  <2>4. CASE m # n /\ ~Loaded(e, l) /\ e \notin failed
    <3>1. elem'[e][l] = Members(e, l, granted') \ {n}
        BY <1>7, <2>1, <2>4, GroupsOfFacts
    <3> QED BY <1>5, <2>1, <2>4, <3>1 DEF Members
  <2>5. CASE m # n /\ ~Loaded(e, l) /\ e \in failed
    <3>1. m \notin elem'[e][l]
        BY <1>7, <2>1, <2>5, GroupsOfFacts
    <3>2. Grant(e, l, m) \notin granted'
      <4>1. <<e, l, m>> \in failed \X {"groups"} \X Group
          BY <1>5, <2>1, <2>5 DEF Names
      <4> QED BY <1>1, <1>5, <4>1
    <3> QED BY <3>1, <3>2
  <2>6. CASE m # n /\ Loaded(e, l)
    <3>1. m \in elem'[e][l] <=> m \in elem[e][l]
        BY <1>7, <2>1, <2>6, GroupsOfFacts
    <3>2. <<e, l, m>> \notin own /\ l \in DOMAIN elem[e] /\ l \in Container
        BY <2>1, <2>6 DEF Loaded, Container
    <3> HIDE DEF own
    <3> QED BY <1>1, <1>4, <1>5, <3>1, <3>2, TrackShows
  <2> QED BY <2>3, <2>4, <2>5, <2>6
<1> QED BY <1>6, <1>7

\* The lists keep showing the grants.
LEMMA GrantsStep == Typed /\ ListsTheGrants /\ [Next]_vars => ListsTheGrants'
<1> SUFFICES ASSUME Typed, ListsTheGrants, [Next]_vars PROVE ListsTheGrants'
    OBVIOUS
<1> USE DEF database
<1>1. ASSUME NEW c \in Container, NEW failed, Refresh(c, failed) PROVE ListsTheGrants'
    BY <1>1, RefreshTyped, StayingShow DEF Refresh
<1>2. ASSUME NEW c \in Container, NEW n \in Names(c), Get(c, n) \/ CreateRole(c, n)
      PROVE  ListsTheGrants'
  <2>1. n \in Role /\ Create(n) /\ granted' = granted /\ behind' = behind
      BY <1>2 DEF Names, Role, Get, CreateRole
  <2>2. /\ DOMAIN elem' = DOMAIN elem \union {NextElement(n)}
        /\ DOMAIN elem'[NextElement(n)] = {}
        /\ \A e \in DOMAIN elem : elem'[e] = elem[e]
      BY <2>1, CreateTyped DEF NoLists
  <2> QED BY <2>1, <2>2 DEF ListsTheGrants
<1>3. ASSUME NEW e \in DOMAIN elem, NEW l \in Container, Load(e, l) PROVE ListsTheGrants'
  <2>1. PICK S \in SUBSET Names(l) :
          /\ elem' = [elem EXCEPT ![e] = With(@, l, S)]
          /\ S \subseteq Members(e, l, granted) /\ behind \subseteq behind'
          /\ \A n \in Members(e, l, granted) \ S : <<e, l, n>> \in behind'
      BY <1>3, MembersType DEF Load
  <2>2. l \in Lists(e) /\ granted' = granted
      BY <1>3 DEF Load
  <2>3. /\ ElementsTyped(elem') /\ DOMAIN elem' = DOMAIN elem
        /\ DOMAIN elem'[e] = DOMAIN elem[e] \union {l} /\ elem'[e][l] = S
        /\ \A k \in DOMAIN elem[e] \ {l} : elem'[e][k] = elem[e][k]
        /\ \A d \in DOMAIN elem \ {e} : elem'[d] = elem[d]
      BY <2>1, <2>2, LoadTyped
  <2>4. SUFFICES ASSUME NEW d \in DOMAIN elem', NEW k \in DOMAIN elem'[d], NEW m \in Names(k),
                        <<d, k, m>> \notin behind'
                 PROVE  m \in elem'[d][k] <=> Grant(d, k, m) \in granted'
      BY DEF ListsTheGrants, Grant, Name
  <2>5. CASE d = e /\ k = l
    <3>1. Grant(e, l, m) \in granted <=> m \in Members(e, l, granted)
        BY <2>4, <2>5 DEF Members
    <3>2. m \in Members(e, l, granted) => m \in S
        BY <2>1, <2>4, <2>5
    <3>3. m \in S => m \in Members(e, l, granted)
        BY <2>1
    <3> QED BY <2>2, <2>3, <2>5, <3>1, <3>2, <3>3
  <2>6. CASE ~(d = e /\ k = l)
      BY <2>1, <2>2, <2>3, <2>4, <2>6 DEF ListsTheGrants
  <2> QED BY <2>5, <2>6
<1>4. ASSUME NEW e \in DOMAIN elem, NEW l \in Container, NEW n \in Names(l), AppendMember(e, l, n)
      PROVE  ListsTheGrants'
  <2>1. l \in DOMAIN elem[e] /\ elem[e][l] \subseteq Names(l)
      BY <1>4, ListsAreContainers DEF AppendMember, Loaded
  <2>2. PICK S \in SUBSET Names(l) : S = elem[e][l] \union {n}
      BY <2>1
  <2>3. /\ elem' = [elem EXCEPT ![e][l] = S] /\ Track({<<e, l, n>>})
        /\ Grant(e, l, n) \in granted'
      BY <1>4, <2>2 DEF AppendMember, Granting
  <2> QED BY <2>1, <2>2, <2>3, ChangeShows
<1>5. ASSUME NEW e \in DOMAIN elem, NEW l \in Container, NEW n \in Names(l), DropMember(e, l, n)
      PROVE  ListsTheGrants'
  <2>1. /\ l \in DOMAIN elem[e] /\ elem[e][l] \subseteq Names(l)
        /\ Grant(e, l, n) \notin granted'
      BY <1>5, ListsAreContainers DEF DropMember, Loaded, Granting
  <2>2. CASE n \in DOMAIN top[l]
    <3>1. PICK S \in SUBSET Names(l) : S = elem[e][l] \ {n}
        BY <2>1
    <3>2. elem' = [elem EXCEPT ![e][l] = S] /\ Track({<<e, l, n>>})
        BY <1>5, <2>2, <3>1 DEF DropMember
    <3> QED BY <2>1, <3>1, <3>2, ChangeShows
  <2>3. CASE n \notin DOMAIN top[l]
      BY <1>5, <2>3, StayingShow DEF DropMember
  <2> QED BY <2>2, <2>3
<1>6. ASSUME NEW n \in User, DropUser(n) PROVE ListsTheGrants'
  <2>1. DOMAIN elem' \subseteq DOMAIN elem /\ \A e \in DOMAIN elem' : elem'[e] = elem[e]
      BY <1>6, TakenOutTyped DEF DropUser, Typed, Container
  <2> QED BY <1>6, <2>1, StayingShow DEF DropUser
<1>7. ASSUME NEW n \in Group, NEW failed, DropGroup(n, failed) PROVE ListsTheGrants'
    BY <1>7, RoleRemovedShows
<1>8. CASE OtherSession
    BY <1>8, StayingShow DEF OtherSession
<1>9. CASE UNCHANGED vars
    BY <1>9 DEF vars, ListsTheGrants
<1> QED BY <1>1, <1>2, <1>3, <1>4, <1>5, <1>6, <1>7, <1>8, <1>9 DEF Next

\* At first the containers have the roles of the database, and no list is loaded.
LEMMA InitShows == Init => ShowsTheDatabase
<1> SUFFICES ASSUME Init PROVE ShowsTheDatabase
    OBVIOUS
<1>1. \A c \in Container : DOMAIN top[c] = exists \cap Names(c)
    BY DEF Init
<1>2. DOMAIN elem = {}
    BY DEF Init
<1> QED BY <1>1, <1>2 DEF ShowsTheDatabase, ListsTheRoles, ListsTheGrants

(* The containers list the roles of the database and the lists show its     *)
(* grants, from both sides, apart from what was changed behind them.        *)
THEOREM ShowsTheDatabaseInvariant == Spec => []ShowsTheDatabase
<1>1. Typed /\ ShowsTheDatabase /\ [Next]_vars => ShowsTheDatabase'
    BY RolesStep, GrantsStep DEF ShowsTheDatabase
<1> QED BY InitShows, <1>1, TypedInvariant, PTL DEF Spec

--------------------------------------------------------------------------------
(* The groups that the driver has dropped. *)

\* A group of the database is in the container, unless another session made it
\* or a query failed.
LEMMA GroupsKnown ==
    ASSUME ListsTheRoles, NEW n \in exists \cap Group
    PROVE  n \in DOMAIN top["groups"] \union outside
BY DEF ListsTheRoles, Container, Names

\* A user is a member of groups of the database only.
LEMMA MembersKnown ==
    ASSUME Typed, ListsTheRoles, NEW e \in ActiveUsers
    PROVE  Members(e, "groups", granted) \subseteq DOMAIN top["groups"] \union outside
<1>1. \A n \in Members(e, "groups", granted) : n \in exists \cap Group
    BY ActiveUserFacts DEF Members, Grant, Typed
<1> QED BY <1>1, GroupsKnown

\* Users that stay loaded, with the lists they had or fewer names in them, while
\* no group is taken out of the container.
LEMMA StayingLeave ==
    ASSUME DroppedGroupLeavesUsers,
           ActiveUsers' \subseteq ActiveUsers,
           \A e \in ActiveUsers' : "groups" \in DOMAIN elem'[e] =>
             "groups" \in DOMAIN elem[e] /\ elem'[e]["groups"] \subseteq elem[e]["groups"],
           DOMAIN top["groups"] \subseteq DOMAIN top'["groups"], outside \subseteq outside'
    PROVE  DroppedGroupLeavesUsers'
BY DEF DroppedGroupLeavesUsers, Loaded

\* No user of the container is shown in a group the driver has dropped, step by
\* step.
LEMMA LeavesStep ==
    ASSUME Typed, ListsTheRoles, DroppedGroupLeavesUsers, [Next]_vars
    PROVE  DroppedGroupLeavesUsers'
<1> USE DEF database
<1>0. Typed' /\ ListsTheRoles'
    BY TypedStep, RolesStep
<1>1. ASSUME NEW c \in Container, NEW failed \in SUBSET Container, Refresh(c, failed)
      PROVE  DroppedGroupLeavesUsers'
  <2>1. /\ DOMAIN elem' \subseteq DOMAIN elem
        /\ \A e \in DOMAIN elem' : elem'[e] = elem[e]
        /\ \A n \in DOMAIN top'[c] : top'[c][n] = NoElement
        /\ \A d \in Container \ {c} : \A n \in DOMAIN top'[d] :
             top'[d][n] = IF n \in DOMAIN top[d] THEN top[d][n] ELSE NoElement
      BY <1>1, RefreshTyped
  <2>2. NoElement \notin DOMAIN elem'
      BY <1>0, NoElementAssumption DEF Typed, ElementsTyped, Role
  <2>3. CASE c = "users"
    <3>1. ActiveUsers' = {}
        BY <2>1, <2>2, <2>3 DEF ActiveUsers
    <3> QED BY <3>1 DEF DroppedGroupLeavesUsers
  <2>4. CASE c = "groups"
    <3>1. ActiveUsers' \subseteq ActiveUsers
        BY <2>1, <2>2, <2>4 DEF ActiveUsers, Container
    <3>2. exists' = exists /\ outside \subseteq outside'
        BY <1>1 DEF Refresh
    <3>3. ASSUME NEW n \in Group, n \in DOMAIN top["groups"] \union outside
          PROVE  n \in DOMAIN top'["groups"] \union outside'
        BY <1>0, <3>2, <3>3 DEF ListsTheRoles, Names, Container
    <3>4. \A e \in ActiveUsers' : "groups" \in DOMAIN elem'[e] =>
            elem'[e]["groups"] = elem[e]["groups"] /\ elem[e]["groups"] \subseteq Group
      <4>1. SUFFICES ASSUME NEW e \in ActiveUsers', "groups" \in DOMAIN elem'[e]
                     PROVE  /\ elem'[e]["groups"] = elem[e]["groups"]
                            /\ elem[e]["groups"] \subseteq Group
          OBVIOUS
      <4>2. e \in DOMAIN elem' /\ elem'[e] = elem[e] /\ e \in DOMAIN elem
          BY <2>1, <4>1 DEF ActiveUsers
      <4>3. elem[e]["groups"] \subseteq Names("groups")
          BY <4>1, <4>2, ListsAreContainers
      <4> QED BY <4>2, <4>3 DEF Names
    <3> QED BY <2>1, <3>1, <3>3, <3>4 DEF DroppedGroupLeavesUsers, Loaded, ActiveUsers
  <2> QED BY <2>3, <2>4 DEF Container
<1>2. ASSUME NEW c \in Container, NEW n \in Names(c), Get(c, n) \/ CreateRole(c, n)
      PROVE  DroppedGroupLeavesUsers'
  <2>1. n \in Role /\ Create(n) /\ outside' = outside
      BY <1>2 DEF Names, Role, Get, CreateRole
  <2>2. /\ DOMAIN elem' = DOMAIN elem \union {NextElement(n)}
        /\ DOMAIN elem'[NextElement(n)] = {}
        /\ \A e \in DOMAIN elem : elem'[e] = elem[e]
      BY <2>1, CreateTyped DEF NoLists
  <2>3. /\ DOMAIN top'[c] = DOMAIN top[c] \union {n}
        /\ top'[c][n] = NextElement(n)
        /\ \A k \in DOMAIN top[c] : k # n => top'[c][k] = top[c][k]
        /\ \A d \in Container : d # c => top'[d] = top[d]
    <3>1. CASE Get(c, n)
        BY <2>1, <3>1, NewElementTyped, ZenonT(30) DEF Get
    <3>2. CASE CreateRole(c, n)
        BY <2>1, <3>2, NewElementTyped DEF CreateRole
    <3> QED BY <1>2, <3>1, <3>2
  <2>4. ASSUME NEW e \in ActiveUsers' PROVE e = NextElement(n) \/ e \in ActiveUsers
    <3>1. PICK u \in DOMAIN top'["users"] : top'["users"][u] = e
        BY DEF ActiveUsers
    <3>2. e \in DOMAIN elem'
        BY DEF ActiveUsers
    <3>3. CASE c = "users" /\ u = n
        BY <2>3, <3>1, <3>3
    <3>4. CASE ~(c = "users" /\ u = n)
      <4>1. u \in DOMAIN top["users"] /\ top["users"][u] = e
          BY <2>3, <3>1, <3>4 DEF Container
      <4> QED BY <2>2, <3>2, <4>1 DEF ActiveUsers
    <3> QED BY <3>3, <3>4
  <2>5. DOMAIN top["groups"] \subseteq DOMAIN top'["groups"]
      BY <2>3 DEF Container
  <2>6. \A e \in ActiveUsers : e \in DOMAIN elem
      BY DEF ActiveUsers
  <2> QED BY <2>1, <2>2, <2>4, <2>5, <2>6 DEF DroppedGroupLeavesUsers, Loaded
<1>3. ASSUME NEW e \in DOMAIN elem, NEW l \in Container, Load(e, l)
      PROVE  DroppedGroupLeavesUsers'
  <2>1. PICK S \in SUBSET Names(l) :
          /\ elem' = [elem EXCEPT ![e] = With(@, l, S)]
          /\ S \subseteq Members(e, l, granted)
      BY <1>3, MembersType DEF Load
  <2>2. l \in Lists(e) /\ top' = top /\ outside' = outside
      BY <1>3 DEF Load
  <2>3. /\ ElementsTyped(elem') /\ DOMAIN elem' = DOMAIN elem
        /\ DOMAIN elem'[e] = DOMAIN elem[e] \union {l} /\ elem'[e][l] = S
        /\ \A k \in DOMAIN elem[e] \ {l} : elem'[e][k] = elem[e][k]
        /\ \A d \in DOMAIN elem \ {e} : elem'[d] = elem[d]
      BY <2>1, <2>2, LoadTyped
  <2>4. ActiveUsers' = ActiveUsers
      BY <2>2, <2>3 DEF ActiveUsers
  <2>5. ASSUME NEW d \in ActiveUsers, "groups" \in DOMAIN elem'[d]
        PROVE  elem'[d]["groups"] \subseteq DOMAIN top["groups"] \union outside
    <3>1. d \in DOMAIN elem
        BY DEF ActiveUsers
    <3>2. CASE d = e /\ l = "groups"
        BY <2>1, <2>3, <3>2, MembersKnown
    <3>3. CASE ~(d = e /\ l = "groups")
      <4>1. "groups" \in DOMAIN elem[d] /\ elem'[d]["groups"] = elem[d]["groups"]
          BY <2>3, <2>5, <3>1, <3>3
      <4> QED BY <4>1 DEF DroppedGroupLeavesUsers, Loaded
    <3> QED BY <3>2, <3>3
  <2> QED BY <2>2, <2>4, <2>5 DEF DroppedGroupLeavesUsers, Loaded
<1>4. ASSUME NEW e \in DOMAIN elem, NEW l \in Container, NEW n \in Names(l), AppendMember(e, l, n)
      PROVE  DroppedGroupLeavesUsers'
  <2>1. l \in DOMAIN elem[e] /\ elem[e][l] \subseteq Names(l)
      BY <1>4, ListsAreContainers DEF AppendMember, Loaded
  <2>2. PICK S \in SUBSET Names(l) :
          S = elem[e][l] \union {n} /\ elem' = [elem EXCEPT ![e][l] = S]
      BY <1>4, <2>1 DEF AppendMember
  <2>3. /\ DOMAIN elem' = DOMAIN elem /\ elem'[e][l] = S
        /\ DOMAIN elem'[e] = DOMAIN elem[e]
        /\ \A k \in DOMAIN elem[e] : k # l => elem'[e][k] = elem[e][k]
        /\ \A d \in DOMAIN elem : d # e => elem'[d] = elem[d]
      BY <2>1, <2>2, ListTyped
  <2>4. top' = top /\ outside' = outside /\ Accepts(Grant(e, l, n))
      BY <1>4 DEF AppendMember, Granting
  <2>5. ActiveUsers' = ActiveUsers
      BY <2>3, <2>4 DEF ActiveUsers
  <2>6. e \in ActiveUsers /\ l = "groups" => n \in DOMAIN top["groups"] \union outside
    <3>1. SUFFICES ASSUME e \in ActiveUsers, l = "groups"
                   PROVE  n \in exists \cap Group
        BY GroupsKnown
    <3>2. Grant(e, l, n) = <<n, Name(e)>>
        BY <3>1, ActiveUserFacts DEF Grant
    <3> QED BY <2>4, <3>2 DEF Accepts
  <2>7. ASSUME NEW d \in ActiveUsers, "groups" \in DOMAIN elem'[d]
        PROVE  elem'[d]["groups"] \subseteq DOMAIN top["groups"] \union outside
    <3>1. d \in DOMAIN elem /\ "groups" \in DOMAIN elem[d]
        BY <2>3, <2>7 DEF ActiveUsers
    <3>2. elem[d]["groups"] \subseteq DOMAIN top["groups"] \union outside
        BY <3>1 DEF DroppedGroupLeavesUsers, Loaded
    <3> QED BY <2>2, <2>3, <2>6, <3>1, <3>2
  <2> QED BY <2>4, <2>5, <2>7 DEF DroppedGroupLeavesUsers, Loaded
<1>5. ASSUME NEW e \in DOMAIN elem, NEW l \in Container, NEW n \in Names(l), DropMember(e, l, n)
      PROVE  DroppedGroupLeavesUsers'
  <2>1. /\ l \in DOMAIN elem[e] /\ elem[e][l] \subseteq Names(l)
        /\ top' = top /\ outside' = outside
      BY <1>5, ListsAreContainers DEF DropMember, Loaded
  <2>2. CASE n \in DOMAIN top[l]
    <3>1. PICK S \in SUBSET Names(l) :
            S = elem[e][l] \ {n} /\ elem' = [elem EXCEPT ![e][l] = S]
        BY <1>5, <2>1, <2>2 DEF DropMember
    <3>2. /\ DOMAIN elem' = DOMAIN elem /\ elem'[e][l] = S
          /\ DOMAIN elem'[e] = DOMAIN elem[e]
          /\ \A k \in DOMAIN elem[e] : k # l => elem'[e][k] = elem[e][k]
          /\ \A d \in DOMAIN elem : d # e => elem'[d] = elem[d]
        BY <2>1, <3>1, ListTyped
    <3>3. ActiveUsers' = ActiveUsers
        BY <2>1, <3>2 DEF ActiveUsers
    <3>4. \A d \in DOMAIN elem : "groups" \in DOMAIN elem'[d] =>
            "groups" \in DOMAIN elem[d] /\ elem'[d]["groups"] \subseteq elem[d]["groups"]
        BY <3>1, <3>2
    <3> QED BY <2>1, <3>3, <3>4, StayingLeave DEF ActiveUsers
  <2>3. CASE n \notin DOMAIN top[l]
    <3>1. elem' = elem
        BY <1>5, <2>3 DEF DropMember
    <3> QED BY <2>1, <3>1 DEF DroppedGroupLeavesUsers, ActiveUsers, Loaded
  <2> QED BY <2>2, <2>3
<1>6. ASSUME NEW n \in User, DropUser(n) PROVE DroppedGroupLeavesUsers'
  <2>1. /\ DOMAIN elem' \subseteq DOMAIN elem /\ \A e \in DOMAIN elem' : elem'[e] = elem[e]
        /\ DOMAIN top'["users"] = DOMAIN top["users"] \ {n}
        /\ \A k \in DOMAIN top'["users"] : top'["users"][k] = top["users"][k]
        /\ top'["groups"] = top["groups"]
      BY <1>6, TakenOutTyped DEF DropUser, Typed, Container
  <2>2. ActiveUsers' \subseteq ActiveUsers
      BY <2>1 DEF ActiveUsers
  <2>3. outside' = outside
      BY <1>6 DEF DropUser
  <2> QED BY <2>1, <2>2, <2>3, StayingLeave DEF ActiveUsers
<1>7. ASSUME NEW n \in Group, NEW failed, DropGroup(n, failed) PROVE DroppedGroupLeavesUsers'
  <2>1. PICK now : now = RoleRemoved(n, failed)
      OBVIOUS
  <2>2. /\ ElementsTyped(now) /\ DOMAIN now = DOMAIN elem
        /\ \A e \in ActiveUsers :
             /\ DOMAIN now[e] = {"groups"}
             /\ now[e]["groups"] = GroupsOf(e, failed) \ {n}
        /\ \A e \in DOMAIN elem \ ActiveUsers : now[e] = elem[e]
      BY <2>1, RoleRemovedTyped
  <2>3. /\ DOMAIN elem' \subseteq DOMAIN elem /\ \A e \in DOMAIN elem' : elem'[e] = now[e]
        /\ DOMAIN top'["groups"] = DOMAIN top["groups"] \ {n}
        /\ top'["users"] = top["users"]
      BY <1>7, <2>1, <2>2, TakenOutTyped DEF DropGroup, Container
  <2>4. granted' \subseteq granted /\ outside' = outside
      BY <1>7 DEF DropGroup, DroppedFromDatabase
  <2>5. ActiveUsers' \subseteq ActiveUsers
      BY <2>3 DEF ActiveUsers
  <2>6. ASSUME NEW e \in ActiveUsers'
        PROVE  elem'[e]["groups"] \subseteq (DOMAIN top["groups"] \union outside) \ {n}
    <3>1. e \in ActiveUsers /\ elem'[e] = now[e]
        BY <2>3, <2>5 DEF ActiveUsers
    <3>2. Members(e, "groups", granted') \subseteq Members(e, "groups", granted)
        BY <2>4 DEF Members
    <3>3. Members(e, "groups", granted') \subseteq DOMAIN top["groups"] \union outside
        BY <3>1, <3>2, MembersKnown
    <3>4. Loaded(e, "groups") => elem[e]["groups"] \subseteq DOMAIN top["groups"] \union outside
        BY <3>1 DEF DroppedGroupLeavesUsers
    <3>5. GroupsOf(e, failed) \subseteq DOMAIN top["groups"] \union outside
        BY <3>1, <3>3, <3>4, GroupsOfFacts
    <3> QED BY <2>2, <3>1, <3>5
  <2> QED BY <2>3, <2>4, <2>6 DEF DroppedGroupLeavesUsers
<1>8. CASE OtherSession
  <2>1. elem' = elem /\ top' = top /\ outside \subseteq outside'
      BY <1>8 DEF OtherSession
  <2> QED BY <2>1 DEF DroppedGroupLeavesUsers, ActiveUsers, Loaded
<1>9. CASE UNCHANGED vars
    BY <1>9 DEF vars, DroppedGroupLeavesUsers, ActiveUsers, Loaded
<1> QED BY <1>1, <1>2, <1>3, <1>4, <1>5, <1>6, <1>7, <1>8, <1>9 DEF Next

(* No user of the container is shown in a group that the driver has dropped, *)
(* whether its groups were loaded before or by the drop.                     *)
THEOREM DroppedGroupLeavesUsersInvariant == Spec => []DroppedGroupLeavesUsers
<1>1. Init => DroppedGroupLeavesUsers
    BY DEF Init, DroppedGroupLeavesUsers, ActiveUsers
<1>2. Typed /\ ShowsTheDatabase /\ DroppedGroupLeavesUsers /\ [Next]_vars
        => DroppedGroupLeavesUsers'
    BY LeavesStep DEF ShowsTheDatabase
<1> QED BY <1>1, <1>2, TypedInvariant, ShowsTheDatabaseInvariant, PTL DEF Spec
================================================================================
