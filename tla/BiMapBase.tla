------------------------------ MODULE BiMapBase ------------------------------
(***************************************************************************)
(* The map of a container that is sorted and has no name twice:            *)
(* driver/container/BiMapBase.java.  The elements and their names are kept *)
(* in the order they came (mElement, mIndex); a sorted set (mNames) and its *)
(* copy as a list (mOrder, here the set listed of its names) give the      *)
(* places the callers count by.  The copy is made again by every change    *)
(* that ends without an exception.  A place of a caller is translated to a *)
(* slot of the lists by name.                                              *)
(*                                                                         *)
(* Names are numbers, sorted by <.  Places count from 0 as in Java, slots  *)
(* from 1.                                                                 *)
(***************************************************************************)
EXTENDS Integers, Sequences, FiniteSets, SequencesExt

EmptyMap == [names |-> {}, listed |-> {}, index |-> <<>>, element |-> <<>>]

\* A set of names, sorted: the place of each is how many come before it
Before(S, n) == {x \in S : x < n}
Sorted(S) == [k \in 1..Cardinality(S) |->
                CHOOSE n \in S : Cardinality(Before(S, n)) = k - 1]

\* mOrder
Order(m) == Sorted(m.listed)

\* The slot of a name: the first one, 0 when there is none
Slot(m, n) == SelectInSeq(m.index, LAMBDA x : x = n)

\* The place of a name, -1 when there is none
GetIndex(m, n) == IF n \in m.listed THEN Cardinality(Before(m.listed, n)) ELSE -1

GetCount(m) == Len(m.element)
HasByName(m, n) == n \in m.names
InOrder(m, i) == i + 1 \in DOMAIN Order(m)
GetName(m, i) == Order(m)[i + 1]

\* mIndex has the name; a place whose name has a slot, without it the lists
\* throw before anything is changed
HasSlot(m, n) == \E i \in DOMAIN m.index : m.index[i] = n
Reaches(m, i) == InOrder(m, i) /\ HasSlot(m, GetName(m, i))

GetByIndex(m, i) == m.element[Slot(m, GetName(m, i))]

\* A mutant: the caller's place is taken for a slot
SetElementAtPlace(m, i, e) == [m EXCEPT !.element[i + 1] = e]

SetElement(m, i, e) == [m EXCEPT !.element[Slot(m, GetName(m, i))] = e]

\* addElement() does not look whether the name is there already
AddElement(m, n, e) == [names   |-> m.names \union {n},
                        listed  |-> m.names \union {n},
                        index   |-> Append(m.index, n),
                        element |-> Append(m.element, e)]

\* A mutant: the set of names keeps the name
RemoveElementNotName(m, i) ==
  LET n == GetName(m, i) IN
  [names   |-> m.names,
   listed  |-> m.names,
   index   |-> RemoveAt(m.index, Slot(m, n)),
   element |-> RemoveAt(m.element, Slot(m, n))]

RemoveElement(m, i) ==
  LET n == GetName(m, i) IN
  [names   |-> m.names \ {n},
   listed  |-> m.names \ {n},
   index   |-> RemoveAt(m.index, Slot(m, n)),
   element |-> RemoveAt(m.element, Slot(m, n))]

\* renameElement() changes the set of names first: without a slot for the old
\* name it throws then, and the new one has neither a slot nor a place
RenameElement(m, old, new) ==
  LET names == (m.names \ {old}) \union {new} IN
  IF HasSlot(m, old)
  THEN [m EXCEPT !.names = names, !.listed = names, !.index[Slot(m, old)] = new]
  ELSE [m EXCEPT !.names = names]

\* A mutant: the slots themselves, as if the enumeration read the lists
EnumerationOrderFromOne(m) == [k \in DOMAIN Order(m) |-> Slot(m, Order(m)[k])]

\* The places an enumeration asks for, one after the other
EnumerationOrder(m) == [k \in DOMAIN Order(m) |-> Slot(m, Order(m)[k]) - 1]
=============================================================================
