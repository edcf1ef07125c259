------------------------ MODULE TableContainerProofs ------------------------
(***************************************************************************)
(* What holds of the containers of tables and views for any names, threads *)
(* and number of elements.                                                 *)
(*                                                                         *)
(* The first part is about the map alone, AnyMap as a raced rename can     *)
(* leave it, Map as it is before.  The second follows every element from   *)
(* its creation to the map it gets into and out of it: Safe says that it   *)
(* is in one place at a time, in races too, but for the elements that a    *)
(* refresh has disposed of and not yet taken out of its map.  The third,   *)
(* Watched, follows every call from its statement to its last change of a  *)
(* map: a container and the changes on their way to it say together what   *)
(* the database has, as long as no thread went on with a place or a test   *)
(* that another had made wrong.                                            *)
(***************************************************************************)
EXTENDS TableContainer, FiniteSetTheorems, SequenceTheorems, WellFoundedInduction, TLAPS

\* The maps of k elements: the lists are of one length.  Whole ones have the
\* same names to count places by, each with a slot in the lists.
AnyMap(k) ==
  {m \in [names : SUBSET Name, listed : SUBSET Name, index : Seq(Name),
          element : Seq((1..k) \union {NoElement})] : Len(m.index) = Len(m.element)}
Map(k) == {m \in AnyMap(k) : m.listed = m.names /\ \A n \in m.names : HasSlot(m, n)}

\* The elements of a map, each of which is there once.
Elements(m) == {m.element[i] : i \in DOMAIN m.element} \ {NoElement}
Once(m) == \A i, j \in DOMAIN m.element :
             m.element[i] = m.element[j] /\ m.element[i] # NoElement => i = j

----------------------------------------------------------------------------
(* The order of the names. *)

\* A set of naturals has a least element.
LEMMA NatLeast ==
    ASSUME NEW S \in SUBSET Nat, S # {}
    PROVE  \E x \in S : \A y \in S : x <= y
<1> DEFINE R == OpToRel(<, Nat)
<1>1. IsWellFoundedOn(R, Nat)
    BY NatLessThanWellFounded
<1>2. PICK x \in S : \A y \in S : <<y, x>> \notin R
    BY <1>1, WFMin
<1>3. \A y \in S : ~(y < x)
    BY <1>2 DEF OpToRel
<1> QED BY <1>3

\* Min, a CHOOSE, is that least element.
LEMMA MinOfNat ==
    ASSUME NEW S \in SUBSET Nat, S # {}
    PROVE  Min(S) \in S /\ \A y \in S : Min(S) <= y
BY NatLeast DEF Min

\* How many elements come before one is a number that grows with the element.
LEMMA RankGrows ==
    ASSUME NEW S \in SUBSET Nat, IsFiniteSet(S)
    PROVE  /\ Cardinality(S) \in Nat
           /\ \A n \in S : Cardinality(Before(S, n)) \in 0..(Cardinality(S) - 1)
           /\ \A n, k \in S : n < k => Cardinality(Before(S, n)) < Cardinality(Before(S, k))
<1>1. Cardinality(S) \in Nat
    BY FS_CardinalityType
<1>2. ASSUME NEW n \in S
      PROVE  IsFiniteSet(Before(S, n)) /\ Cardinality(Before(S, n)) \in Nat
    BY FS_Subset, FS_CardinalityType DEF Before
<1>3. ASSUME NEW n \in S PROVE Cardinality(Before(S, n)) <= Cardinality(S) - 1
  <2>1. IsFiniteSet(S \ {n}) /\ Cardinality(S \ {n}) = Cardinality(S) - 1
      BY FS_RemoveElement
  <2>2. Before(S, n) \subseteq S \ {n}
      BY DEF Before
  <2> QED BY <2>1, <2>2, FS_Subset
<1>4. ASSUME NEW n \in S, NEW k \in S, n < k
      PROVE  Cardinality(Before(S, n)) < Cardinality(Before(S, k))
  <2>1. n \notin Before(S, n) /\ Before(S, n) \union {n} \subseteq Before(S, k)
    <3>1. n \in Nat /\ k \in Nat /\ \A x \in S : x \in Nat
        OBVIOUS
    <3>2. \A x \in S : x < n => x < k
        BY <1>4, <3>1
    <3>3. n \notin Before(S, n)
        BY <3>1 DEF Before
    <3>4. n \in Before(S, k)
        BY <1>4 DEF Before
    <3>5. \A x \in Before(S, n) : x \in Before(S, k)
        BY <3>2 DEF Before
    <3> QED BY <3>3, <3>4, <3>5
  <2>2. Cardinality(Before(S, n) \union {n}) = Cardinality(Before(S, n)) + 1
      BY <1>2, <2>1, FS_AddElement
  <2>3. Cardinality(Before(S, n) \union {n}) <= Cardinality(Before(S, k))
      BY <1>2, <2>1, FS_Subset
  <2> QED BY <1>2, <2>2, <2>3
<1> QED BY <1>1, <1>2, <1>3, <1>4

\* No two elements have as many before them.
LEMMA RankIsOne ==
    ASSUME NEW S \in SUBSET Nat, IsFiniteSet(S), NEW n \in S, NEW k \in S,
           Cardinality(Before(S, n)) = Cardinality(Before(S, k))
    PROVE  n = k
<1>1. n \in Nat /\ k \in Nat /\ (n # k => n < k \/ k < n)
    OBVIOUS
<1>2. /\ Cardinality(Before(S, n)) \in Int /\ Cardinality(Before(S, k)) \in Int
      /\ n < k => Cardinality(Before(S, n)) < Cardinality(Before(S, k))
      /\ k < n => Cardinality(Before(S, k)) < Cardinality(Before(S, n))
    BY RankGrows
<1> QED BY <1>1, <1>2

\* Every number below the size of the set is the rank of an element.
LEMMA RankIsAny ==
    ASSUME NEW S \in SUBSET Nat, IsFiniteSet(S), NEW i \in 1..Cardinality(S)
    PROVE  \E n \in S : Cardinality(Before(S, n)) = i - 1
<1> DEFINE c == Cardinality(S)
           rank == [n \in S |-> Cardinality(Before(S, n)) + 1]
<1>1. c \in Nat
    BY RankGrows
<1>2. rank \in [S -> 1..c]
  <2>1. \A n \in S : Cardinality(Before(S, n)) + 1 \in 1..c
      BY <1>1, RankGrows
  <2> QED BY <2>1
<1>3. rank \in Injection(S, 1..c)
  <2>1. \A n, k \in S : rank[n] = rank[k] => n = k
      BY RankIsOne, RankGrows
  <2> QED BY <1>2, <2>1 DEF Injection, IsInjective
<1>4. IsFiniteSet(1..c) /\ Cardinality(1..c) = c
    BY <1>1, FS_Interval
<1>5. rank \in Surjection(S, 1..c)
    BY <1>3, <1>4, FS_Injection
<1>6. \E n \in S : rank[n] = i
    BY <1>5 DEF Surjection
<1> QED BY <1>1, <1>6, RankGrows
(* The sorted list of a set has every name at its place: the place of a     *)
(* name and the name of a place are inverse to each other.                  *)
THEOREM SortedFacts ==
    ASSUME NEW S \in SUBSET Nat, IsFiniteSet(S)
    PROVE  /\ Cardinality(S) \in Nat
           /\ Sorted(S) \in [1..Cardinality(S) -> S]
           /\ \A n \in S : /\ Cardinality(Before(S, n)) \in Nat
                           /\ Cardinality(Before(S, n)) + 1 \in 1..Cardinality(S)
                           /\ Sorted(S)[Cardinality(Before(S, n)) + 1] = n
           /\ \A i \in 1..Cardinality(S) :
                Cardinality(Before(S, Sorted(S)[i])) = i - 1
<1> DEFINE c == Cardinality(S)
<1>1. c \in Nat
    BY RankGrows
<1>2. \A i \in 1..c : \E n \in S : Cardinality(Before(S, n)) = i - 1
    BY RankIsAny
<1>3. \A i \in 1..c : Sorted(S)[i] \in S /\ Cardinality(Before(S, Sorted(S)[i])) = i - 1
    BY <1>2 DEF Sorted
<1>4. Sorted(S) \in [1..c -> S]
    BY <1>3 DEF Sorted
<1>5. \A n \in S : Cardinality(Before(S, n)) \in Nat /\ Cardinality(Before(S, n)) + 1 \in 1..c
  <2>1. \A n \in S : Cardinality(Before(S, n)) \in 0..(c - 1)
      BY RankGrows
  <2> QED BY <1>1, <2>1
<1>6. ASSUME NEW n \in S PROVE Sorted(S)[Cardinality(Before(S, n)) + 1] = n
  <2>1. PICK i : i = Cardinality(Before(S, n)) + 1
      OBVIOUS
  <2>2. i \in 1..c /\ Cardinality(Before(S, n)) = i - 1
      BY <1>5, <2>1
  <2>3. PICK y : y = Sorted(S)[i]
      OBVIOUS
  <2>4. y \in S /\ Cardinality(Before(S, y)) = Cardinality(Before(S, n))
      BY <1>3, <2>2, <2>3
  <2>5. y = n
      BY <2>4, RankIsOne
  <2> QED BY <2>1, <2>3, <2>5
<1> QED BY <1>1, <1>3, <1>4, <1>5, <1>6

\* It has no name twice.
LEMMA SortedOnce ==
    ASSUME NEW S \in SUBSET Nat, IsFiniteSet(S),
           NEW x \in 1..Cardinality(S), NEW y \in 1..Cardinality(S), Sorted(S)[x] = Sorted(S)[y]
    PROVE  x = y
<1>1. Cardinality(Before(S, Sorted(S)[x])) = x - 1 /\ Cardinality(Before(S, Sorted(S)[x])) = y - 1
    BY SortedFacts
<1>2. Cardinality(S) \in Nat
    BY SortedFacts
<1>3. x - 1 = y - 1
    BY <1>1
<1> QED BY <1>2, <1>3

\* The names that places are counted by are numbers, finitely many.
LEMMA ListedFacts ==
    ASSUME NEW k \in Nat, NEW m \in AnyMap(k)
    PROVE  m.listed \in SUBSET Nat /\ m.listed \subseteq Name /\ IsFiniteSet(m.listed)
<1>1. m.listed \subseteq Name
    BY DEF AnyMap
<1> QED BY <1>1, NameAssumption, FS_Subset

(* A place has a name of those; the place of a name has that name.           *)
LEMMA AnyOrderFacts ==
    ASSUME NEW k \in Nat, NEW m \in AnyMap(k)
    PROVE  /\ \A i \in Int : InOrder(m, i) => GetName(m, i) \in m.listed
           /\ \A n : GetIndex(m, n) \in Int
           /\ \A n \in m.listed : /\ InOrder(m, GetIndex(m, n))
                                /\ GetName(m, GetIndex(m, n)) = n
<1> USE ListedFacts
<1>1. \A i \in Int : InOrder(m, i) => GetName(m, i) \in m.listed
    BY SortedFacts DEF InOrder, GetName, Order
<1>2. \A n \in m.listed : Cardinality(Before(m.listed, n)) \in Nat
    BY SortedFacts
<1>3. \A n : GetIndex(m, n) \in Int
    BY <1>2 DEF GetIndex
<1>4. ASSUME NEW n \in m.listed
      PROVE  InOrder(m, GetIndex(m, n)) /\ GetName(m, GetIndex(m, n)) = n
  <2>1. DOMAIN Sorted(m.listed) = 1..Cardinality(m.listed)
      BY DEF Sorted
  <2> QED BY <2>1, SortedFacts DEF InOrder, GetName, Order, GetIndex
<1> QED BY <1>1, <1>3, <1>4

\* The slot of a name that has one holds that name.
LEMMA AnySlotFacts ==
    ASSUME NEW k \in Nat, NEW m \in AnyMap(k), NEW n, HasSlot(m, n)
    PROVE  /\ Slot(m, n) \in 1..Len(m.index) /\ m.index[Slot(m, n)] = n
           /\ DOMAIN m.index = 1..Len(m.index) /\ DOMAIN m.element = 1..Len(m.index)
           /\ Len(m.index) \in Nat /\ Len(m.element) = Len(m.index)
<1> DEFINE I == {i \in 1..Len(m.index) : m.index[i] = n}
<1>1. /\ m.index \in Seq(Name) /\ m.element \in Seq((1..k) \union {NoElement})
      /\ Len(m.index) = Len(m.element)
      /\ \E i \in DOMAIN m.index : m.index[i] = n
    BY DEF AnyMap, HasSlot
<1>2. /\ DOMAIN m.index = 1..Len(m.index) /\ Len(m.index) \in Nat
      /\ DOMAIN m.element = 1..Len(m.index)
    BY <1>1
<1>3. I \in SUBSET Nat /\ I # {}
    BY <1>1, <1>2
<1>4. Min(I) \in I
    BY <1>3, MinOfNat
<1>5. Slot(m, n) = Min(I)
    BY <1>3 DEF Slot, SelectInSeq
<1> QED BY <1>1, <1>2, <1>4, <1>5

(* What removeElement() of the lists leaves: all but the one at a slot, in   *)
(* their order.                                                             *)
LEMMA RemoveAtFacts ==
    ASSUME NEW S, NEW s \in Seq(S), NEW i \in 1..Len(s)
    PROVE  /\ RemoveAt(s, i) \in Seq(S)
           /\ Len(RemoveAt(s, i)) = Len(s) - 1
           /\ DOMAIN RemoveAt(s, i) = 1..(Len(s) - 1)
           /\ \A j \in 1..(Len(s) - 1) :
                RemoveAt(s, i)[j] = IF j < i THEN s[j] ELSE s[j + 1]
<1>1. Len(s) \in Nat /\ \A j \in 1..Len(s) : s[j] \in S
    OBVIOUS
<1>2. PICK a : a = SubSeq(s, 1, i - 1)
    OBVIOUS
<1>3. a \in Seq(S) /\ Len(a) = i - 1 /\ \A j \in 1..(i - 1) : a[j] = s[j]
  <2>1. \A j \in 1..(i - 1) : s[j] \in S
      BY <1>1
  <2>2. /\ a \in Seq(S) /\ Len(a) = IF 1 <= i - 1 THEN i - 1 - 1 + 1 ELSE 0
        /\ \A j \in 1..(i - 1 - 1 + 1) : a[j] = s[1 + j - 1]
      BY <1>2, <2>1, SubSeqProperties
  <2>3. i \in Int /\ i - 1 - 1 + 1 = i - 1 /\ (~(1 <= i - 1) => i - 1 = 0)
      BY <1>1
  <2>4. \A j \in 1..(i - 1) : 1 + j - 1 = j
      BY <1>1
  <2> QED BY <2>2, <2>3, <2>4
<1>4. PICK b : b = SubSeq(s, i + 1, Len(s))
    OBVIOUS
<1>5. b \in Seq(S) /\ Len(b) = Len(s) - i /\ \A j \in 1..(Len(s) - i) : b[j] = s[i + j]
  <2>1. \A j \in (i + 1)..Len(s) : s[j] \in S
      BY <1>1
  <2>2. /\ b \in Seq(S)
        /\ Len(b) = IF i + 1 <= Len(s) THEN Len(s) - (i + 1) + 1 ELSE 0
        /\ \A j \in 1..(Len(s) - (i + 1) + 1) : b[j] = s[(i + 1) + j - 1]
      BY <1>1, <1>4, <2>1, SubSeqProperties
  <2>3. Len(s) - (i + 1) + 1 = Len(s) - i /\ (~(i + 1 <= Len(s)) => Len(s) - i = 0)
      BY <1>1
  <2>4. \A j \in 1..(Len(s) - i) : (i + 1) + j - 1 = i + j
      BY <1>1
  <2> QED BY <2>2, <2>3, <2>4
<1>6. /\ a \o b \in Seq(S) /\ Len(a \o b) = Len(a) + Len(b)
      /\ \A j \in 1..(Len(a) + Len(b)) :
           (a \o b)[j] = IF j <= Len(a) THEN a[j] ELSE b[j - Len(a)]
    BY <1>3, <1>5, ConcatProperties
<1>7. PICK w : w = a \o b
    OBVIOUS
<1>8. Len(w) = Len(s) - 1 /\ w \in Seq(S) /\ DOMAIN w = 1..(Len(s) - 1)
  <2>1. Len(w) = Len(s) - 1 /\ w \in Seq(S)
      BY <1>1, <1>3, <1>5, <1>6, <1>7
  <2> QED BY <2>1
<1>9. ASSUME NEW j \in 1..(Len(s) - 1)
      PROVE  w[j] = IF j < i THEN s[j] ELSE s[j + 1]
  <2>0. Len(a) = i - 1 /\ Len(a) + Len(b) = Len(s) - 1
      BY <1>1, <1>3, <1>5
  <2>1. w[j] = IF j <= i - 1 THEN a[j] ELSE b[j - (i - 1)]
      BY <1>6, <1>7, <2>0
  <2>2. CASE j < i
    <3>1. j \in 1..(i - 1)
        BY <1>1, <2>2
    <3> QED BY <1>3, <2>1, <2>2, <3>1
  <2>3. CASE ~(j < i)
    <3>1. j - (i - 1) \in 1..(Len(s) - i) /\ i + (j - (i - 1)) = j + 1 /\ ~(j <= i - 1)
        BY <1>1, <2>3
    <3>2. b[j - (i - 1)] = s[i + (j - (i - 1))]
        BY <1>5, <3>1
    <3> QED BY <2>1, <2>3, <3>1, <3>2
  <2> QED BY <2>2, <2>3
<1>10. RemoveAt(s, i) = w
    BY <1>2, <1>4, <1>7 DEF RemoveAt
<1> QED BY <1>8, <1>9, <1>10

\* What a map of k elements is, its parts one by one.
LEMMA AnyParts ==
    ASSUME NEW k \in Nat, NEW m \in AnyMap(k)
    PROVE  /\ m = [names |-> m.names, listed |-> m.listed, index |-> m.index,
                   element |-> m.element]
           /\ m.names \subseteq Name /\ m.listed \subseteq Name /\ m.index \in Seq(Name)
           /\ m.element \in Seq((1..k) \union {NoElement})
           /\ Len(m.index) \in Nat /\ Len(m.element) = Len(m.index)
           /\ DOMAIN m.index = 1..Len(m.index) /\ DOMAIN m.element = 1..Len(m.index)
           /\ \A i \in 1..Len(m.index) : /\ m.index[i] \in Name
                                        /\ m.element[i] \in (1..k) \union {NoElement}
<1>1. /\ m \in [names : SUBSET Name, listed : SUBSET Name, index : Seq(Name),
                element : Seq((1..k) \union {NoElement})]
      /\ Len(m.index) = Len(m.element)
    BY DEF AnyMap
<1>2. m.index \in Seq(Name) /\ m.element \in Seq((1..k) \union {NoElement})
    BY <1>1
<1>3. /\ Len(m.index) \in Nat /\ DOMAIN m.index = 1..Len(m.index)
      /\ \A i \in 1..Len(m.index) : m.index[i] \in Name
    BY <1>2
<1>4. /\ DOMAIN m.element = 1..Len(m.element)
      /\ \A i \in 1..Len(m.element) : m.element[i] \in (1..k) \union {NoElement}
    BY <1>2
<1> QED BY <1>1, <1>2, <1>3, <1>4

\* A whole map is one of the maps, and each of its names has a slot and a place.
LEMMA MapParts ==
    ASSUME NEW k \in Nat, NEW m \in Map(k)
    PROVE  /\ m \in AnyMap(k) /\ m.listed = m.names
           /\ m.names \subseteq Name /\ m.index \in Seq(Name)
           /\ m.element \in Seq((1..k) \union {NoElement})
           /\ Len(m.index) \in Nat /\ Len(m.element) = Len(m.index)
           /\ DOMAIN m.index = 1..Len(m.index) /\ DOMAIN m.element = 1..Len(m.index)
           /\ \A n \in m.names : \E i \in DOMAIN m.index : m.index[i] = n
           /\ \A i \in 1..Len(m.index) : /\ m.index[i] \in Name
                                        /\ m.element[i] \in (1..k) \union {NoElement}
<1>1. m \in AnyMap(k) /\ m.listed = m.names /\ \A n \in m.names : HasSlot(m, n)
    BY DEF Map
<1>2. \A n \in m.names : \E i \in DOMAIN m.index : m.index[i] = n
    BY <1>1 DEF HasSlot
<1> QED BY <1>1, <1>2, AnyParts

\* The names of a map are numbers, finitely many.
LEMMA NamesFacts ==
    ASSUME NEW k \in Nat, NEW m \in Map(k)
    PROVE  m.names \in SUBSET Nat /\ m.names \subseteq Name /\ IsFiniteSet(m.names)
BY MapParts, ListedFacts

(* A place of a whole map has a name of it, and a slot; the place of a name   *)
(* has that name.                                                            *)
LEMMA OrderFacts ==
    ASSUME NEW k \in Nat, NEW m \in Map(k)
    PROVE  /\ \A i \in Int : InOrder(m, i) => GetName(m, i) \in m.names /\ Reaches(m, i)
           /\ \A n : GetIndex(m, n) \in Int
           /\ \A n \in m.names : /\ InOrder(m, GetIndex(m, n))
                               /\ GetName(m, GetIndex(m, n)) = n
                               /\ Reaches(m, GetIndex(m, n))
<1>1. m \in AnyMap(k) /\ m.listed = m.names /\ \A n \in m.names : HasSlot(m, n)
    BY DEF Map
<1>2. \A i \in Int : InOrder(m, i) => GetName(m, i) \in m.names
    BY <1>1, AnyOrderFacts
<1>3. /\ \A n : GetIndex(m, n) \in Int
      /\ \A n \in m.names : InOrder(m, GetIndex(m, n)) /\ GetName(m, GetIndex(m, n)) = n
    BY <1>1, AnyOrderFacts
<1> QED BY <1>1, <1>2, <1>3 DEF Reaches

\* The slot of a name of the map holds that name.
LEMMA SlotFacts ==
    ASSUME NEW k \in Nat, NEW m \in Map(k), NEW n \in m.names
    PROVE  /\ Slot(m, n) \in 1..Len(m.index) /\ m.index[Slot(m, n)] = n
           /\ DOMAIN m.index = 1..Len(m.index) /\ DOMAIN m.element = 1..Len(m.index)
           /\ Len(m.index) \in Nat /\ Len(m.element) = Len(m.index)
<1>1. m \in AnyMap(k) /\ HasSlot(m, n)
    BY DEF Map
<1> QED BY <1>1, AnySlotFacts

\* A map of k elements is one of more.
LEMMA MapGrows ==
    ASSUME NEW k \in Nat, NEW l \in Nat, k <= l, NEW m \in AnyMap(k)
    PROVE  m \in AnyMap(l) /\ (m \in Map(k) => m \in Map(l))
<1>1. (1..k) \union {NoElement} \subseteq (1..l) \union {NoElement}
    OBVIOUS
<1>2. m.element \in Seq((1..l) \union {NoElement})
  <2>1. m.element \in Seq((1..k) \union {NoElement})
      BY AnyParts
  <2> QED BY <1>1, <2>1, SeqMonotonic
<1>3. m \in AnyMap(l)
    BY <1>2, AnyParts DEF AnyMap
<1> QED BY <1>3 DEF Map

\* The empty map.
LEMMA EmptyMapFacts ==
    ASSUME NEW k \in Nat
    PROVE  /\ EmptyMap \in AnyMap(k) /\ EmptyMap \in Map(k)
           /\ Once(EmptyMap) /\ Elements(EmptyMap) = {}
<1>1. <<>> \in Seq(Name) /\ <<>> \in Seq((1..k) \union {NoElement})
    OBVIOUS
<1>2. EmptyMap \in AnyMap(k)
    BY <1>1 DEF EmptyMap, AnyMap
<1>3. EmptyMap \in Map(k)
    BY <1>2 DEF EmptyMap, Map
<1>4. DOMAIN EmptyMap.element = {}
    BY DEF EmptyMap
<1> QED BY <1>2, <1>3, <1>4 DEF Once, Elements

(* The element at a place is one of the map's, or none.                      *)
LEMMA GetByIndexFacts ==
    ASSUME NEW k \in Nat, NEW m \in AnyMap(k), NEW i \in Int, Reaches(m, i)
    PROVE  /\ GetByIndex(m, i) \in (1..k) \union {NoElement}
           /\ GetByIndex(m, i) # NoElement => GetByIndex(m, i) \in Elements(m)
<1>1. HasSlot(m, GetName(m, i))
    BY DEF Reaches
<1>2. PICK j : j = Slot(m, GetName(m, i))
    OBVIOUS
<1>3. j \in 1..Len(m.index)
    BY <1>1, <1>2, AnySlotFacts
<1> QED BY <1>2, <1>3, AnyParts DEF GetByIndex, Elements

(* setElement() puts the element where the place says and keeps the rest.    *)
LEMMA AnySetElementIs ==
    ASSUME NEW k \in Nat, NEW m \in AnyMap(k), NEW i \in Int, Reaches(m, i),
           NEW e \in (1..k) \union {NoElement}
    PROVE  LET w == SetElement(m, i, e)
               j == Slot(m, GetName(m, i)) IN
           /\ w \in AnyMap(k) /\ w.names = m.names /\ w.listed = m.listed /\ w.index = m.index
           /\ j \in 1..Len(m.index) /\ m.index[j] = GetName(m, i)
           /\ \A x \in 1..Len(m.index) : w.element[x] = IF x = j THEN e ELSE m.element[x]
<1>1. HasSlot(m, GetName(m, i))
    BY DEF Reaches
<1>2. PICK j : j = Slot(m, GetName(m, i))
    OBVIOUS
<1>3. j \in 1..Len(m.index) /\ m.index[j] = GetName(m, i)
    BY <1>1, <1>2, AnySlotFacts
<1>4. PICK w : w = SetElement(m, i, e)
    OBVIOUS
<1>5. w = [names |-> m.names, listed |-> m.listed, index |-> m.index,
           element |-> [m.element EXCEPT ![j] = e]]
  <2>1. w = [m EXCEPT !.element = [m.element EXCEPT ![j] = e]]
      BY <1>2, <1>4 DEF SetElement
  <2>2. m \in [names : SUBSET Name, listed : SUBSET Name, index : Seq(Name),
               element : Seq((1..k) \union {NoElement})]
      BY DEF AnyMap
  <2> QED BY <2>1, <2>2
<1>6. /\ w.element \in Seq((1..k) \union {NoElement}) /\ Len(w.element) = Len(m.element)
      /\ \A x \in 1..Len(m.index) : w.element[x] = IF x = j THEN e ELSE m.element[x]
  <2>1. m.element \in Seq((1..k) \union {NoElement}) /\ j \in 1..Len(m.element)
      BY <1>3, AnyParts
  <2>2. /\ [m.element EXCEPT ![j] = e] \in Seq((1..k) \union {NoElement})
        /\ Len([m.element EXCEPT ![j] = e]) = Len(m.element)
        /\ \A x \in 1..Len(m.element) :
             [m.element EXCEPT ![j] = e][x] = IF x = j THEN e ELSE m.element[x]
      BY <2>1, ExceptSeq
  <2>3. w.element = [m.element EXCEPT ![j] = e] /\ Len(m.element) = Len(m.index)
      BY <1>5, AnyParts
  <2> QED BY <2>2, <2>3
<1>7. w \in AnyMap(k)
    BY <1>5, <1>6, AnyParts DEF AnyMap
<1> QED BY <1>2, <1>3, <1>4, <1>5, <1>6, <1>7

\* The same of a whole map, which stays whole.
LEMMA SetElementIs ==
    ASSUME NEW k \in Nat, NEW m \in Map(k), NEW i \in Int, InOrder(m, i),
           NEW e \in (1..k) \union {NoElement}
    PROVE  LET w == SetElement(m, i, e)
               j == Slot(m, GetName(m, i)) IN
           /\ w \in Map(k) /\ w.names = m.names /\ w.listed = m.listed /\ w.index = m.index
           /\ j \in 1..Len(m.index) /\ m.index[j] = GetName(m, i)
           /\ \A x \in 1..Len(m.index) : w.element[x] = IF x = j THEN e ELSE m.element[x]
<1>1. m \in AnyMap(k) /\ Reaches(m, i)
    BY MapParts, OrderFacts
<1>2. PICK w : w = SetElement(m, i, e)
    OBVIOUS
<1>3. w \in AnyMap(k) /\ w.names = m.names /\ w.listed = m.listed /\ w.index = m.index
    BY <1>1, <1>2, AnySetElementIs
<1>4. w \in Map(k)
    BY <1>3 DEF Map, HasSlot
<1> QED BY <1>1, <1>2, <1>4, AnySetElementIs

\* No element is then in the map twice.
LEMMA SetElementFacts ==
    ASSUME NEW k \in Nat, NEW m \in AnyMap(k), NEW i \in Int, Reaches(m, i), Once(m),
           NEW e \in (1..k) \union {NoElement}, e \notin Elements(m)
    PROVE  LET w == SetElement(m, i, e) IN
           /\ w \in AnyMap(k) /\ Once(w)
           /\ Elements(w) \subseteq Elements(m) \union ({e} \ {NoElement})
           /\ w.names = m.names /\ w.listed = m.listed /\ w.index = m.index
<1>0. DOMAIN m.element = 1..Len(m.index)
    BY AnyParts
<1>2. PICK j : j = Slot(m, GetName(m, i))
    OBVIOUS
<1>4. PICK w : w = SetElement(m, i, e)
    OBVIOUS
<1>5. w \in AnyMap(k) /\ w.names = m.names /\ w.listed = m.listed /\ w.index = m.index
    BY <1>4, AnySetElementIs
<1>6. /\ j \in 1..Len(m.index)
      /\ \A x \in 1..Len(m.index) : w.element[x] = IF x = j THEN e ELSE m.element[x]
    BY <1>2, <1>4, AnySetElementIs
<1>8. DOMAIN w.element = 1..Len(m.index)
    BY <1>5, AnyParts
<1>9. Elements(w) \subseteq Elements(m) \union ({e} \ {NoElement})
    BY <1>0, <1>6, <1>8 DEF Elements
<1>10. Once(w)
  <2> SUFFICES ASSUME NEW x \in 1..Len(m.index), NEW y \in 1..Len(m.index),
                      w.element[x] = w.element[y], w.element[x] # NoElement
               PROVE  x = y
      BY <1>8 DEF Once
  <2>1. CASE x = j /\ y = j
      BY <2>1
  <2>2. CASE x # j /\ y # j
      BY <1>0, <1>6, <2>2 DEF Once
  <2>3. CASE x = j /\ y # j
    <3>1. e = m.element[y] /\ e # NoElement
        BY <1>6, <2>3
    <3> QED BY <1>0, <3>1 DEF Elements
  <2>4. CASE x # j /\ y = j
    <3>1. e = m.element[x] /\ e # NoElement
        BY <1>6, <2>4
    <3> QED BY <1>0, <3>1 DEF Elements
  <2> QED BY <2>1, <2>2, <2>3, <2>4
<1> QED BY <1>4, <1>5, <1>9, <1>10

\* What addElement() makes of a map, m: w, with an entry more at the end.
Extended(w, m, n, e) ==
  /\ w.names = m.names \union {n} /\ w.listed = w.names
  /\ DOMAIN w.index = 1..(Len(m.index) + 1)
  /\ DOMAIN w.element = 1..(Len(m.index) + 1)
  /\ \A x \in 1..Len(m.index) : w.index[x] = m.index[x]
  /\ \A x \in 1..Len(m.index) : w.element[x] = m.element[x]
  /\ w.index[Len(m.index) + 1] = n /\ w.element[Len(m.index) + 1] = e

(* addElement() adds one entry at the end of the lists.                      *)
LEMMA AnyAddElementIs ==
    ASSUME NEW k \in Nat, NEW m \in AnyMap(k), NEW n \in Name,
           NEW e \in (1..k) \union {NoElement}
    PROVE  AddElement(m, n, e) \in AnyMap(k) /\ Extended(AddElement(m, n, e), m, n, e)
<1>1. PICK w : w = AddElement(m, n, e)
    OBVIOUS
<1>2. w = [names |-> m.names \union {n}, listed |-> m.names \union {n}, index |-> Append(m.index, n),
           element |-> Append(m.element, e)]
    BY <1>1 DEF AddElement
<1>3. /\ w.index \in Seq(Name) /\ Len(w.index) = Len(m.index) + 1
      /\ \A x \in 1..Len(m.index) : w.index[x] = m.index[x]
      /\ w.index[Len(m.index) + 1] = n
  <2>1. m.index \in Seq(Name)
      BY AnyParts
  <2>2. w.index = Append(m.index, n)
      BY <1>2
  <2> QED BY <2>1, <2>2, AppendProperties
<1>4. /\ w.element \in Seq((1..k) \union {NoElement}) /\ Len(w.element) = Len(m.index) + 1
      /\ \A x \in 1..Len(m.index) : w.element[x] = m.element[x]
      /\ w.element[Len(m.index) + 1] = e
  <2>1. m.element \in Seq((1..k) \union {NoElement}) /\ Len(m.element) = Len(m.index)
      BY AnyParts
  <2>2. w.element = Append(m.element, e)
      BY <1>2
  <2>3. PICK E, q, z : E = (1..k) \union {NoElement} /\ q = m.element /\ z = w.element
      OBVIOUS
  <2>4. q \in Seq(E) /\ e \in E /\ z = Append(q, e)
      BY <2>1, <2>2, <2>3
  <2>5. /\ z \in Seq(E) /\ Len(z) = Len(q) + 1
        /\ \A x \in 1..Len(q) : z[x] = q[x]
        /\ z[Len(q) + 1] = e
      BY <2>4, AppendProperties
  <2> QED BY <2>1, <2>3, <2>5
<1>5. DOMAIN w.index = 1..(Len(m.index) + 1) /\ DOMAIN w.element = 1..(Len(m.index) + 1)
    BY <1>3, <1>4
<1>7. w \in AnyMap(k)
  <2>1. m.names \union {n} \in SUBSET Name
      BY AnyParts
  <2> QED BY <1>2, <1>3, <1>4, <2>1 DEF AnyMap
<1>8. w.names = m.names \union {n} /\ w.listed = w.names
    BY <1>2
<1>9. Extended(w, m, n, e)
    BY <1>3, <1>4, <1>5, <1>8 DEF Extended
<1> QED BY <1>1, <1>7, <1>9

\* The same of a whole map, which stays whole.
LEMMA AddElementIs ==
    ASSUME NEW k \in Nat, NEW m \in Map(k), NEW n \in Name,
           NEW e \in (1..k) \union {NoElement}
    PROVE  AddElement(m, n, e) \in Map(k) /\ Extended(AddElement(m, n, e), m, n, e)
<1>1. PICK w : w = AddElement(m, n, e)
    OBVIOUS
<1>2. w \in AnyMap(k) /\ Extended(w, m, n, e)
    BY <1>1, MapParts, AnyAddElementIs
<1>3. ASSUME NEW x \in w.names PROVE HasSlot(w, x)
  <2>1. /\ DOMAIN w.index = 1..(Len(m.index) + 1) /\ w.index[Len(m.index) + 1] = n
        /\ \A y \in 1..Len(m.index) : w.index[y] = m.index[y]
        /\ x \in m.names \union {n}
      BY <1>2 DEF Extended
  <2>2. CASE x = n
    <3>1. Len(m.index) + 1 \in DOMAIN w.index
        BY <2>1, MapParts
    <3> QED BY <2>1, <2>2, <3>1 DEF HasSlot
  <2>3. CASE x \in m.names
    <3>1. PICK y \in 1..Len(m.index) : m.index[y] = x
        BY ZenonT(30), <2>3, MapParts
    <3>2. y \in DOMAIN w.index
        BY <2>1, MapParts
    <3> QED BY <2>1, <3>1, <3>2 DEF HasSlot
  <2> QED BY <2>1, <2>2, <2>3
<1> QED BY <1>1, <1>2, <1>3 DEF Map, Extended

\* No element is then in the map twice.
LEMMA AddElementFacts ==
    ASSUME NEW k \in Nat, NEW m \in AnyMap(k), NEW n \in Name, Once(m),
           NEW e \in (1..k) \union {NoElement}, e \notin Elements(m)
    PROVE  LET w == AddElement(m, n, e) IN
           /\ w \in AnyMap(k) /\ Once(w)
           /\ Elements(w) \subseteq Elements(m) \union ({e} \ {NoElement})
<1>0. DOMAIN m.element = 1..Len(m.index)
    BY AnyParts
<1>1. PICK w : w = AddElement(m, n, e)
    OBVIOUS
<1>3. w \in AnyMap(k) /\ Extended(w, m, n, e)
    BY <1>1, AnyAddElementIs
<1>4. /\ w.element[Len(m.index) + 1] = e
      /\ \A x \in 1..Len(m.index) : w.element[x] = m.element[x]
    BY <1>3 DEF Extended
<1>5. DOMAIN w.element = 1..(Len(m.index) + 1)
    BY <1>3 DEF Extended
<1>8. Elements(w) \subseteq Elements(m) \union ({e} \ {NoElement})
  <2> SUFFICES ASSUME NEW x \in 1..(Len(m.index) + 1), w.element[x] # NoElement
               PROVE  w.element[x] \in Elements(m) \/ w.element[x] = e
      BY <1>5 DEF Elements
  <2>1. x \in 1..Len(m.index) \/ x = Len(m.index) + 1
      BY AnyParts
  <2> QED BY <1>0, <2>1, <1>4 DEF Elements
<1>9. Once(w)
  <2> SUFFICES ASSUME NEW x \in 1..(Len(m.index) + 1), NEW y \in 1..(Len(m.index) + 1),
                      w.element[x] = w.element[y], w.element[x] # NoElement
               PROVE  x = y
      BY <1>5 DEF Once
  <2>0. /\ x \in 1..Len(m.index) \/ x = Len(m.index) + 1
        /\ y \in 1..Len(m.index) \/ y = Len(m.index) + 1
      BY AnyParts
  <2>1. CASE x \in 1..Len(m.index) /\ y \in 1..Len(m.index)
      BY <1>0, <2>1, <1>4 DEF Once
  <2>2. CASE x \in 1..Len(m.index) /\ y = Len(m.index) + 1
    <3>1. m.element[x] = e /\ e # NoElement
        BY <2>2, <1>4
    <3> QED BY <1>0, <3>1, <2>2 DEF Elements
  <2>3. CASE x = Len(m.index) + 1 /\ y \in 1..Len(m.index)
    <3>1. m.element[y] = e /\ e # NoElement
        BY <2>3, <1>4
    <3> QED BY <1>0, <3>1, <2>3 DEF Elements
  <2> QED BY <2>0, <2>1, <2>2, <2>3
<1> QED BY <1>1, <1>3, <1>8, <1>9

(* removeElement() takes one entry out of the lists.                         *)
LEMMA AnyRemoveElementIs ==
    ASSUME NEW k \in Nat, NEW m \in AnyMap(k), NEW i \in Int, Reaches(m, i)
    PROVE  LET w == RemoveElement(m, i)
               j == Slot(m, GetName(m, i)) IN
           /\ w \in AnyMap(k) /\ w.names = m.names \ {GetName(m, i)}
           /\ w.listed = w.names
           /\ j \in 1..Len(m.index) /\ m.index[j] = GetName(m, i)
           /\ GetByIndex(m, i) = m.element[j]
           /\ DOMAIN w.index = 1..(Len(m.index) - 1)
           /\ DOMAIN w.element = 1..(Len(m.index) - 1)
           /\ \A x \in 1..(Len(m.index) - 1) :
                w.index[x] = m.index[IF x < j THEN x ELSE x + 1]
           /\ \A x \in 1..(Len(m.index) - 1) :
                w.element[x] = m.element[IF x < j THEN x ELSE x + 1]
<1>1. PICK n : n = GetName(m, i)
    OBVIOUS
<1>2. HasSlot(m, n)
    BY <1>1 DEF Reaches
<1>3. PICK j : j = Slot(m, n)
    OBVIOUS
<1>4. j \in 1..Len(m.index) /\ m.index[j] = n
    BY <1>2, <1>3, AnySlotFacts
<1>5. PICK w : w = RemoveElement(m, i)
    OBVIOUS
<1>6. w = [names |-> m.names \ {n}, listed |-> m.names \ {n}, index |-> RemoveAt(m.index, j),
           element |-> RemoveAt(m.element, j)]
    BY <1>1, <1>3, <1>5 DEF RemoveElement
<1> DEFINE L == Len(m.index)
           At(x) == IF x < j THEN x ELSE x + 1
<1>7. L \in Nat /\ j \in 1..L
    BY <1>4, AnyParts
<1>8. /\ w.index \in Seq(Name) /\ Len(w.index) = L - 1 /\ DOMAIN w.index = 1..(L - 1)
      /\ \A x \in 1..(L - 1) : w.index[x] = m.index[At(x)]
  <2>1. m.index \in Seq(Name)
      BY AnyParts
  <2>2. w.index = RemoveAt(m.index, j)
      BY <1>6
  <2> QED BY <1>4, <2>1, <2>2, RemoveAtFacts
<1>9. /\ w.element \in Seq((1..k) \union {NoElement}) /\ Len(w.element) = L - 1
      /\ DOMAIN w.element = 1..(L - 1)
      /\ \A x \in 1..(L - 1) : w.element[x] = m.element[At(x)]
  <2>1. m.element \in Seq((1..k) \union {NoElement}) /\ Len(m.element) = L
      BY AnyParts
  <2>2. w.element = RemoveAt(m.element, j)
      BY <1>6
  <2>3. j \in 1..Len(m.element)
      BY <1>4, <2>1
  <2>4. /\ RemoveAt(m.element, j) \in Seq((1..k) \union {NoElement})
        /\ Len(RemoveAt(m.element, j)) = Len(m.element) - 1
        /\ DOMAIN RemoveAt(m.element, j) = 1..(Len(m.element) - 1)
        /\ \A x \in 1..(Len(m.element) - 1) :
             RemoveAt(m.element, j)[x] = IF x < j THEN m.element[x] ELSE m.element[x + 1]
      BY <2>1, <2>3, RemoveAtFacts
  <2> QED BY <2>1, <2>2, <2>4
<1>13. w \in AnyMap(k)
  <2>2. m.names \ {n} \in SUBSET Name
      BY AnyParts
  <2> QED BY <1>6, <1>8, <1>9, <2>2 DEF AnyMap
<1>14. GetByIndex(m, i) = m.element[j]
    BY <1>1, <1>3 DEF GetByIndex
<1>15. w.names = m.names \ {n} /\ w.listed = w.names
    BY <1>6
<1>16. /\ \A x \in 1..(L - 1) : w.index[x] = m.index[IF x < j THEN x ELSE x + 1]
       /\ \A x \in 1..(L - 1) : w.element[x] = m.element[IF x < j THEN x ELSE x + 1]
    BY <1>8, <1>9
<1> QED BY <1>1, <1>3, <1>4, <1>5, <1>8, <1>9, <1>13, <1>14, <1>15, <1>16

\* The same of a whole map, which stays whole.
LEMMA RemoveElementIs ==
    ASSUME NEW k \in Nat, NEW m \in Map(k), NEW i \in Int, InOrder(m, i)
    PROVE  LET w == RemoveElement(m, i)
               j == Slot(m, GetName(m, i)) IN
           /\ w \in Map(k) /\ w.names = m.names \ {GetName(m, i)}
           /\ j \in 1..Len(m.index) /\ m.index[j] = GetName(m, i)
           /\ GetByIndex(m, i) = m.element[j]
           /\ DOMAIN w.index = 1..(Len(m.index) - 1)
           /\ DOMAIN w.element = 1..(Len(m.index) - 1)
           /\ \A x \in 1..(Len(m.index) - 1) :
                w.index[x] = m.index[IF x < j THEN x ELSE x + 1]
           /\ \A x \in 1..(Len(m.index) - 1) :
                w.element[x] = m.element[IF x < j THEN x ELSE x + 1]
<1>1. m \in AnyMap(k) /\ Reaches(m, i)
    BY MapParts, OrderFacts
<1>2. PICK w : w = RemoveElement(m, i)
    OBVIOUS
<1>3. PICK j, n : j = Slot(m, GetName(m, i)) /\ n = GetName(m, i)
    OBVIOUS
<1> DEFINE L == Len(m.index)
<1>4. /\ w \in AnyMap(k) /\ w.names = m.names \ {n} /\ w.listed = w.names
      /\ j \in 1..L /\ m.index[j] = n /\ DOMAIN w.index = 1..(L - 1)
      /\ \A x \in 1..(L - 1) : w.index[x] = m.index[IF x < j THEN x ELSE x + 1]
    BY <1>1, <1>2, <1>3, AnyRemoveElementIs
<1>5. L \in Nat
    BY MapParts
<1>6. ASSUME NEW x \in w.names PROVE HasSlot(w, x)
  <2>0. x \in m.names /\ x # n
      BY <1>4
  <2>1. PICK y \in 1..L : m.index[y] = x
    <3>1. \E y \in DOMAIN m.index : m.index[y] = x
        BY <2>0, MapParts
    <3> QED BY <3>1, MapParts
  <2>2. y # j
      BY <1>4, <2>0, <2>1
  <2>3. CASE y < j
    <3>1. y \in 1..(L - 1)
        BY <1>4, <1>5, <2>3
    <3> QED BY <1>4, <2>1, <2>3, <3>1 DEF HasSlot
  <2>4. CASE j < y
    <3>1. y - 1 \in 1..(L - 1) /\ ~(y - 1 < j) /\ (y - 1) + 1 = y
        BY <1>4, <1>5, <2>4
    <3>2. w.index[y - 1] = m.index[y]
        BY <1>4, <3>1
    <3> QED BY <1>4, <2>1, <3>1, <3>2 DEF HasSlot
  <2> QED BY <1>4, <1>5, <2>2, <2>3, <2>4
<1>7. w \in Map(k)
    BY <1>4, <1>6 DEF Map
<1> QED BY <1>1, <1>2, <1>7, AnyRemoveElementIs

\* The element of the entry is no longer there.
LEMMA RemoveElementFacts ==
    ASSUME NEW k \in Nat, NEW m \in AnyMap(k), NEW i \in Int, Reaches(m, i), Once(m)
    PROVE  LET w == RemoveElement(m, i) IN
           /\ w \in AnyMap(k) /\ Once(w)
           /\ Elements(w) \subseteq Elements(m) \ ({GetByIndex(m, i)} \ {NoElement})
<1>3. PICK j : j = Slot(m, GetName(m, i))
    OBVIOUS
<1>5. PICK w : w = RemoveElement(m, i)
    OBVIOUS
<1> DEFINE L == Len(m.index)
           At(x) == IF x < j THEN x ELSE x + 1
<1>4. w \in AnyMap(k) /\ j \in 1..L /\ GetByIndex(m, i) = m.element[j]
    BY <1>3, <1>5, AnyRemoveElementIs
<1>7. L \in Nat /\ j \in 1..L
    BY <1>4, AnyParts
<1>8. /\ DOMAIN w.element = 1..(Len(m.index) - 1)
      /\ \A x \in 1..(Len(m.index) - 1) :
           w.element[x] = m.element[IF x < j THEN x ELSE x + 1]
    BY <1>3, <1>5, AnyRemoveElementIs
<1>9. /\ DOMAIN w.element = 1..(L - 1)
      /\ \A x \in 1..(L - 1) : w.element[x] = m.element[At(x)]
    BY <1>8
<1>10. \A x \in 1..(L - 1) : At(x) \in (1..L) \ {j}
    BY <1>7
<1>12. \A x, y \in 1..(L - 1) : At(x) = At(y) => x = y
    BY <1>7
<1> HIDE DEF At
<1>15. \A x, y \in 1..L : m.element[x] = m.element[y] /\ m.element[x] # NoElement => x = y
    BY AnyParts DEF Once
<1>16. Elements(w) \subseteq Elements(m) \ ({m.element[j]} \ {NoElement})
  <2> SUFFICES ASSUME NEW x \in 1..(L - 1), w.element[x] # NoElement
               PROVE  /\ w.element[x] \in Elements(m)
                      /\ w.element[x] # m.element[j]
      BY <1>9 DEF Elements
  <2>1. At(x) \in 1..L /\ At(x) # j /\ w.element[x] = m.element[At(x)]
      BY <1>9, <1>10
  <2>2. At(x) \in DOMAIN m.element
      BY <2>1, AnyParts
  <2>3. w.element[x] \in Elements(m)
      BY <2>1, <2>2 DEF Elements
  <2> QED BY <2>1, <2>3, <1>4, <1>15
<1>17. Once(w)
  <2> SUFFICES ASSUME NEW x \in 1..(L - 1), NEW y \in 1..(L - 1),
                      w.element[x] = w.element[y], w.element[x] # NoElement
               PROVE  x = y
      BY <1>9 DEF Once
  <2>1. At(x) = At(y)
      BY <1>9, <1>10, <1>15
  <2> QED BY <2>1, <1>12
<1> QED BY <1>4, <1>5, <1>16, <1>17

(* renameElement() of a name that has a slot changes the name of one entry    *)
(* and leaves the elements.                                                  *)
LEMMA AnyRenameElementIs ==
    ASSUME NEW k \in Nat, NEW m \in AnyMap(k), NEW old, HasSlot(m, old), NEW new \in Name
    PROVE  LET w == RenameElement(m, old, new)
               j == Slot(m, old) IN
           /\ w \in AnyMap(k) /\ w.names = (m.names \ {old}) \union {new}
           /\ w.listed = w.names /\ w.element = m.element
           /\ j \in 1..Len(m.index) /\ m.index[j] = old
           /\ DOMAIN w.index = 1..Len(m.index)
           /\ \A x \in 1..Len(m.index) : w.index[x] = IF x = j THEN new ELSE m.index[x]
<1>1. PICK j : j = Slot(m, old)
    OBVIOUS
<1>2. j \in 1..Len(m.index) /\ m.index[j] = old
    BY <1>1, AnySlotFacts
<1>3. PICK w : w = RenameElement(m, old, new)
    OBVIOUS
<1>4. w = [names |-> (m.names \ {old}) \union {new}, listed |-> (m.names \ {old}) \union {new},
           index |-> [m.index EXCEPT ![j] = new], element |-> m.element]
  <2>1. PICK N : N = (m.names \ {old}) \union {new}
      OBVIOUS
  <2>2. w = [m EXCEPT !.names = N, !.listed = N, !.index = [m.index EXCEPT ![j] = new]]
      BY <1>1, <1>3, <2>1 DEF RenameElement
  <2>3. w = [names |-> N, listed |-> N, index |-> [m.index EXCEPT ![j] = new],
             element |-> m.element]
    <3>1. m \in [names : SUBSET Name, listed : SUBSET Name, index : Seq(Name),
                 element : Seq((1..k) \union {NoElement})]
        BY DEF AnyMap
    <3> QED BY <2>2, <3>1
  <2> QED BY <2>1, <2>3
<1>5. /\ w.index \in Seq(Name) /\ Len(w.index) = Len(m.index)
      /\ \A x \in 1..Len(m.index) : w.index[x] = IF x = j THEN new ELSE m.index[x]
  <2>1. m.index \in Seq(Name)
      BY AnyParts
  <2>2. w.index = [m.index EXCEPT ![j] = new]
      BY <1>4
  <2> QED BY <1>2, <2>1, <2>2, ExceptSeq
<1>6. DOMAIN w.index = 1..Len(m.index) /\ Len(m.index) = Len(m.element)
  <2>1. DOMAIN w.index = DOMAIN m.index
      BY <1>4
  <2> QED BY <2>1, AnyParts
<1>8. w \in AnyMap(k)
  <2>1. (m.names \ {old}) \union {new} \in SUBSET Name
      BY AnyParts
  <2>2. m.element \in Seq((1..k) \union {NoElement})
      BY AnyParts
  <2> QED BY <1>4, <1>5, <1>6, <2>1, <2>2 DEF AnyMap
<1>9. w.names = (m.names \ {old}) \union {new} /\ w.listed = w.names /\ w.element = m.element
    BY <1>4
<1> QED BY <1>1, <1>2, <1>3, <1>5, <1>6, <1>8, <1>9

\* The same of a whole map, which stays whole.
LEMMA RenameElementIs ==
    ASSUME NEW k \in Nat, NEW m \in Map(k), NEW old \in m.names, NEW new \in Name
    PROVE  LET w == RenameElement(m, old, new)
               j == Slot(m, old) IN
           /\ w \in Map(k) /\ w.names = (m.names \ {old}) \union {new}
           /\ w.element = m.element
           /\ j \in 1..Len(m.index) /\ m.index[j] = old
           /\ DOMAIN w.index = 1..Len(m.index)
           /\ \A x \in 1..Len(m.index) : w.index[x] = IF x = j THEN new ELSE m.index[x]
<1>1. m \in AnyMap(k) /\ HasSlot(m, old)
    BY DEF Map
<1>2. PICK w : w = RenameElement(m, old, new)
    OBVIOUS
<1>3. PICK j : j = Slot(m, old)
    OBVIOUS
<1>4. /\ w \in AnyMap(k) /\ w.names = (m.names \ {old}) \union {new} /\ w.listed = w.names
      /\ j \in 1..Len(m.index) /\ m.index[j] = old /\ DOMAIN w.index = 1..Len(m.index)
      /\ \A x \in 1..Len(m.index) : w.index[x] = IF x = j THEN new ELSE m.index[x]
    BY <1>1, <1>2, <1>3, AnyRenameElementIs
<1>5. ASSUME NEW x \in w.names PROVE HasSlot(w, x)
  <2>1. CASE x = new
      BY <1>4, <2>1 DEF HasSlot
  <2>2. CASE x \in m.names \ {old}
    <3>1. PICK y \in 1..Len(m.index) : m.index[y] = x
      <4>1. \E y \in DOMAIN m.index : m.index[y] = x
          BY <2>2, MapParts
      <4> QED BY <4>1, MapParts
    <3>2. y # j
        BY <1>4, <2>2, <3>1
    <3> QED BY <1>4, <3>1, <3>2 DEF HasSlot
  <2> QED BY <1>4, <2>1, <2>2
<1>6. w \in Map(k)
    BY <1>4, <1>5 DEF Map
<1> QED BY <1>1, <1>2, <1>6, AnyRenameElementIs

\* Its elements are the same, and so they are when it throws.
LEMMA RenameElementFacts ==
    ASSUME NEW k \in Nat, NEW m \in AnyMap(k), NEW old \in Name, NEW new \in Name, Once(m)
    PROVE  LET w == RenameElement(m, old, new) IN
           /\ w \in AnyMap(k) /\ Once(w)
           /\ Elements(w) = Elements(m)
<1>1. PICK w : w = RenameElement(m, old, new)
    OBVIOUS
<1>2. w \in AnyMap(k) /\ w.element = m.element
  <2>1. CASE HasSlot(m, old)
      BY <1>1, <2>1, AnyRenameElementIs
  <2>2. CASE ~HasSlot(m, old)
    <3>1. w = [m EXCEPT !.names = (m.names \ {old}) \union {new}]
        BY <1>1, <2>2 DEF RenameElement
    <3>2. (m.names \ {old}) \union {new} \in SUBSET Name
        BY AnyParts
    <3> QED BY <3>1, <3>2, AnyParts DEF AnyMap
  <2> QED BY <2>1, <2>2
<1> QED BY <1>1, <1>2 DEF Once, Elements

\* What refill() makes of a map, m: w, with the names that m has not at the end.
Refilled(w, m, new) ==
  LET added == Sorted(new \ m.names)
      c == Cardinality(new \ m.names) IN
  /\ w.names = m.names \union new
  /\ w.listed = IF new \subseteq m.names THEN m.listed ELSE w.names
  /\ c \in Nat /\ added \in [1..c -> new \ m.names]
  /\ DOMAIN w.index = 1..(Len(m.index) + c)
  /\ DOMAIN w.element = 1..(Len(m.index) + c)
  /\ \A x \in 1..Len(m.index) : w.index[x] = m.index[x]
  /\ \A x \in 1..c : w.index[Len(m.index) + x] = added[x]
  /\ \A x \in 1..Len(m.index) : w.element[x] = m.element[x]
  /\ \A x \in 1..c : w.element[Len(m.index) + x] = NoElement

(* refill() adds entries without an element.                                 *)
LEMMA AnyRefillIs ==
    ASSUME NEW k \in Nat, NEW m \in AnyMap(k), NEW new \in SUBSET Name
    PROVE  Refill(m, new) \in AnyMap(k) /\ Refilled(Refill(m, new), m, new)
<1> DEFINE T == new \ m.names
           L == Len(m.index)
<1>1. T \in SUBSET Nat /\ IsFiniteSet(T)
  <2>1. T \subseteq Name
      OBVIOUS
  <2> QED BY <2>1, NameAssumption, FS_Subset
<1>2. PICK added, c : added = Sorted(T) /\ c = Cardinality(T)
    OBVIOUS
<1>3. /\ c \in Nat /\ added \in [1..c -> T] /\ \A n \in T : \E x \in 1..c : added[x] = n
  <2>1. c \in Nat
      BY <1>1, <1>2, SortedFacts
  <2>2. added \in [1..c -> T]
      BY <1>1, <1>2, SortedFacts
  <2>3. \A n \in T : \E x \in 1..c : Sorted(T)[x] = n
      BY <1>1, <1>2, SortedFacts
  <2> QED BY <1>2, <2>1, <2>2, <2>3
<1>4. added \in Seq(Name) /\ Len(added) = c /\ DOMAIN added = 1..c
  <2>1. added \in [1..c -> Name]
      BY <1>3
  <2> QED BY <1>3, <2>1
<1>5. PICK none : none = [x \in DOMAIN added |-> NoElement]
    OBVIOUS
<1>6. none \in Seq((1..k) \union {NoElement}) /\ Len(none) = c /\ \A x \in 1..c : none[x] = NoElement
  <2>1. none \in [1..c -> (1..k) \union {NoElement}]
      BY <1>4, <1>5
  <2>2. PICK S : S = (1..k) \union {NoElement}
      OBVIOUS
  <2>3. none \in [1..c -> S]
      BY <2>1, <2>2
  <2>4. Len(none) = c /\ none \in Seq(S)
      BY <1>3, <2>3
  <2> QED BY <1>4, <1>5, <2>2, <2>4
<1>7. PICK w : w = Refill(m, new)
    OBVIOUS
<1>8. w = [names |-> m.names \union new,
           listed |-> IF new \subseteq m.names THEN m.listed ELSE m.names \union new,
           index |-> m.index \o added,
           element |-> m.element \o none]
    BY <1>2, <1>5, <1>7 DEF Refill
<1>9. L \in Nat /\ Len(m.element) = L
    BY AnyParts
<1>10. /\ w.index \in Seq(Name) /\ Len(w.index) = L + c
       /\ \A x \in 1..(L + c) : w.index[x] = IF x <= L THEN m.index[x] ELSE added[x - L]
  <2>1. m.index \in Seq(Name)
      BY AnyParts
  <2>2. w.index = m.index \o added
      BY <1>8
  <2>3. /\ m.index \o added \in Seq(Name)
        /\ Len(m.index \o added) = Len(m.index) + Len(added)
        /\ \A x \in 1..(Len(m.index) + Len(added)) :
             (m.index \o added)[x] = IF x <= Len(m.index) THEN m.index[x]
                                     ELSE added[x - Len(m.index)]
      BY <1>4, <2>1, ConcatProperties
  <2> QED BY <1>4, <2>2, <2>3
<1>11. /\ w.element \in Seq((1..k) \union {NoElement}) /\ Len(w.element) = L + c
       /\ \A x \in 1..(L + c) : w.element[x] = IF x <= L THEN m.element[x] ELSE NoElement
  <2>1. m.element \in Seq((1..k) \union {NoElement})
      BY AnyParts
  <2>2. w.element = m.element \o none
      BY <1>8
  <2>0. /\ m.element \o none \in Seq((1..k) \union {NoElement})
        /\ Len(m.element \o none) = Len(m.element) + Len(none)
        /\ \A x \in 1..(Len(m.element) + Len(none)) :
             (m.element \o none)[x] = IF x <= Len(m.element) THEN m.element[x]
                                      ELSE none[x - Len(m.element)]
      BY <1>6, <2>1, ConcatProperties
  <2>3. /\ w.element \in Seq((1..k) \union {NoElement})
        /\ Len(w.element) = Len(m.element) + Len(none)
        /\ \A x \in 1..(Len(m.element) + Len(none)) :
             w.element[x] = IF x <= Len(m.element) THEN m.element[x] ELSE none[x - Len(m.element)]
      BY <2>0, <2>2
  <2>4. /\ Len(w.element) = L + c
        /\ \A x \in 1..(L + c) : w.element[x] = IF x <= L THEN m.element[x] ELSE none[x - L]
      BY <1>6, <1>9, <2>3
  <2>5. \A x \in 1..(L + c) : ~(x <= L) => x - L \in 1..c
      BY <1>3, <1>9
  <2> QED BY <1>6, <2>3, <2>4, <2>5
<1>12. DOMAIN w.index = 1..(L + c) /\ DOMAIN w.element = 1..(L + c)
    BY <1>3, <1>9, <1>10, <1>11
<1> HIDE DEF T, L
<1>13. /\ w.names = m.names \union new
       /\ w.listed = IF new \subseteq m.names THEN m.listed ELSE w.names
  <2>1. PICK a, b : a = m.index \o added /\ b = m.element \o none
      OBVIOUS
  <2>2. w = [names |-> m.names \union new,
             listed |-> IF new \subseteq m.names THEN m.listed ELSE m.names \union new,
             index |-> a, element |-> b]
      BY <1>8, <2>1
  <2> HIDE DEF T, L
  <2> QED BY <2>2
<1>14. w \in AnyMap(k)
  <2>1. m.names \union new \in SUBSET Name /\ m.listed \in SUBSET Name
      BY AnyParts
  <2>2. w.names \in SUBSET Name /\ w.listed \in SUBSET Name
      BY <1>13, <2>1
  <2>3. Len(w.index) = Len(w.element)
      BY <1>10, <1>11
  <2>4. w = [names |-> w.names, listed |-> w.listed, index |-> w.index, element |-> w.element]
      BY <1>8
  <2> QED BY <1>10, <1>11, <2>2, <2>3, <2>4 DEF AnyMap
<1>17. /\ \A x \in 1..L : w.index[x] = m.index[x]
       /\ \A x \in 1..L : w.element[x] = m.element[x]
  <2>1. \A x \in 1..L : x \in 1..(L + c) /\ x <= L
      BY <1>3, <1>9
  <2> QED BY <1>10, <1>11, <2>1
<1>18. /\ \A x \in 1..c : w.index[L + x] = added[x]
       /\ \A x \in 1..c : w.element[L + x] = NoElement
  <2>1. \A x \in 1..c : L + x \in 1..(L + c) /\ ~(L + x <= L) /\ (L + x) - L = x
      BY <1>3, <1>9
  <2> QED BY <1>10, <1>11, <2>1
<1>19. Refilled(w, m, new)
    BY <1>2, <1>3, <1>12, <1>13, <1>17, <1>18 DEF T, L, Refilled
<1> QED BY <1>7, <1>14, <1>19

\* The same of a whole map, which stays whole.
LEMMA RefillIs ==
    ASSUME NEW k \in Nat, NEW m \in Map(k), NEW new \in SUBSET Name
    PROVE  Refill(m, new) \in Map(k) /\ Refilled(Refill(m, new), m, new)
<1>1. PICK w : w = Refill(m, new)
    OBVIOUS
<1>2. w \in AnyMap(k) /\ Refilled(w, m, new)
    BY <1>1, MapParts, AnyRefillIs
<1>3. PICK added, c, T : added = Sorted(T) /\ c = Cardinality(T) /\ T = new \ m.names
    OBVIOUS
<1>4. /\ c \in Nat /\ \A n \in T : \E x \in 1..c : added[x] = n
  <2>1. T \in SUBSET Nat /\ IsFiniteSet(T)
    <3>1. T \subseteq Name
        BY <1>3
    <3> QED BY <3>1, NameAssumption, FS_Subset
  <2>2. c \in Nat
      BY <1>3, <2>1, SortedFacts
  <2>3. \A n \in T : \E x \in 1..c : Sorted(T)[x] = n
      BY <1>3, <2>1, SortedFacts
  <2> QED BY <1>3, <2>2, <2>3
<1>5. PICK L : L = Len(m.index)
    OBVIOUS
<1>6. /\ w.names = m.names \union T /\ DOMAIN w.index = 1..(L + c) /\ L \in Nat
      /\ w.listed = IF new \subseteq m.names THEN m.listed ELSE w.names
      /\ \A x \in 1..L : w.index[x] = m.index[x]
      /\ \A x \in 1..c : w.index[L + x] = added[x]
    BY <1>2, <1>3, <1>5, MapParts DEF Refilled
<1>7. ASSUME NEW n \in w.names PROVE HasSlot(w, n)
  <2>1. CASE n \in m.names
    <3>1. PICK y \in 1..L : m.index[y] = n
        BY ZenonT(30), <1>5, <2>1, MapParts
    <3>2. y \in 1..(L + c)
        BY <1>4, <1>6
    <3> QED BY <1>6, <3>1, <3>2 DEF HasSlot
  <2>2. CASE n \in T
    <3>1. PICK y \in 1..c : added[y] = n
        BY <1>4, <2>2
    <3>2. L + y \in 1..(L + c)
        BY <1>4, <1>6
    <3> QED BY <1>6, <3>1, <3>2 DEF HasSlot
  <2> QED BY <1>6, <2>1, <2>2
<1>8. w.listed = w.names
  <2>1. CASE new \subseteq m.names
    <3>1. w.names = m.names
        BY <1>2, <2>1 DEF Refilled
    <3>2. w.listed = m.listed
        BY <1>6, <2>1
    <3> QED BY <3>1, <3>2, MapParts
  <2>2. CASE ~(new \subseteq m.names)
      BY <1>6, <2>2
  <2> QED BY <2>1, <2>2
<1> QED BY <1>1, <1>2, <1>7, <1>8 DEF Map

\* Its elements are the same.
LEMMA RefillFacts ==
    ASSUME NEW k \in Nat, NEW m \in AnyMap(k), NEW new \in SUBSET Name, Once(m)
    PROVE  LET w == Refill(m, new) IN
           /\ w \in AnyMap(k) /\ Once(w)
           /\ Elements(w) = Elements(m)
<1>1. PICK w : w = Refill(m, new)
    OBVIOUS
<1>2. w \in AnyMap(k) /\ Refilled(w, m, new)
    BY <1>1, AnyRefillIs
<1>4. PICK c : c = Cardinality(new \ m.names)
    OBVIOUS
<1> DEFINE L == Len(m.index)
<1>3. c \in Nat /\ L \in Nat
    BY <1>2, <1>4, AnyParts DEF Refilled
<1>11. /\ DOMAIN w.element = 1..(L + c)
       /\ \A x \in 1..L : w.element[x] = m.element[x]
       /\ \A x \in 1..c : w.element[L + x] = NoElement
    BY <1>2, <1>4 DEF Refilled
<1>17. DOMAIN m.element = 1..L
    BY AnyParts
<1> HIDE DEF L
<1>18. \A x \in DOMAIN w.element : w.element[x] # NoElement =>
         x \in DOMAIN m.element /\ w.element[x] = m.element[x]
  <2> SUFFICES ASSUME NEW x \in 1..(L + c), w.element[x] # NoElement
               PROVE  x \in 1..L
      BY <1>11, <1>17
  <2>1. ASSUME ~(x \in 1..L) PROVE FALSE
    <3>1. x - L \in 1..c /\ L + (x - L) = x
        BY <1>3, <2>1
    <3> QED BY <1>11, <3>1
  <2> QED BY <2>1
<1>19. \A x \in DOMAIN m.element : x \in DOMAIN w.element /\ w.element[x] = m.element[x]
  <2>1. \A x \in 1..L : x \in 1..(L + c)
      BY <1>3
  <2> QED BY <1>11, <1>17, <2>1
<1>20. Elements(w) = Elements(m)
    BY <1>18, <1>19 DEF Elements
<1>21. Once(w)
    BY <1>18 DEF Once
<1> QED BY <1>1, <1>2, <1>20, <1>21

----------------------------------------------------------------------------
(* An element is in one place at a time. *)

Object == [name : Name, kind : {"table", "view"}]

\* What a call can have still to do, in a database with k elements, and what a
\* refresh has.
Change(k) ==
  [do : {"create", "remove"}, on : Container, name : Name, to : Name, at : Int]
    \union [do : {"add", "insert"}, on : Container, name : Name, to : Name,
            element : (1..k) \union {NoElement}]
    \union [do : {"rename", "relabel"}, on : Container, name : Name, to : Name]
Step(k) == Change(k) \union [do : {"empty", "refill"}, on : Container]

\* The elements that a call has created and not yet put into a map, each of
\* which it puts into one.
Brings(s) == s.do \in {"add", "insert"} /\ s.element # NoElement
Waiting(steps) == {steps[j].element : j \in {x \in DOMAIN steps : Brings(steps[x])}}
WaitingOnce(steps) ==
  \A i, j \in DOMAIN steps :
    Brings(steps[i]) /\ Brings(steps[j]) /\ steps[i].element = steps[j].element => i = j

\* An element is in one of the maps, once, or with the call that will add it, or
\* disposed.
Placed(mp, todo, gone) ==
  /\ \A c \in Container : Once(mp[c]) /\ Elements(mp[c]) \cap gone = {}
  /\ Elements(mp["tables"]) \cap Elements(mp["views"]) = {}
  /\ \A th \in Thread :
       /\ WaitingOnce(todo[th])
       /\ Waiting(todo[th]) \cap gone = {}
       /\ \A c \in Container : Waiting(todo[th]) \cap Elements(mp[c]) = {}
       /\ \A o \in Thread : o # th => Waiting(todo[th]) \cap Waiting(todo[o]) = {}

Safe(mp, todo, gone, k) ==
  /\ mp \in [Container -> AnyMap(k)]
  /\ todo \in [Thread -> Seq(Step(k))]
  /\ gone \subseteq 1..k
  /\ Placed(mp, todo, gone)

\* What is disposed and no longer in a map: while refresh() disposes of the
\* elements of a container, the map still has them.
Gone == {e \in disposed : \A c \in Container : Disposing(c) => e \notin Elements(map[c])}

\* An element is in one of the maps, once, or with the call that will add it, or
\* disposed; it is in a map and disposed only in the middle of refresh().
OnePlace ==
  /\ db \in [Name -> {"none", "table", "view"}]
  /\ elem \in Seq(Object)
  /\ disposed \subseteq 1..Len(elem)
  /\ Safe(map, doing, Gone, Len(elem))

\* The elements of maps and of calls are among those created.
LEMMA ElementsType ==
    ASSUME NEW k \in Nat, NEW mp, NEW todo, NEW gone, Safe(mp, todo, gone, k)
    PROVE  /\ \A c \in Container : mp[c] \in AnyMap(k) /\ Elements(mp[c]) \subseteq 1..k
           /\ \A th \in Thread : /\ todo[th] \in Seq(Step(k))
                                /\ Waiting(todo[th]) \subseteq 1..k
           /\ gone \subseteq 1..k
<1>1. ASSUME NEW c \in Container
      PROVE  mp[c] \in AnyMap(k) /\ Elements(mp[c]) \subseteq 1..k
  <2>1. mp[c] \in AnyMap(k)
      BY DEF Safe
  <2>2. PICK m : m = mp[c]
      OBVIOUS
  <2>3. m \in AnyMap(k)
      BY <2>1, <2>2
  <2>4. \A i \in DOMAIN m.element : m.element[i] \in (1..k) \union {NoElement}
      BY <2>3, AnyParts
  <2> QED BY <2>2, <2>3, <2>4 DEF Elements
<1>2. ASSUME NEW th \in Thread
      PROVE  todo[th] \in Seq(Step(k)) /\ Waiting(todo[th]) \subseteq 1..k
  <2>1. todo[th] \in Seq(Step(k))
      BY DEF Safe
  <2>2. \A j \in DOMAIN todo[th] : todo[th][j] \in Step(k)
      BY <2>1
  <2>3. \A s \in Step(k) : Brings(s) => s.element \in 1..k
      BY DEF Step, Change, Brings
  <2> QED BY <2>1, <2>2, <2>3 DEF Waiting
<1> QED BY <1>1, <1>2 DEF Safe

\* What a call has to do stays so when elements are created.
LEMMA StepGrows ==
    ASSUME NEW k \in Nat, NEW l \in Nat, k <= l, NEW s \in Seq(Step(k))
    PROVE  s \in Seq(Step(l))
<1>1. 1..k \subseteq 1..l
    OBVIOUS
<1>2. Step(k) \subseteq Step(l)
    BY <1>1 DEF Step, Change
<1> QED BY <1>2, SeqMonotonic

(* One map of the two is replaced by one that has lost the elements X, which *)
(* are disposed, and has got the elements N, which were nowhere.             *)
LEMMA MapChanges ==
    ASSUME NEW k \in Nat, NEW l \in Nat, k <= l,
           NEW mp, NEW todo, NEW gone, Safe(mp, todo, gone, k),
           NEW c \in Container, NEW m \in AnyMap(l), Once(m), NEW X, NEW N,
           X \subseteq Elements(mp[c]),
           Elements(m) \subseteq (Elements(mp[c]) \ X) \union N,
           N \cap gone = {},
           \A d \in Container : N \cap Elements(mp[d]) = {},
           \A th \in Thread : N \cap Waiting(todo[th]) = {}
    PROVE  Safe([mp EXCEPT ![c] = m], todo, gone \union X, l)
<1>1. PICK mp2 : mp2 = [mp EXCEPT ![c] = m]
    OBVIOUS
<1>2. mp2 \in [Container -> AnyMap(l)]
  <2>1. mp \in [Container -> AnyMap(k)]
      BY DEF Safe
  <2>2. \A d \in Container : mp[d] \in AnyMap(l)
      BY <2>1, MapGrows
  <2> QED BY <1>1, <2>1, <2>2
<1>3. \A d \in Container : mp2[d] = IF d = c THEN m ELSE mp[d]
    BY <1>1 DEF Safe
<1>4. todo \in [Thread -> Seq(Step(l))]
  <2>1. todo \in [Thread -> Seq(Step(k))]
      BY DEF Safe
  <2>2. \A th \in Thread : todo[th] \in Seq(Step(l))
      BY <2>1, StepGrows
  <2> QED BY <2>1, <2>2
<1>5. gone \union X \subseteq 1..l
  <2>1. gone \union X \subseteq 1..k
      BY ElementsType
  <2> QED BY <2>1
<1>6. Placed(mp, todo, gone)
    BY DEF Safe
<1>7. \A d \in Container :
        Elements(mp2[d]) \subseteq IF d = c THEN (Elements(mp[c]) \ X) \union N ELSE Elements(mp[d])
    BY <1>3
<1>8. "tables" \in Container /\ "views" \in Container /\ \A d \in Container : d \in {"tables", "views"}
    BY DEF Container
<1>9. \A d \in Container : d # c => Elements(mp[d]) \cap Elements(mp[c]) = {}
    BY <1>6, <1>8 DEF Placed
<1>10. \A d \in Container : Once(mp2[d]) /\ Elements(mp2[d]) \cap (gone \union X) = {}
  <2> SUFFICES ASSUME NEW d \in Container
               PROVE  Once(mp2[d]) /\ Elements(mp2[d]) \cap (gone \union X) = {}
      OBVIOUS
  <2>1. Once(mp2[d])
      BY <1>3, <1>6 DEF Placed
  <2>2. Elements(mp[d]) \cap gone = {}
      BY <1>6 DEF Placed
  <2>3. CASE d = c
      BY <1>7, <2>1, <2>2, <2>3
  <2>4. CASE d # c
      BY <1>7, <1>9, <2>1, <2>2, <2>4
  <2> QED BY <2>3, <2>4
<1>11. Elements(mp2["tables"]) \cap Elements(mp2["views"]) = {}
  <2>1. CASE c = "tables"
      BY <1>7, <1>8, <1>9, <2>1
  <2>2. CASE c = "views"
      BY <1>7, <1>8, <1>9, <2>2
  <2> QED BY <1>8, <2>1, <2>2
<1>12. \A th \in Thread :
         /\ WaitingOnce(todo[th])
         /\ Waiting(todo[th]) \cap (gone \union X) = {}
         /\ \A d \in Container : Waiting(todo[th]) \cap Elements(mp2[d]) = {}
         /\ \A o \in Thread : o # th => Waiting(todo[th]) \cap Waiting(todo[o]) = {}
  <2> SUFFICES ASSUME NEW th \in Thread
               PROVE  /\ WaitingOnce(todo[th])
                      /\ Waiting(todo[th]) \cap (gone \union X) = {}
                      /\ \A d \in Container : Waiting(todo[th]) \cap Elements(mp2[d]) = {}
                      /\ \A o \in Thread : o # th => Waiting(todo[th]) \cap Waiting(todo[o]) = {}
      OBVIOUS
  <2>1. /\ WaitingOnce(todo[th])
        /\ Waiting(todo[th]) \cap gone = {}
        /\ \A d \in Container : Waiting(todo[th]) \cap Elements(mp[d]) = {}
        /\ \A o \in Thread : o # th => Waiting(todo[th]) \cap Waiting(todo[o]) = {}
      BY <1>6 DEF Placed
  <2>2. Waiting(todo[th]) \cap (gone \union X) = {}
      BY <2>1
  <2>3. ASSUME NEW d \in Container PROVE Waiting(todo[th]) \cap Elements(mp2[d]) = {}
    <3>1. N \cap Waiting(todo[th]) = {}
        OBVIOUS
    <3> QED BY <1>7, <2>1, <3>1
  <2> QED BY <2>1, <2>2, <2>3
<1> QED BY <1>1, <1>2, <1>4, <1>5, <1>10, <1>11, <1>12 DEF Safe, Placed

(* One call has something else to do, with elements that it had or that are  *)
(* new.                                                                      *)
LEMMA CallChanges ==
    ASSUME NEW k \in Nat, NEW l \in Nat, k <= l,
           NEW mp, NEW todo, NEW gone, Safe(mp, todo, gone, k),
           NEW th \in Thread, NEW steps \in Seq(Step(l)), WaitingOnce(steps), NEW N,
           N \cap (1..k) = {},
           Waiting(steps) \subseteq Waiting(todo[th]) \union N
    PROVE  Safe(mp, [todo EXCEPT ![th] = steps], gone, l)
<1>1. PICK todo2 : todo2 = [todo EXCEPT ![th] = steps]
    OBVIOUS
<1>2. mp \in [Container -> AnyMap(l)]
  <2>1. mp \in [Container -> AnyMap(k)]
      BY DEF Safe
  <2>2. \A d \in Container : mp[d] \in AnyMap(l)
      BY <2>1, MapGrows
  <2> QED BY <2>1, <2>2
<1>3. todo2 \in [Thread -> Seq(Step(l))]
  <2>1. todo \in [Thread -> Seq(Step(k))]
      BY DEF Safe
  <2>2. \A o \in Thread : todo[o] \in Seq(Step(l))
      BY <2>1, StepGrows
  <2> QED BY <1>1, <2>1, <2>2
<1>4. \A o \in Thread : todo2[o] = IF o = th THEN steps ELSE todo[o]
    BY <1>1 DEF Safe
<1>5. gone \subseteq 1..k /\ 1..k \subseteq 1..l
    BY ElementsType
<1>6. Placed(mp, todo, gone)
    BY DEF Safe
<1>7. \A o \in Thread : Waiting(todo2[o]) \subseteq Waiting(todo[o]) \union (IF o = th THEN N ELSE {})
    BY <1>4
<1>8. /\ \A c \in Container : N \cap Elements(mp[c]) = {}
      /\ \A o \in Thread : N \cap Waiting(todo[o]) = {}
      /\ N \cap gone = {}
    BY ElementsType
<1>9. \A o \in Thread :
        /\ WaitingOnce(todo2[o])
        /\ Waiting(todo2[o]) \cap gone = {}
        /\ \A c \in Container : Waiting(todo2[o]) \cap Elements(mp[c]) = {}
        /\ \A q \in Thread : q # o => Waiting(todo2[o]) \cap Waiting(todo2[q]) = {}
  <2> SUFFICES ASSUME NEW o \in Thread
               PROVE  /\ WaitingOnce(todo2[o])
                      /\ Waiting(todo2[o]) \cap gone = {}
                      /\ \A c \in Container : Waiting(todo2[o]) \cap Elements(mp[c]) = {}
                      /\ \A q \in Thread : q # o => Waiting(todo2[o]) \cap Waiting(todo2[q]) = {}
      OBVIOUS
  <2>1. /\ WaitingOnce(todo[o])
        /\ Waiting(todo[o]) \cap gone = {}
        /\ \A c \in Container : Waiting(todo[o]) \cap Elements(mp[c]) = {}
        /\ \A q \in Thread : q # o => Waiting(todo[o]) \cap Waiting(todo[q]) = {}
      BY <1>6 DEF Placed
  <2>2. WaitingOnce(todo2[o])
      BY <1>4, <2>1
  <2>3. Waiting(todo2[o]) \cap gone = {}
      BY <1>7, <1>8, <2>1
  <2>4. \A c \in Container : Waiting(todo2[o]) \cap Elements(mp[c]) = {}
      BY <1>7, <1>8, <2>1
  <2>5. ASSUME NEW q \in Thread, q # o PROVE Waiting(todo2[o]) \cap Waiting(todo2[q]) = {}
      BY <1>7, <1>8, <2>1, <2>5
  <2> QED BY <2>2, <2>3, <2>4, <2>5
<1> QED BY <1>1, <1>2, <1>3, <1>5, <1>6, <1>9 DEF Safe, Placed

\* Elements are created: nothing else changes.
LEMMA SafeGrows ==
    ASSUME NEW k \in Nat, NEW l \in Nat, k <= l,
           NEW mp, NEW todo, NEW gone, Safe(mp, todo, gone, k)
    PROVE  Safe(mp, todo, gone, l)
<1>1. mp \in [Container -> AnyMap(l)]
  <2>1. mp \in [Container -> AnyMap(k)]
      BY DEF Safe
  <2>2. \A d \in Container : mp[d] \in AnyMap(l)
      BY <2>1, MapGrows
  <2> QED BY <2>1, <2>2
<1>2. todo \in [Thread -> Seq(Step(l))]
  <2>1. todo \in [Thread -> Seq(Step(k))]
      BY DEF Safe
  <2>2. \A o \in Thread : todo[o] \in Seq(Step(l))
      BY <2>1, StepGrows
  <2> QED BY <2>1, <2>2
<1>3. gone \subseteq 1..k /\ 1..k \subseteq 1..l
    BY ElementsType
<1> QED BY <1>1, <1>2, <1>3 DEF Safe

\* Less is said to be disposed.
LEMMA SafeLess ==
    ASSUME NEW k, NEW mp, NEW todo, NEW gone, Safe(mp, todo, gone, k),
           NEW less \in SUBSET gone
    PROVE  Safe(mp, todo, less, k)
<1>1. mp \in [Container -> AnyMap(k)] /\ todo \in [Thread -> Seq(Step(k))] /\ gone \subseteq 1..k
    BY DEF Safe
<1>2. Placed(mp, todo, gone)
    BY DEF Safe
<1>3. \A c \in Container : Once(mp[c]) /\ Elements(mp[c]) \cap less = {}
  <2>1. \A c \in Container : Once(mp[c]) /\ Elements(mp[c]) \cap gone = {}
      BY <1>2 DEF Placed
  <2> QED BY <2>1
<1>4. \A th \in Thread : Waiting(todo[th]) \cap less = {}
  <2>1. \A th \in Thread : Waiting(todo[th]) \cap gone = {}
      BY <1>2 DEF Placed
  <2> QED BY <2>1
<1>5. Placed(mp, todo, less)
    BY <1>2, <1>3, <1>4 DEF Placed
<1> QED BY <1>1, <1>5 DEF Safe

\* A call that has made its first change.
LEMMA TailFacts ==
    ASSUME NEW k \in Nat, NEW s \in Seq(Step(k)), s # <<>>, WaitingOnce(s)
    PROVE  /\ Head(s) \in Step(k)
           /\ Tail(s) \in Seq(Step(k))
           /\ WaitingOnce(Tail(s))
           /\ Waiting(Tail(s)) \subseteq Waiting(s)
           /\ Brings(Head(s)) => /\ Head(s).element \in Waiting(s)
                                 /\ Head(s).element \notin Waiting(Tail(s))
<1>1. PICK S : S = Step(k)
    OBVIOUS
<1>2. s \in Seq(S)
    BY <1>1
<1>3. PICK t : t = Tail(s)
    OBVIOUS
<1>4. /\ Head(s) \in S /\ t \in Seq(S) /\ Len(t) = Len(s) - 1
      /\ \A i \in 1..Len(t) : t[i] = s[i + 1]
    BY <1>2, <1>3, HeadTailProperties
<1>5. Len(s) \in Nat \ {0} /\ DOMAIN s = 1..Len(s) /\ Head(s) = s[1]
    BY <1>2, EmptySeq
<1>6. DOMAIN t = 1..(Len(s) - 1)
    BY <1>4
<1>7. \A i \in DOMAIN t : i + 1 \in DOMAIN s /\ t[i] = s[i + 1] /\ i + 1 # 1 /\ i \in Int
    BY <1>4, <1>5, <1>6
<1>8. 1 \in DOMAIN s
    BY <1>5
<1>9. WaitingOnce(t)
  <2> SUFFICES ASSUME NEW i \in DOMAIN t, NEW j \in DOMAIN t,
                      Brings(t[i]), Brings(t[j]), t[i].element = t[j].element
               PROVE  i = j
      BY DEF WaitingOnce
  <2>1. i + 1 = j + 1
      BY <1>7 DEF WaitingOnce
  <2> QED BY <1>7, <2>1
<1>10. Waiting(t) \subseteq Waiting(s)
    BY <1>7 DEF Waiting
<1>11. ASSUME Brings(Head(s))
       PROVE  Head(s).element \in Waiting(s) /\ Head(s).element \notin Waiting(t)
  <2>1. Head(s).element \in Waiting(s)
      BY <1>5, <1>8, <1>11 DEF Waiting
  <2>2. ASSUME NEW j \in DOMAIN t, Brings(t[j]), t[j].element = Head(s).element PROVE FALSE
      BY <1>5, <1>7, <1>8, <1>11, <2>2 DEF WaitingOnce
  <2> QED BY <2>1, <2>2 DEF Waiting
<1> QED BY <1>1, <1>3, <1>4, <1>9, <1>10, <1>11

\* A call that has one change to make.
LEMMA OneChange ==
    ASSUME NEW k \in Nat, NEW s \in Step(k)
    PROVE  /\ <<s>> \in Seq(Step(k)) /\ WaitingOnce(<<s>>)
           /\ Waiting(<<s>>) \subseteq (IF Brings(s) THEN {s.element} ELSE {})
<1>1. PICK S : S = Step(k)
    OBVIOUS
<1>2. PICK w : w = <<s>>
    OBVIOUS
<1>3. w \in Seq(S) /\ DOMAIN w = {1} /\ w[1] = s
    BY <1>1, <1>2
<1> QED BY <1>1, <1>2, <1>3 DEF WaitingOnce, Waiting

\* One that has two, the first of which brings no element.
LEMMA TwoChanges ==
    ASSUME NEW k \in Nat, NEW s \in Step(k), NEW t \in Step(k), ~Brings(s)
    PROVE  /\ <<s, t>> \in Seq(Step(k)) /\ WaitingOnce(<<s, t>>)
           /\ Waiting(<<s, t>>) \subseteq (IF Brings(t) THEN {t.element} ELSE {})
<1>1. PICK S : S = Step(k)
    OBVIOUS
<1>2. PICK w : w = <<s, t>>
    OBVIOUS
<1>3. w \in Seq(S) /\ DOMAIN w = {1, 2} /\ w[1] = s /\ w[2] = t
    BY <1>1, <1>2
<1> QED BY <1>1, <1>2, <1>3 DEF WaitingOnce, Waiting

\* A call that has nothing to do has no element.
LEMMA NoChange ==
    ASSUME NEW k \in Nat
    PROVE  <<>> \in Seq(Step(k)) /\ WaitingOnce(<<>>) /\ Waiting(<<>>) = {}
<1>1. PICK w : w = <<>>
    OBVIOUS
<1>2. w \in Seq(Step(k)) /\ DOMAIN w = {}
    BY <1>1
<1> QED BY <1>1, <1>2 DEF WaitingOnce, Waiting

\* A call that makes its first change.
LEMMA DoneSafe ==
    ASSUME NEW k \in Nat, NEW mp, NEW todo, NEW gone, Safe(mp, todo, gone, k),
           NEW th \in Thread, todo[th] # <<>>
    PROVE  /\ Safe(mp, [todo EXCEPT ![th] = Tail(@)], gone, k)
           /\ Head(todo[th]) \in Step(k)
<1>1. todo[th] \in Seq(Step(k)) /\ WaitingOnce(todo[th])
    BY DEF Safe, Placed
<1>2. PICK t : t = Tail(todo[th])
    OBVIOUS
<1>3. t \in Seq(Step(k)) /\ WaitingOnce(t) /\ Waiting(t) \subseteq Waiting(todo[th]) \union {}
    BY <1>1, <1>2, TailFacts
<1>4. Safe(mp, [todo EXCEPT ![th] = t], gone, k)
  <2>1. k <= k /\ {} \cap (1..k) = {}
      OBVIOUS
  <2> QED BY <1>3, <2>1, CallChanges
<1>5. Head(todo[th]) \in Step(k)
    BY <1>1, TailFacts
<1> QED BY <1>2, <1>4, <1>5

(* What getElementByName() leaves: the same names, the element created when  *)
(* there was none.                                                           *)
LEMMA FetchFacts ==
    ASSUME db \in [Name -> {"none", "table", "view"}],
           NEW todo, NEW gone, NEW now, now.elem \in Seq(Object),
           Safe(now.map, todo, gone, Len(now.elem)),
           \A d \in Container : now.map[d] \in Map(Len(now.elem)),
           NEW c \in Container, NEW n \in Name, HasByName(now.map[c], n)
    PROVE  LET got == Fetch(c, n, now) IN
           /\ got.elem \in Seq(Object) /\ Len(now.elem) <= Len(got.elem)
           /\ Safe(got.map, todo, gone, Len(got.elem))
           /\ \A d \in Container : /\ got.map[d].names = now.map[d].names
                                  /\ got.map[d] \in Map(Len(got.elem))
           /\ Has(c, n, got) =>
                /\ GetByIndex(got.map[c], GetIndex(got.map[c], n)) \in DOMAIN got.elem
                /\ Of(c, n, got) \in Object
<1> DEFINE k == Len(now.elem)
           i == GetIndex(now.map[c], n)
<1>1. k \in Nat /\ DOMAIN now.elem = 1..k
    OBVIOUS
<1>2. now.map[c] \in Map(k) /\ Once(now.map[c])
    BY DEF Safe, Placed
<1>3. i \in Int /\ Reaches(now.map[c], i)
    BY <1>1, <1>2, OrderFacts DEF HasByName
<1>4. PICK got : got = Fetch(c, n, now)
    OBVIOUS
<1>5. /\ got.elem \in Seq(Object) /\ k <= Len(got.elem)
      /\ Safe(got.map, todo, gone, Len(got.elem))
      /\ \A d \in Container : /\ got.map[d].names = now.map[d].names
                             /\ got.map[d] \in Map(Len(got.elem))
  <2>1. CASE GetByIndex(now.map[c], i) # NoElement \/ ~Loads(c, n)
    <3>1. got = now
        BY <1>4, <2>1 DEF Fetch
    <3> QED BY <1>1, <3>1
  <2>2. CASE ~(GetByIndex(now.map[c], i) # NoElement \/ ~Loads(c, n))
    <3>1. PICK m : m = SetElement(now.map[c], i, k + 1)
        OBVIOUS
    <3>2. got = [map  |-> [now.map EXCEPT ![c] = m], elem |-> Append(now.elem, Loaded(c, n))]
        BY <1>4, <2>2, <3>1 DEF Fetch
    <3>3. Loaded(c, n) \in Object
      <4>1. CASE c = "views"
          BY <4>1 DEF Loaded, Object
      <4>2. CASE c # "views"
          BY <2>2, <4>2 DEF Loads, Loaded, Object
      <4> QED BY <4>1, <4>2
    <3>4. got.elem \in Seq(Object) /\ Len(got.elem) = k + 1
        BY <1>1, <3>2, <3>3, AppendProperties
    <3>5. k + 1 \in Nat /\ k <= k + 1 /\ k + 1 \in (1..(k + 1)) \union {NoElement}
        BY <1>1
    <3>6. {k + 1} \cap (1..k) = {} /\ k + 1 \notin 1..k
        BY <1>1
    <3>7. now.map[c] \in AnyMap(k + 1) /\ now.map[c] \in Map(k + 1)
      <4>1. now.map[c] \in AnyMap(k)
          BY <1>2 DEF Map
      <4> QED BY <1>1, <1>2, <3>5, <4>1, MapGrows
    <3>8. Elements(now.map[c]) \subseteq 1..k
        BY <1>1, ElementsType
    <3>9. /\ m \in AnyMap(k + 1) /\ Once(m)
          /\ Elements(m) \subseteq Elements(now.map[c]) \union ({k + 1} \ {NoElement})
          /\ m.names = now.map[c].names /\ m.listed = now.map[c].listed
          /\ m.index = now.map[c].index
        BY <1>2, <1>3, <3>1, <3>5, <3>6, <3>7, <3>8, SetElementFacts
    <3>10. Safe([now.map EXCEPT ![c] = m], todo, gone \union {}, k + 1)
      <4>1. /\ {} \subseteq Elements(now.map[c])
            /\ Elements(m) \subseteq (Elements(now.map[c]) \ {}) \union {k + 1}
          BY <3>9
      <4>2. /\ {k + 1} \cap gone = {}
            /\ \A d \in Container : {k + 1} \cap Elements(now.map[d]) = {}
            /\ \A th \in Thread : {k + 1} \cap Waiting(todo[th]) = {}
          BY <1>1, <3>6, ElementsType
      <4> QED BY <1>1, <3>5, <3>9, <4>1, <4>2, MapChanges
    <3>11. Safe(got.map, todo, gone, Len(got.elem))
      <4>1. gone \union {} = gone
          OBVIOUS
      <4> QED BY <3>2, <3>4, <3>10, <4>1
    <3>12. m \in Map(k + 1)
        BY <3>7, <3>9 DEF Map, HasSlot
    <3>13. ASSUME NEW d \in Container
           PROVE  got.map[d].names = now.map[d].names /\ got.map[d] \in Map(Len(got.elem))
      <4>1. DOMAIN now.map = Container
          BY DEF Safe
      <4>2. got.map[d] = IF d = c THEN m ELSE now.map[d]
          BY <3>2, <4>1
      <4>3. CASE d = c
          BY <3>4, <3>9, <3>12, <4>2, <4>3
      <4>4. CASE d # c
        <5>1. PICK m1 : m1 = now.map[d]
            OBVIOUS
        <5>2. m1 \in Map(k)
            BY <5>1
        <5>3. m1 \in AnyMap(k)
            BY <5>2 DEF Map
        <5>4. m1 \in Map(k + 1)
            BY <1>1, <3>5, <5>2, <5>3, MapGrows
        <5>5. got.map[d] = m1 /\ Len(got.elem) = k + 1
            BY <3>4, <4>2, <4>4, <5>1
        <5>6. got.map[d].names = now.map[d].names
            BY <5>1, <5>5
        <5> QED BY <5>4, <5>5, <5>6
      <4> QED BY <4>3, <4>4
    <3> QED BY <3>4, <3>5, <3>11, <3>13
  <2> QED BY <2>1, <2>2
<1>6. ASSUME Has(c, n, got)
      PROVE  /\ GetByIndex(got.map[c], GetIndex(got.map[c], n)) \in DOMAIN got.elem
             /\ Of(c, n, got) \in Object
  <2>1. Len(got.elem) \in Nat /\ DOMAIN got.elem = 1..Len(got.elem)
      BY <1>5
  <2>2. got.map[c] \in Map(Len(got.elem)) /\ n \in got.map[c].names
      BY <1>5 DEF HasByName
  <2>3. /\ GetIndex(got.map[c], n) \in Int
        /\ Reaches(got.map[c], GetIndex(got.map[c], n))
      BY <2>1, <2>2, OrderFacts
  <2>4. GetByIndex(got.map[c], GetIndex(got.map[c], n)) \in (1..Len(got.elem)) \union {NoElement}
      BY <2>1, <2>2, <2>3, MapParts, GetByIndexFacts
  <2>5. GetByIndex(got.map[c], GetIndex(got.map[c], n)) \in DOMAIN got.elem
      BY <1>6, <2>1, <2>4 DEF Has
  <2> QED BY <1>5, <2>5 DEF Of
<1> QED BY <1>4, <1>5, <1>6

\* The name of an object is a name.
LEMMA ObjectName ==
    ASSUME NEW s \in Seq(Object), NEW e \in DOMAIN s
    PROVE  s[e] \in Object /\ s[e].name \in Name
<1>1. s[e] \in Object
    OBVIOUS
<1>2. \A x \in Object : x.name \in Name
    BY DEF Object
<1> QED BY <1>1, <1>2

\* An object that has another name.
LEMMA RenamedObject ==
    ASSUME NEW s \in Seq(Object), NEW e \in DOMAIN s, NEW to \in Name
    PROVE  /\ [s EXCEPT ![e].name = to] \in Seq(Object)
           /\ Len([s EXCEPT ![e].name = to]) = Len(s)
           /\ DOMAIN [s EXCEPT ![e].name = to] = DOMAIN s
<1>1. s[e] \in Object /\ e \in 1..Len(s)
    OBVIOUS
<1>2. PICK x : x = [s[e] EXCEPT !.name = to]
    OBVIOUS
<1>3. x \in Object
    BY <1>1, <1>2 DEF Object
<1>4. [s EXCEPT ![e].name = to] = [s EXCEPT ![e] = x]
    BY <1>2
<1> QED BY <1>1, <1>3, <1>4, ExceptSeq

----------------------------------------------------------------------------
(* Every action leaves every element in one place, and whole maps whole but   *)
(* for a rename that throws.                                                 *)

\* Every map has the same names to count places by, each with a slot.
AllWhole == \A c \in Container : map[c] \in Map(Len(elem))

\* What the invariant says, its parts at hand.
LEMMA Parts ==
    ASSUME OnePlace
    PROVE  /\ db \in [Name -> {"none", "table", "view"}]
           /\ elem \in Seq(Object) /\ Len(elem) \in Nat /\ DOMAIN elem = 1..Len(elem)
           /\ Safe(map, doing, Gone, Len(elem)) /\ disposed \subseteq 1..Len(elem)
           /\ \A c \in Container : /\ map[c] \in AnyMap(Len(elem)) /\ Once(map[c])
                                  /\ \A n : GetIndex(map[c], n) \in Int
           /\ map = [c \in Container |-> map[c]]
<1>1. elem \in Seq(Object) /\ Safe(map, doing, Gone, Len(elem))
    BY DEF OnePlace
<1>2. Len(elem) \in Nat /\ DOMAIN elem = 1..Len(elem)
    BY <1>1
<1>3. \A c \in Container : map[c] \in AnyMap(Len(elem)) /\ Once(map[c])
    BY <1>1 DEF Safe, Placed
<1>4. \A c \in Container : \A n : GetIndex(map[c], n) \in Int
    BY <1>2, <1>3, AnyOrderFacts
<1>5. map = [c \in Container |-> map[c]]
    BY <1>1 DEF Safe
<1> QED BY <1>1, <1>2, <1>3, <1>4, <1>5 DEF OnePlace

(* A step of a thread that does not empty a map: what is gone is what was and *)
(* what the step has disposed of, as long as no element leaves a map that     *)
(* another thread refreshes.                                                 *)
LEMMA Becomes ==
    ASSUME OnePlace, NEW th \in Thread, ~Doing(th, {"empty"}), NEW steps,
           doing' = [doing EXCEPT ![th] = steps], NEW X, disposed' = disposed \union X,
           Locked(th) => \A c \in Container : Elements(map[c]) \subseteq Elements(map'[c]),
           elem' \in Seq(Object), Len(elem) <= Len(elem'),
           db' \in [Name -> {"none", "table", "view"}],
           Safe(map', doing', Gone \union X, Len(elem'))
    PROVE  OnePlace'
<1>1. /\ doing \in [Thread -> Seq(Step(Len(elem)))] /\ disposed \subseteq 1..Len(elem)
      /\ Len(elem) \in Nat
    BY Parts DEF Safe
<1>2. \A o \in Thread \ {th} : doing'[o] = doing[o]
    BY <1>1
<1>3. ASSUME NEW e \in Gone', e \notin X PROVE e \in Gone
  <2>1. e \in disposed /\ \A c \in Container : Disposing(c)' => e \notin Elements(map'[c])
      BY <1>3 DEF Gone
  <2>2. ASSUME NEW c \in Container, Disposing(c) PROVE e \notin Elements(map[c])
    <3>1. PICK o \in Thread : Doing(o, {"empty"}) /\ Head(doing[o]).on = c
        BY <2>2 DEF Disposing
    <3>2. o # th
        BY <3>1
    <3>3. doing'[o] = doing[o] /\ doing[o] # <<>> /\ Head(doing[o]).do = "empty"
        BY <1>2, <3>1, <3>2 DEF Doing, Idle
    <3>4. Disposing(c)'
        BY <3>1, <3>3 DEF Disposing, Doing, Idle
    <3>5. Locked(th)
        BY <3>2, <3>3 DEF Locked, Renews
    <3> QED BY <2>1, <3>4, <3>5
  <2> QED BY <2>1, <2>2 DEF Gone
<1>4. Gone' \in SUBSET (Gone \union X)
    BY <1>3
<1>5. Safe(map', doing', Gone', Len(elem'))
    BY <1>4, SafeLess
<1>6. disposed' \subseteq 1..Len(elem')
  <2>1. Len(elem') \in Nat
      OBVIOUS
  <2>2. X \subseteq 1..Len(elem')
      BY DEF Safe
  <2>3. 1..Len(elem) \subseteq 1..Len(elem')
      BY <1>1, <2>1
  <2> QED BY <1>1, <2>2, <2>3
<1> QED BY <1>5, <1>6 DEF OnePlace

(* A call starts, with nothing that it would bring but N.                    *)
LEMMA Starts ==
    ASSUME NEW k \in Nat, NEW l \in Nat, k <= l, NEW mp, NEW gone,
           Safe(mp, doing, gone, k), NEW th \in Thread, NEW steps, Start(th, steps),
           steps \in Seq(Step(l)), WaitingOnce(steps), NEW N,
           Waiting(steps) \subseteq N, N \cap (1..k) = {}
    PROVE  Safe(mp, doing', gone, l)
<1>1. Waiting(steps) \subseteq Waiting(doing[th]) \union N
    OBVIOUS
<1>2. Safe(mp, [doing EXCEPT ![th] = steps], gone, l)
    BY <1>1, CallChanges
<1> QED BY <1>2 DEF Start

\* A place looked up before it is used is a change that a call can have to do.
LEMMA AtPlaceType ==
    ASSUME OnePlace, NEW k \in Nat, NEW what \in {"create", "remove"},
           NEW c \in Container, NEW n \in Name
    PROVE  AtPlace(what, c, n) \in Step(k) /\ ~Brings(AtPlace(what, c, n))
<1>1. GetIndex(map[c], n) \in Int
    BY Parts
<1> QED BY <1>1 DEF AtPlace, Step, Change, Brings

\* A thread that starts a call has nothing under way, and no refresh either.
LEMMA StartsIdle ==
    ASSUME NEW th, NEW steps, Start(th, steps)
    PROVE  ~Doing(th, {"empty"}) /\ doing' = [doing EXCEPT ![th] = steps]
BY DEF Start, Doing

\* A thread that finds no element puts none anywhere.
LEMMA LookOnePlace ==
    ASSUME OnePlace, NEW th \in Thread, NEW c \in Container, NEW n \in Name, Look(th, c, n)
    PROVE  OnePlace' /\ (AllWhole => AllWhole')
<1> DEFINE s == AtPlace("create", c, n)
           k == Len(elem)
<1>1. k \in Nat /\ Safe(map, doing, Gone, k)
    BY Parts
<1>2. s \in Step(k) /\ ~Brings(s)
    BY <1>1, AtPlaceType
<1>3. <<s>> \in Seq(Step(k)) /\ WaitingOnce(<<s>>) /\ Waiting(<<s>>) \subseteq {}
    BY <1>1, <1>2, OneChange
<1>4. Start(th, <<s>>) /\ UNCHANGED <<map, elem, db, disposed>>
    BY DEF Look
<1> HIDE DEF s
<1>5. Safe(map, doing', Gone, k)
  <2>1. k <= k /\ {} \cap (1..k) = {}
      BY <1>1
  <2> QED BY <1>1, <1>3, <1>4, <2>1, Starts
<1>6. OnePlace'
  <2>1. PICK X : X = {}
      OBVIOUS
  <2>2. disposed' = disposed \union X /\ Gone \union X = Gone
      BY <1>4, <2>1
  <2>3. Safe(map', doing', Gone \union X, Len(elem'))
      BY <1>4, <1>5, <2>2
  <2>4. elem' \in Seq(Object) /\ Len(elem) <= Len(elem') /\ db' \in [Name -> {"none", "table", "view"}]
      BY <1>4, Parts
  <2>5. \A d \in Container : Elements(map[d]) \subseteq Elements(map'[d])
      BY <1>4
  <2> QED BY <1>4, <2>2, <2>3, <2>4, <2>5, StartsIdle, Becomes
<1> QED BY <1>4, <1>6 DEF AllWhole

\* The name at a place that has one and a slot is a name.
LEMMA ReachedName ==
    ASSUME NEW k \in Nat, NEW m \in AnyMap(k), NEW i, Reaches(m, i)
    PROVE  GetName(m, i) \in Name
<1>1. PICK j \in DOMAIN m.index : m.index[j] = GetName(m, i)
    BY DEF Reaches, HasSlot
<1>2. DOMAIN m.index = 1..Len(m.index) /\ \A x \in 1..Len(m.index) : m.index[x] \in Name
    BY AnyParts
<1> QED BY <1>1, <1>2

\* A map that is replaced by a whole one.
LEMMA OneMapWhole ==
    ASSUME AllWhole, map = [c \in Container |-> map[c]], NEW c \in Container, NEW m,
           map' = [map EXCEPT ![c] = m], NEW l \in Nat, Len(elem) \in Nat, Len(elem) <= l,
           l = Len(elem'), m \in Map(l)
    PROVE  AllWhole'
<1>1. ASSUME NEW d \in Container PROVE map'[d] \in Map(l)
  <2>1. map[d] \in Map(Len(elem)) /\ map[d] \in AnyMap(Len(elem))
      BY MapParts DEF AllWhole
  <2>2. map[d] \in Map(l)
      BY <2>1, MapGrows
  <2> QED BY <2>2
<1> QED BY <1>1 DEF AllWhole

\* The element made is a new one, in the map or in hand.
LEMMA CreateOnePlace ==
    ASSUME OnePlace, NEW th \in Thread, Create(th)
    PROVE  OnePlace' /\ (AllWhole => AllWhole')
<1> DEFINE s == Head(doing[th])
           k == Len(elem)
<1>1. k \in Nat /\ Safe(map, doing, Gone, k) /\ elem \in Seq(Object)
    BY Parts
<1>2. doing[th] # <<>> /\ s.do = "create"
    BY DEF Create, Doing, Idle
<1>3. s \in Step(k)
    BY <1>1, <1>2, DoneSafe
<1>4. s.on \in Container /\ s.at \in Int
    BY <1>2, <1>3 DEF Step, Change
<1>5. Reaches(map[s.on], s.at) /\ ~Locked(th)
    BY DEF Create
<1>6. map[s.on] \in AnyMap(k) /\ Once(map[s.on])
    BY <1>4, Parts
<1>7. NameNow(s) \in Name
    BY <1>1, <1>5, <1>6, ReachedName DEF NameNow
<1>8. Done(th) /\ UNCHANGED <<db, disposed>>
    BY DEF Create
<1> HIDE DEF s, k
<1>9. ASSUME NEW l \in Nat, k <= l, NEW e \in (1..l) \union {NoElement}, e \notin 1..k,
             map' = [map EXCEPT ![s.on] = SetElement(map[s.on], s.at, e)],
             elem' \in Seq(Object), Len(elem') = l
      PROVE  OnePlace' /\ (AllWhole => AllWhole')
  <2>1. PICK m : m = SetElement(map[s.on], s.at, e)
      OBVIOUS
  <2>2. map[s.on] \in AnyMap(l)
      BY <1>1, <1>6, <1>9, MapGrows
  <2>3. e \notin Elements(map[s.on])
      BY <1>1, <1>4, <1>9, ElementsType
  <2>4. /\ m \in AnyMap(l) /\ Once(m)
        /\ Elements(m) \subseteq Elements(map[s.on]) \union ({e} \ {NoElement})
      BY <1>4, <1>5, <1>6, <2>1, <2>2, <2>3, SetElementFacts
  <2>5. Safe([map EXCEPT ![s.on] = m], doing, Gone \union {}, l)
    <3>1. /\ {} \subseteq Elements(map[s.on])
          /\ Elements(m) \subseteq (Elements(map[s.on]) \ {}) \union {e}
        BY <2>4
    <3>2. /\ {e} \cap Gone = {}
          /\ \A d \in Container : {e} \cap Elements(map[d]) = {}
          /\ \A o \in Thread : {e} \cap Waiting(doing[o]) = {}
        BY ZenonT(30), <1>1, <1>9, ElementsType
    <3> QED BY <1>1, <1>4, <1>9, <2>4, <3>1, <3>2, MapChanges
  <2>6. map' = [map EXCEPT ![s.on] = m]
      BY <1>9, <2>1
  <2>7. Safe(map', doing', Gone \union {}, l)
      BY <1>2, <1>8, <1>9, <2>5, <2>6, DoneSafe DEF Done
  <2>8. OnePlace'
    <3>1. disposed' = disposed \union {} /\ db' \in [Name -> {"none", "table", "view"}]
        BY <1>8, Parts
    <3>2. ~Doing(th, {"empty"})
        BY <1>2 DEF Doing, s
    <3>3. doing' = [doing EXCEPT ![th] = Tail(doing[th])]
        BY <1>8 DEF Done
    <3>4. Len(elem) <= Len(elem')
        BY <1>9 DEF k
    <3> QED BY <1>5, <1>9, <2>7, <3>1, <3>2, <3>3, <3>4, Becomes
  <2>9. ASSUME AllWhole PROVE AllWhole'
    <3>1. map[s.on] \in Map(l)
        BY <1>1, <1>4, <1>6, <1>9, <2>9, MapGrows DEF AllWhole, k
    <3>2. m \in Map(l)
        BY <1>4, <1>5, <1>9, <2>1, <3>1, SetElementIs DEF Reaches
    <3> QED BY <1>1, <1>4, <1>9, <2>6, <2>9, <3>2, OneMapWhole, Parts DEF k
  <2> QED BY <2>8, <2>9
<1>10. CASE Loads(s.on, NameNow(s)) /\ elem' = Append(elem, Loaded(s.on, NameNow(s)))
            /\ map' = [map EXCEPT ![s.on] = SetElement(map[s.on], s.at, NextElement)]
  <2>1. Loaded(s.on, NameNow(s)) \in Object
    <3>1. db[NameNow(s)] \in {"none", "table", "view"}
        BY <1>7, Parts
    <3> QED BY <1>7, <1>10, <3>1 DEF Loads, Loaded, Object
  <2>2. elem' \in Seq(Object) /\ Len(elem') = k + 1
      BY <1>1, <1>10, <2>1, AppendProperties DEF k
  <2>3. NextElement = k + 1
      BY DEF NextElement, k
  <2>4. k + 1 \in Nat /\ k <= k + 1 /\ k + 1 \in (1..(k + 1)) \union {NoElement} /\ k + 1 \notin 1..k
      BY <1>1
  <2> QED BY <1>9, <1>10, <2>2, <2>3, <2>4
<1>11. CASE map' = [map EXCEPT ![s.on] = SetElement(map[s.on], s.at, NoElement)] /\ UNCHANGED elem
  <2>1. k <= k /\ NoElement \in (1..k) \union {NoElement} /\ NoElement \notin 1..k
      BY <1>1, NoElementAssumption
  <2>2. elem' \in Seq(Object) /\ Len(elem') = k
      BY <1>1, <1>11 DEF k
  <2> QED BY <1>1, <1>9, <1>11, <2>1, <2>2
<1> QED BY <1>10, <1>11 DEF Create, s

(* An entry that is taken out: its element is disposed of, and with no map    *)
(* any more.                                                                 *)
LEMMA TakenOutSafe ==
    ASSUME OnePlace, NEW c \in Container, NEW i \in Int, Reaches(map[c], i), TakenOut(c, i)
    PROVE  \E X : disposed' = disposed \union X /\ Safe(map', doing, Gone \union X, Len(elem))
<1>0. PICK k : k = Len(elem)
    OBVIOUS
<1>1. /\ k \in Nat /\ Safe(map, doing, Gone, k)
      /\ map[c] \in AnyMap(k) /\ Once(map[c])
    BY <1>0, Parts
<1>2. PICK m : m = RemoveElement(map[c], i)
    OBVIOUS
<1>3. PICK X : X = {GetByIndex(map[c], i)} \ {NoElement}
    OBVIOUS
<1>4. PICK N : N = {}
    OBVIOUS
<1>5. /\ m \in AnyMap(k) /\ Once(m)
      /\ Elements(m) \subseteq Elements(map[c]) \ X
    BY <1>1, <1>2, <1>3, RemoveElementFacts
<1>6. X \subseteq Elements(map[c])
    BY <1>1, <1>3, GetByIndexFacts
<1>7. map' = [map EXCEPT ![c] = m] /\ disposed' = disposed \union X
    BY <1>2, <1>3 DEF TakenOut
<1>8. Safe([map EXCEPT ![c] = m], doing, Gone \union X, k)
  <2>1. k <= k
      BY <1>1
  <2>2. Elements(m) \subseteq (Elements(map[c]) \ X) \union N
      BY <1>4, <1>5
  <2>3. /\ N \cap Gone = {}
        /\ \A d \in Container : N \cap Elements(map[d]) = {}
        /\ \A th \in Thread : N \cap Waiting(doing[th]) = {}
      BY <1>4
  <2>4. /\ k \in Nat /\ Safe(map, doing, Gone, k)
        /\ m \in AnyMap(k) /\ Once(m)
      BY <1>1, <1>5
  <2> QED BY <1>6, <2>1, <2>2, <2>3, <2>4, MapChanges
<1>9. Safe(map', doing, Gone \union X, k)
    BY <1>7, <1>8
<1> QED BY <1>0, <1>7, <1>9

(* A thread whose next change is to take an entry out.                       *)
LEMMA TakesOneOut ==
    ASSUME OnePlace, NEW th \in Thread, doing[th] # <<>>,
           Head(doing[th]).do \in {"create", "remove"},
           Reaches(map[Head(doing[th]).on], Head(doing[th]).at),
           TakenOut(Head(doing[th]).on, Head(doing[th]).at),
           Done(th), UNCHANGED <<db, elem>>, ~Locked(th)
    PROVE  OnePlace' /\ (AllWhole => AllWhole')
<1> DEFINE s == Head(doing[th])
<1>1. s \in Step(Len(elem))
    BY DoneSafe, Parts
<1>2. s.on \in Container /\ s.at \in Int
    BY <1>1 DEF Step, Change
<1>3. PICK X : disposed' = disposed \union X /\ Safe(map', doing, Gone \union X, Len(elem))
    BY <1>2, TakenOutSafe
<1>4. OnePlace'
  <2>1. Safe(map', doing', Gone \union X, Len(elem))
      BY <1>3, DoneSafe, Parts DEF Done
  <2>2. ~Doing(th, {"empty"}) /\ doing' = [doing EXCEPT ![th] = Tail(doing[th])]
      BY DEF Doing, Done
  <2>3. elem' \in Seq(Object) /\ Len(elem) <= Len(elem') /\ db' \in [Name -> {"none", "table", "view"}]
      BY Parts
  <2> QED BY <1>3, <2>1, <2>2, <2>3, Becomes
<1>5. ASSUME AllWhole PROVE AllWhole'
  <2>1. PICK m : m = RemoveElement(map[s.on], s.at)
      OBVIOUS
  <2>2. m \in Map(Len(elem))
      BY <1>2, <1>5, <2>1, RemoveElementIs, Parts DEF AllWhole, Reaches
  <2>3. map' = [map EXCEPT ![s.on] = m]
      BY <2>1 DEF TakenOut
  <2>4. Len(elem) <= Len(elem) /\ Len(elem') = Len(elem)
      BY Parts
  <2> QED BY <1>2, <1>5, <2>2, <2>3, <2>4, OneMapWhole, Parts
<1> QED BY <1>4, <1>5

\* An element that cannot be made leaves its entry.
LEMMA CreateFailsOnePlace ==
    ASSUME OnePlace, NEW th \in Thread, CreateFails(th)
    PROVE  OnePlace' /\ (AllWhole => AllWhole')
<1> DEFINE s == Head(doing[th])
<1>1. /\ doing[th] # <<>> /\ s.do = "create" /\ Reaches(map[s.on], s.at) /\ TakenOut(s.on, s.at)
      /\ Done(th) /\ UNCHANGED <<db, elem>> /\ ~Locked(th)
    BY DEF CreateFails, Doing, Idle
<1> QED BY <1>1, TakesOneOut

\* What is taken out of the map is disposed.
LEMMA TakeOutOnePlace ==
    ASSUME OnePlace, NEW th \in Thread, TakeOut(th)
    PROVE  OnePlace' /\ (AllWhole => AllWhole')
<1> DEFINE s == Head(doing[th])
<1>1. /\ doing[th] # <<>> /\ s.do = "remove" /\ Reaches(map[s.on], s.at) /\ TakenOut(s.on, s.at)
      /\ Done(th) /\ UNCHANGED <<db, elem>> /\ ~Locked(th)
    BY DEF TakeOut, Doing, Idle
<1> QED BY <1>1, TakesOneOut

\* A thread that changes no map.
LEMMA ChangesNoMap ==
    ASSUME OnePlace, NEW th \in Thread, ~Doing(th, {"empty"}), NEW steps,
           doing' = [doing EXCEPT ![th] = steps], UNCHANGED <<db, map, elem, disposed>>,
           steps \in Seq(Step(Len(elem))), WaitingOnce(steps),
           Waiting(steps) \subseteq Waiting(doing[th])
    PROVE  OnePlace' /\ (AllWhole => AllWhole')
<1>1. Len(elem) \in Nat /\ Len(elem) <= Len(elem) /\ Safe(map, doing, Gone, Len(elem))
    BY Parts
<1>2. Safe(map, doing', Gone, Len(elem))
  <2>1. {} \cap (1..Len(elem)) = {} /\ Waiting(steps) \subseteq Waiting(doing[th]) \union {}
      OBVIOUS
  <2> QED BY <1>1, <2>1, CallChanges
<1>3. PICK X : X = {}
    OBVIOUS
<1>4. disposed' = disposed \union X /\ Gone \union X = Gone
    BY <1>3
<1>5. elem' \in Seq(Object) /\ Len(elem) <= Len(elem') /\ db' \in [Name -> {"none", "table", "view"}]
    BY Parts
<1>6. Safe(map', doing', Gone \union X, Len(elem'))
    BY <1>2, <1>4
<1>7. \A d \in Container : Elements(map[d]) \subseteq Elements(map'[d])
    OBVIOUS
<1>8. OnePlace'
    BY <1>4, <1>5, <1>6, <1>7, Becomes
<1> QED BY <1>8 DEF AllWhole

\* A call that throws lets go of what it had.
LEMMA ThrowOnePlace ==
    ASSUME OnePlace, NEW th \in Thread, Throw(th)
    PROVE  OnePlace' /\ (AllWhole => AllWhole')
<1>1. ~Doing(th, {"empty"}) /\ doing' = [doing EXCEPT ![th] = <<>>]
    BY DEF Throw, Doing, Ends
<1>2. Len(elem) \in Nat
    BY Parts
<1>3. /\ <<>> \in Seq(Step(Len(elem))) /\ WaitingOnce(<<>>)
      /\ Waiting(<<>>) \subseteq Waiting(doing[th])
    BY <1>2, NoChange
<1> QED BY <1>1, <1>3, ChangesNoMap DEF Throw

\* A change that has been tested is the same change, with the element it had.
LEMMA TestedChange ==
    ASSUME OnePlace, NEW th \in Thread, doing[th] # <<>>, NEW what,
           \/ Head(doing[th]).do \in {"add", "insert"} /\ what \in {"add", "insert"}
           \/ Head(doing[th]).do \in {"rename", "relabel"} /\ what \in {"rename", "relabel"}
    PROVE  \E steps : /\ steps = [doing[th] EXCEPT ![1].do = what]
                      /\ steps \in Seq(Step(Len(elem))) /\ WaitingOnce(steps)
                      /\ Waiting(steps) \subseteq Waiting(doing[th])
                      /\ Len(steps) = Len(doing[th])
                      /\ steps[1] = [doing[th][1] EXCEPT !.do = what]
                      /\ \A j \in DOMAIN steps : j # 1 => steps[j] = doing[th][j]
<1>0. PICK k, q, S : k = Len(elem) /\ q = doing[th] /\ S = Step(k)
    OBVIOUS
<1>1. k \in Nat /\ q \in Seq(S) /\ WaitingOnce(q)
    BY <1>0, Parts DEF Safe, Placed
<1>2. /\ Len(q) \in Nat \ {0} /\ DOMAIN q = 1..Len(q) /\ Head(q) = q[1] /\ 1 \in 1..Len(q)
      /\ q[1] \in S
  <2>1. q # <<>>
      BY <1>0
  <2> QED BY <1>1, <2>1, EmptySeq
<1>3. PICK s : s = [q[1] EXCEPT !.do = what]
    OBVIOUS
<1>4. s \in S /\ (Brings(s) <=> Brings(q[1])) /\ (Brings(s) => s.element = q[1].element)
  <2>1. q[1] \in Step(k)
      BY <1>0, <1>2
  <2>2. CASE q[1].do \in {"add", "insert"} /\ what \in {"add", "insert"}
    <3>1. q[1] \in [do : {"add", "insert"}, on : Container, name : Name, to : Name,
                    element : (1..k) \union {NoElement}]
        BY <2>1, <2>2 DEF Step, Change
    <3>2. /\ s \in [do : {"add", "insert"}, on : Container, name : Name, to : Name,
                    element : (1..k) \union {NoElement}]
          /\ s.element = q[1].element /\ s.do \in {"add", "insert"}
        BY <1>3, <2>2, <3>1
    <3> QED BY <1>0, <2>2, <3>2 DEF Step, Change, Brings
  <2>3. CASE q[1].do \in {"rename", "relabel"} /\ what \in {"rename", "relabel"}
    <3>1. q[1] \in [do : {"rename", "relabel"}, on : Container, name : Name, to : Name]
        BY <2>1, <2>3 DEF Step, Change
    <3>2. /\ s \in [do : {"rename", "relabel"}, on : Container, name : Name, to : Name]
          /\ s.do \in {"rename", "relabel"}
        BY <1>3, <2>3, <3>1
    <3> QED BY <1>0, <2>3, <3>2 DEF Step, Change, Brings
  <2> QED BY <1>0, <1>2, <2>2, <2>3
<1>5. PICK w : w = [q EXCEPT ![1] = s]
    OBVIOUS
<1>6. /\ w \in Seq(S) /\ Len(w) = Len(q) /\ DOMAIN w = DOMAIN q /\ w[1] = s
      /\ \A j \in DOMAIN w : j # 1 => w[j] = q[j]
  <2>1. w \in Seq(S) /\ Len(w) = Len(q)
      BY <1>1, <1>2, <1>4, <1>5, ExceptSeq
  <2>2. DOMAIN w = DOMAIN q /\ w[1] = s /\ \A j \in DOMAIN w : j # 1 => w[j] = q[j]
      BY <1>2, <1>5
  <2> QED BY <2>1, <2>2
<1>7. /\ \A j \in DOMAIN w : Brings(w[j]) <=> Brings(q[j])
      /\ \A j \in DOMAIN w : Brings(w[j]) => w[j].element = q[j].element
    BY <1>4, <1>6
<1>8. WaitingOnce(w)
    BY <1>1, <1>6, <1>7 DEF WaitingOnce
<1>9. Waiting(w) \subseteq Waiting(q)
    BY <1>6, <1>7 DEF Waiting
<1>10. w = [doing[th] EXCEPT ![1].do = what]
    BY <1>0, <1>3, <1>5
<1>11. /\ w \in Seq(Step(Len(elem))) /\ Waiting(w) \subseteq Waiting(doing[th])
       /\ Len(w) = Len(doing[th]) /\ \A j \in DOMAIN w : j # 1 => w[j] = doing[th][j]
    BY <1>0, <1>6, <1>9
<1>12. w[1] = [doing[th][1] EXCEPT !.do = what]
    BY <1>0, <1>3, <1>6
<1> QED BY <1>8, <1>10, <1>11, <1>12

\* A thread that goes on with its call: it leaves the change out, or will make it.
LEMMA LeavesOut ==
    ASSUME OnePlace, NEW th \in Thread, doing[th] # <<>>, Done(th),
           Head(doing[th]).do # "empty", UNCHANGED <<db, map, elem, disposed>>
    PROVE  OnePlace' /\ (AllWhole => AllWhole')
<1>1. doing[th] \in Seq(Step(Len(elem))) /\ WaitingOnce(doing[th]) /\ Len(elem) \in Nat
    BY Parts DEF Safe, Placed
<1>2. PICK t : t = Tail(doing[th])
    OBVIOUS
<1>3. t \in Seq(Step(Len(elem))) /\ WaitingOnce(t) /\ Waiting(t) \subseteq Waiting(doing[th])
    BY <1>1, <1>2, TailFacts
<1>4. ~Doing(th, {"empty"}) /\ doing' = [doing EXCEPT ![th] = t]
    BY <1>2 DEF Doing, Done
<1> QED BY <1>3, <1>4, ChangesNoMap

\* The other way: the change stays to be made, tested.
LEMMA GoesOnTested ==
    ASSUME OnePlace, NEW th \in Thread, doing[th] # <<>>, NEW what, GoesOnTo(th, what),
           \/ Head(doing[th]).do \in {"add", "insert"} /\ what \in {"add", "insert"}
           \/ Head(doing[th]).do \in {"rename", "relabel"} /\ what \in {"rename", "relabel"},
           UNCHANGED <<db, map, elem, disposed>>
    PROVE  OnePlace' /\ (AllWhole => AllWhole')
<1>1. PICK steps : /\ steps = [doing[th] EXCEPT ![1].do = what]
                   /\ steps \in Seq(Step(Len(elem))) /\ WaitingOnce(steps)
                   /\ Waiting(steps) \subseteq Waiting(doing[th])
    BY ZenonT(30), TestedChange
<1>2. doing' = [doing EXCEPT ![th] = steps]
    BY <1>1 DEF GoesOnTo
<1>3. ~Doing(th, {"empty"})
    BY DEF Doing
<1> QED BY <1>1, <1>2, <1>3, ChangesNoMap

\* insertElement() looks for the name.
LEMMA InsertOnePlace ==
    ASSUME OnePlace, NEW th \in Thread, Insert(th)
    PROVE  OnePlace' /\ (AllWhole => AllWhole')
<1>1. /\ doing[th] # <<>> /\ Head(doing[th]).do = "insert"
      /\ UNCHANGED <<db, map, elem, disposed>>
      /\ Done(th) \/ GoesOnTo(th, "add")
    BY DEF Insert, Doing, Idle
<1>2. CASE Done(th)
    BY <1>1, <1>2, LeavesOut
<1>3. CASE GoesOnTo(th, "add")
    BY <1>1, <1>3, GoesOnTested
<1> QED BY <1>1, <1>2, <1>3

\* replaceElement() looks for the old name.
LEMMA ReplaceOnePlace ==
    ASSUME OnePlace, NEW th \in Thread, Replace(th)
    PROVE  OnePlace' /\ (AllWhole => AllWhole')
<1>1. /\ doing[th] # <<>> /\ Head(doing[th]).do = "rename"
      /\ UNCHANGED <<db, map, elem, disposed>>
      /\ Done(th) \/ GoesOnTo(th, "relabel")
    BY DEF Replace, Doing, Idle
<1>2. CASE Done(th)
    BY <1>1, <1>2, LeavesOut
<1>3. CASE GoesOnTo(th, "relabel")
    BY <1>1, <1>3, GoesOnTested
<1> QED BY <1>1, <1>2, <1>3

(* addElement(): the element the call had is now in the map.                 *)
LEMMA AddOnePlace ==
    ASSUME OnePlace, NEW th \in Thread, Add(th)
    PROVE  OnePlace' /\ (AllWhole => AllWhole')
<1> DEFINE s == Head(doing[th])
           k == Len(elem)
           rest == [doing EXCEPT ![th] = Tail(@)]
<1>1. k \in Nat /\ Safe(map, doing, Gone, k)
    BY Parts
<1>2. doing[th] # <<>> /\ s.do = "add" /\ Done(th) /\ UNCHANGED <<db, elem, disposed>> /\ ~Locked(th)
    BY DEF Add, Doing, Idle
<1>3. s \in Step(k) /\ Safe(map, rest, Gone, k)
    BY <1>1, <1>2, DoneSafe
<1>4. /\ s.on \in Container /\ s.name \in Name /\ s.element \in (1..k) \union {NoElement}
    BY <1>2, <1>3 DEF Step, Change
<1>5. doing' = rest
    BY <1>2 DEF Done
<1> HIDE DEF s
<1>7. map' = [map EXCEPT ![s.on] = AddElement(@, s.name, s.element)]
    BY DEF Add, s
<1> DEFINE N == {s.element} \ {NoElement}
<1>8. PICK m : m = AddElement(map[s.on], s.name, s.element)
    OBVIOUS
<1>9. map' = [map EXCEPT ![s.on] = m]
    BY <1>7, <1>8
<1>10. OnePlace'
  <2>3. /\ N \cap Gone = {}
        /\ \A d \in Container : N \cap Elements(map[d]) = {}
        /\ \A o \in Thread : N \cap Waiting(rest[o]) = {}
    <3>1. CASE s.element = NoElement
        BY <3>1
    <3>2. CASE s.element # NoElement
      <4>1. Brings(s)
          BY <1>2, <3>2 DEF Brings
      <4>2. doing[th] \in Seq(Step(k)) /\ WaitingOnce(doing[th])
          BY <1>1 DEF Safe, Placed
      <4>3. /\ s.element \in Waiting(doing[th])
            /\ s.element \notin Waiting(Tail(doing[th]))
          BY <1>1, <1>2, <4>1, <4>2, TailFacts DEF s
      <4>4. /\ Waiting(doing[th]) \cap Gone = {}
            /\ \A d \in Container : Waiting(doing[th]) \cap Elements(map[d]) = {}
            /\ \A o \in Thread : o # th => Waiting(doing[th]) \cap Waiting(doing[o]) = {}
          BY <1>1 DEF Safe, Placed
      <4>5. \A o \in Thread : rest[o] = IF o = th THEN Tail(doing[th]) ELSE doing[o]
          BY <1>1 DEF Safe
      <4>6. \A o \in Thread : s.element \notin Waiting(rest[o])
          BY <4>3, <4>4, <4>5
      <4> QED BY <4>3, <4>4, <4>6
    <3> QED BY <3>1, <3>2
  <2> HIDE DEF N
  <2>4. map[s.on] \in AnyMap(k) /\ Once(map[s.on])
      BY <1>4, Parts
  <2>5. s.element \notin Elements(map[s.on])
      BY <1>4, <2>3 DEF Elements, N
  <2>6. /\ m \in AnyMap(k) /\ Once(m)
        /\ Elements(m) \subseteq Elements(map[s.on]) \union ({s.element} \ {NoElement})
      BY <1>1, <1>4, <1>8, <2>4, <2>5, AddElementFacts, ZenonT(30)
  <2>7. Safe([map EXCEPT ![s.on] = m], rest, Gone \union {}, k)
    <3>1. k <= k /\ {} \subseteq Elements(map[s.on])
        BY <1>1
    <3>2. Elements(m) \subseteq (Elements(map[s.on]) \ {}) \union N
        BY <2>6 DEF N
    <3> HIDE DEF rest
    <3> QED BY <1>1, <1>3, <1>4, <2>3, <2>6, <3>1, <3>2, MapChanges
  <2>8. Safe(map', doing', Gone \union {}, Len(elem'))
      BY <1>2, <1>5, <1>9, <2>7
  <2>9. disposed' = disposed \union {} /\ Len(elem) <= Len(elem')
        /\ elem' \in Seq(Object) /\ db' \in [Name -> {"none", "table", "view"}]
      BY <1>1, <1>2, Parts
  <2>10. ~Doing(th, {"empty"}) /\ doing' = [doing EXCEPT ![th] = Tail(doing[th])]
      BY <1>2, <1>5 DEF Doing, s
  <2> QED BY <1>2, <2>8, <2>9, <2>10, Becomes
<1>11. ASSUME AllWhole PROVE AllWhole'
  <2>1. m \in Map(k)
      BY <1>1, <1>4, <1>8, <1>11, AddElementIs DEF AllWhole
  <2>2. k <= k /\ Len(elem') = k
      BY <1>1, <1>2
  <2> QED BY <1>1, <1>4, <1>9, <1>11, <2>1, <2>2, OneMapWhole, Parts
<1> QED BY <1>10, <1>11

(* renameElement(): the element under the old name comes under the new one,   *)
(* or it throws; then the maps may be whole no longer.                       *)
LEMMA RelabelOnePlace ==
    ASSUME OnePlace, NEW th \in Thread, Relabel(th)
    PROVE  /\ OnePlace'
           /\ AllWhole /\ HasByName(map[Head(doing[th]).on], Head(doing[th]).name) => AllWhole'
<1> DEFINE s == Head(doing[th])
           k == Len(elem)
<1>1. k \in Nat /\ Safe(map, doing, Gone, k)
    BY Parts
<1>2. /\ doing[th] # <<>> /\ s.do = "relabel" /\ ~Locked(th) /\ UNCHANGED <<db, elem, disposed>>
      /\ Done(th) \/ Ends(th)
    BY DEF Relabel, Doing, Idle
<1>3. s \in Step(k)
    BY <1>1, <1>2, DoneSafe
<1>4. s.on \in Container /\ s.name \in Name /\ s.to \in Name
    BY <1>2, <1>3 DEF Step, Change
<1>5. map' = [map EXCEPT ![s.on] = RenameElement(@, s.name, s.to)]
    BY DEF Relabel
<1> HIDE DEF s
<1>6. PICK m : m = RenameElement(map[s.on], s.name, s.to)
    OBVIOUS
<1>7. map' = [map EXCEPT ![s.on] = m]
    BY <1>5, <1>6
<1>8. OnePlace'
  <2>1. PICK rest : doing' = [doing EXCEPT ![th] = rest] /\ Safe(map, doing', Gone, k)
    <3>1. CASE Done(th)
      <4>1. doing' = [doing EXCEPT ![th] = Tail(doing[th])]
          BY <3>1 DEF Done
      <4>2. Safe(map, [doing EXCEPT ![th] = Tail(@)], Gone, k)
          BY <1>1, <1>2, DoneSafe
      <4>3. Safe(map, doing', Gone, k)
          BY <3>1, <4>2 DEF Done
      <4> QED BY <4>1, <4>3
    <3>2. CASE Ends(th)
      <4>1. doing' = [doing EXCEPT ![th] = <<>>]
          BY <3>2 DEF Ends
      <4>2. k <= k /\ {} \cap (1..k) = {} /\ Waiting(<<>>) \subseteq Waiting(doing[th]) \union {}
          BY <1>1, NoChange
      <4> QED BY <1>1, <4>1, <4>2, NoChange, CallChanges
    <3> QED BY <1>2, <3>1, <3>2
  <2>2. map[s.on] \in AnyMap(k) /\ Once(map[s.on])
      BY <1>4, Parts
  <2>3. m \in AnyMap(k) /\ Once(m) /\ Elements(m) = Elements(map[s.on])
      BY <1>1, <1>4, <1>6, <2>2, RenameElementFacts
  <2>4. Safe([map EXCEPT ![s.on] = m], doing', Gone \union {}, k)
    <3>1. k <= k /\ {} \subseteq Elements(map[s.on])
        BY <1>1
    <3>2. Elements(m) \subseteq (Elements(map[s.on]) \ {}) \union {}
        BY <2>3
    <3>3. /\ {} \cap Gone = {}
          /\ \A d \in Container : {} \cap Elements(map[d]) = {}
          /\ \A o \in Thread : {} \cap Waiting(doing'[o]) = {}
        OBVIOUS
    <3>4. PICK todo : todo = doing'
        OBVIOUS
    <3>5. Safe([map EXCEPT ![s.on] = m], todo, Gone \union {}, k)
        BY <1>1, <1>4, <2>1, <2>3, <3>1, <3>2, <3>3, <3>4, MapChanges
    <3> QED BY <3>4, <3>5
  <2>5. Safe(map', doing', Gone \union {}, Len(elem'))
      BY <1>2, <1>7, <2>4
  <2>6. disposed' = disposed \union {} /\ Len(elem) <= Len(elem')
        /\ elem' \in Seq(Object) /\ db' \in [Name -> {"none", "table", "view"}]
      BY <1>1, <1>2, Parts
  <2>7. ~Doing(th, {"empty"})
      BY <1>2 DEF Doing, s
  <2> QED BY <1>2, <2>1, <2>5, <2>6, <2>7, Becomes
<1>9. ASSUME AllWhole, HasByName(map[s.on], s.name) PROVE AllWhole'
  <2>1. m \in Map(k)
      BY <1>1, <1>4, <1>6, <1>9, RenameElementIs DEF AllWhole, HasByName
  <2>2. k <= k /\ Len(elem') = k
      BY <1>1, <1>2
  <2> QED BY <1>1, <1>4, <1>7, <1>9, <2>1, <2>2, OneMapWhole, Parts
<1> QED BY <1>8, <1>9 DEF s

(* A call that has loaded an element where it had none, and looked up the     *)
(* places it will take out.                                                  *)
LEMMA KeptAndStarted ==
    ASSUME OnePlace, NEW th \in Thread, NEW got, Keep(th, got), got.elem \in Seq(Object),
           Safe(got.map, doing, Gone, Len(got.elem)), Len(elem) <= Len(got.elem),
           \A c \in Container : got.map[c] \in Map(Len(got.elem)),
           NEW steps, Start(th, steps), UNCHANGED disposed,
           steps \in Seq(Step(Len(got.elem))), WaitingOnce(steps), Waiting(steps) \subseteq {},
           db' \in [Name -> {"none", "table", "view"}]
    PROVE  OnePlace' /\ AllWhole'
<1> DEFINE k == Len(got.elem)
<1>1. k \in Nat /\ k <= k /\ {} \cap (1..k) = {}
    OBVIOUS
<1>2. Safe(got.map, doing', Gone, k)
    BY <1>1, Starts
<1>3. map' = got.map /\ elem' = got.elem /\ (Locked(th) => map' = map)
    BY DEF Keep
<1>4. Locked(th) => \A c \in Container : Elements(map[c]) \subseteq Elements(map'[c])
    BY <1>3
<1>5. PICK X : X = {}
    OBVIOUS
<1>6. disposed' = disposed \union X /\ Gone \union X = Gone
    BY <1>5
<1>7. Safe(map', doing', Gone \union X, Len(elem'))
    BY <1>2, <1>3, <1>6
<1>8. OnePlace'
    BY <1>3, <1>4, <1>6, <1>7, StartsIdle, Becomes
<1> QED BY <1>3, <1>8 DEF AllWhole

\* The drop of a table has its removal to do.
LEMMA DropTableOnePlace ==
    ASSUME OnePlace, AllWhole, NEW th \in Thread, NEW n \in Name, DropTable(th, n)
    PROVE  OnePlace' /\ AllWhole'
<1> DEFINE s == Removal("tables", n)
<1>1. PICK got : got = Fetch("tables", n, Now)
    OBVIOUS
<1>2. /\ HasByName(map["tables"], n) /\ Keep(th, got) /\ Start(th, <<s>>) /\ UNCHANGED disposed
      /\ db' = [db EXCEPT ![n] = "none"]
    BY <1>1 DEF DropTable
<1>3. "tables" \in Container
    BY DEF Container
<1>4. /\ got.elem \in Seq(Object) /\ Safe(got.map, doing, Gone, Len(got.elem))
      /\ Len(elem) <= Len(got.elem)
      /\ \A c \in Container : got.map[c] \in Map(Len(got.elem))
  <2>1. /\ Now.elem \in Seq(Object) /\ Safe(Now.map, doing, Gone, Len(Now.elem))
        /\ HasByName(Now.map["tables"], n) /\ Now.elem = elem
        /\ \A c \in Container : Now.map[c] \in Map(Len(Now.elem))
      BY <1>2, Parts DEF Now, AllWhole
  <2> QED BY <1>1, <1>3, <2>1, FetchFacts, Parts
<1>5. Len(got.elem) \in Nat
    BY <1>4
<1>6. s \in Step(Len(got.elem)) /\ ~Brings(s)
    BY <1>3, <1>5, AtPlaceType DEF Removal
<1> HIDE DEF s
<1>7. /\ <<s>> \in Seq(Step(Len(got.elem))) /\ WaitingOnce(<<s>>)
      /\ Waiting(<<s>>) \subseteq {}
    BY <1>5, <1>6, OneChange
<1>8. db' \in [Name -> {"none", "table", "view"}]
    BY <1>2, Parts
<1> QED BY <1>2, <1>4, <1>7, <1>8, KeptAndStarted

\* That of a view among the tables has two.
LEMMA DropViewOfTablesOnePlace ==
    ASSUME OnePlace, AllWhole, NEW th \in Thread, NEW n \in Name, DropViewOfTables(th, n)
    PROVE  OnePlace' /\ AllWhole'
<1>1. PICK got : got = Fetch("tables", n, Now)
    OBVIOUS
<1>2. PICK both : both = Fetch("views", n, got)
    OBVIOUS
<1>3. PICK own : own = Of("views", n, both).name
    OBVIOUS
<1>4. /\ HasByName(map["tables"], n) /\ HasByName(map["views"], n)
      /\ Has("views", n, both) /\ Keep(th, both)
      /\ Start(th, BothRemovals(n)) /\ UNCHANGED disposed
      /\ db' = [db EXCEPT ![own] = "none"]
    BY <1>1, <1>2, <1>3 DEF DropViewOfTables
<1>5. "tables" \in Container /\ "views" \in Container
    BY DEF Container
<1>6. /\ got.elem \in Seq(Object) /\ Safe(got.map, doing, Gone, Len(got.elem))
      /\ got.map["views"].names = map["views"].names /\ Len(elem) <= Len(got.elem)
      /\ \A c \in Container : got.map[c] \in Map(Len(got.elem))
  <2>1. /\ Now.elem \in Seq(Object) /\ Safe(Now.map, doing, Gone, Len(Now.elem))
        /\ HasByName(Now.map["tables"], n) /\ Now.map = map /\ Now.elem = elem
        /\ \A c \in Container : Now.map[c] \in Map(Len(Now.elem))
      BY <1>4, Parts DEF Now, AllWhole
  <2>2. LET new == Fetch("tables", n, Now) IN
        /\ new.elem \in Seq(Object) /\ Len(Now.elem) <= Len(new.elem)
        /\ Safe(new.map, doing, Gone, Len(new.elem))
        /\ \A d \in Container : /\ new.map[d].names = Now.map[d].names
                               /\ new.map[d] \in Map(Len(new.elem))
        /\ Has("tables", n, new) =>
             /\ GetByIndex(new.map["tables"], GetIndex(new.map["tables"], n)) \in DOMAIN new.elem
             /\ Of("tables", n, new) \in Object
      BY <1>5, <2>1, FetchFacts, Parts
  <2> QED BY <1>1, <1>5, <2>1, <2>2
<1>7. /\ both.elem \in Seq(Object) /\ Safe(both.map, doing, Gone, Len(both.elem))
      /\ Of("views", n, both) \in Object /\ Len(elem) <= Len(both.elem)
      /\ \A c \in Container : both.map[c] \in Map(Len(both.elem))
  <2>0. Len(elem) \in Nat /\ Len(got.elem) \in Nat
      BY <1>6, Parts
  <2>1. HasByName(got.map["views"], n)
      BY <1>4, <1>6 DEF HasByName
  <2>2. /\ both.elem \in Seq(Object) /\ Safe(both.map, doing, Gone, Len(both.elem))
        /\ Of("views", n, both) \in Object /\ Len(got.elem) <= Len(both.elem)
        /\ \A c \in Container : both.map[c] \in Map(Len(both.elem))
      BY <1>2, <1>4, <1>5, <1>6, <2>1, FetchFacts, Parts
  <2>3. Len(both.elem) \in Nat
      BY <2>2
  <2> QED BY <1>6, <2>0, <2>2, <2>3
<1>8. Len(both.elem) \in Nat
    BY <1>7
<1> DEFINE k == Len(both.elem)
<1>9. /\ Removal("views", n) \in Step(k) /\ ~Brings(Removal("views", n))
      /\ Removal("tables", n) \in Step(k) /\ ~Brings(Removal("tables", n))
    BY <1>5, <1>8, AtPlaceType DEF Removal
<1>10. /\ BothRemovals(n) \in Seq(Step(k)) /\ WaitingOnce(BothRemovals(n))
       /\ Waiting(BothRemovals(n)) \subseteq {}
    BY <1>8, <1>9, TwoChanges DEF BothRemovals
<1>11. db' \in [Name -> {"none", "table", "view"}]
    BY <1>4, Parts
<1> QED BY <1>4, <1>7, <1>10, <1>11, KeptAndStarted

\* So has that of a view among the views.
LEMMA DropViewOnePlace ==
    ASSUME OnePlace, AllWhole, NEW th \in Thread, NEW n \in Name, DropView(th, n)
    PROVE  OnePlace' /\ AllWhole'
<1> DEFINE s == Removal("views", n)
<1>1. PICK got : got = Fetch("views", n, Now)
    OBVIOUS
<1>2. PICK own : own = Of("views", n, got).name
    OBVIOUS
<1>3. /\ HasByName(map["views"], n) /\ Keep(th, got) /\ Start(th, <<s>>) /\ UNCHANGED disposed
      /\ db' = [db EXCEPT ![own] = "none"]
    BY <1>1, <1>2 DEF DropView
<1>4. "views" \in Container
    BY DEF Container
<1>5. /\ got.elem \in Seq(Object) /\ Safe(got.map, doing, Gone, Len(got.elem))
      /\ Len(elem) <= Len(got.elem)
      /\ \A c \in Container : got.map[c] \in Map(Len(got.elem))
  <2>1. /\ Now.elem \in Seq(Object) /\ Safe(Now.map, doing, Gone, Len(Now.elem))
        /\ HasByName(Now.map["views"], n) /\ Now.elem = elem
        /\ \A c \in Container : Now.map[c] \in Map(Len(Now.elem))
      BY <1>3, Parts DEF Now, AllWhole
  <2> QED BY <1>1, <1>4, <2>1, FetchFacts, Parts
<1>6. Len(got.elem) \in Nat
    BY <1>5
<1>7. s \in Step(Len(got.elem)) /\ ~Brings(s)
    BY <1>4, <1>6, AtPlaceType DEF Removal
<1> HIDE DEF s
<1>8. /\ <<s>> \in Seq(Step(Len(got.elem))) /\ WaitingOnce(<<s>>)
      /\ Waiting(<<s>>) \subseteq {}
    BY <1>6, <1>7, OneChange
<1>9. db' \in [Name -> {"none", "table", "view"}]
    BY <1>3, Parts
<1> QED BY <1>3, <1>5, <1>8, <1>9, KeptAndStarted

(* A call that starts without a change of a map, with elements more.          *)
LEMMA StartsOnly ==
    ASSUME OnePlace, NEW th \in Thread, NEW steps, Start(th, steps), UNCHANGED <<map, disposed>>,
           elem' \in Seq(Object), Len(elem) <= Len(elem'), Safe(map, doing', Gone, Len(elem')),
           db' \in [Name -> {"none", "table", "view"}]
    PROVE  OnePlace' /\ (AllWhole => AllWhole')
<1>1. PICK X : X = {}
    OBVIOUS
<1>2. disposed' = disposed \union X /\ Gone \union X = Gone
    BY <1>1
<1>3. Safe(map', doing', Gone \union X, Len(elem'))
    BY <1>2
<1>4. \A c \in Container : Elements(map[c]) \subseteq Elements(map'[c])
    OBVIOUS
<1>5. OnePlace'
    BY <1>2, <1>3, <1>4, StartsIdle, Becomes
<1>6. ASSUME AllWhole, NEW c \in Container PROVE map'[c] \in Map(Len(elem'))
  <2>1. Len(elem) \in Nat /\ Len(elem') \in Nat
      BY Parts
  <2>2. PICK m, l : m = map[c] /\ l = Len(elem')
      OBVIOUS
  <2>3. m \in Map(Len(elem))
      BY <1>6, <2>2 DEF AllWhole
  <2>4. m \in AnyMap(Len(elem))
      BY <2>3 DEF Map
  <2>5. m \in Map(l)
      BY <2>1, <2>2, <2>3, <2>4, MapGrows
  <2> QED BY <2>2, <2>5
<1> QED BY <1>5, <1>6 DEF AllWhole

(* appendByDescriptor(): the new element is with the call.                   *)
LEMMA AppendOnePlace ==
    ASSUME OnePlace, NEW th \in Thread, NEW c \in Container, NEW n \in Name,
           AppendByDescriptor(th, c, n)
    PROVE  OnePlace' /\ (AllWhole => AllWhole')
<1> DEFINE k == Len(elem)
           kind == IF c = "tables" THEN "table" ELSE "view"
<1>1. k \in Nat /\ Safe(map, doing, Gone, k) /\ elem \in Seq(Object)
    BY Parts
<1>2. /\ db' = [db EXCEPT ![n] = kind] /\ elem' = Append(elem, [name |-> n, kind |-> kind])
      /\ Start(th, Additions(c, n)) /\ UNCHANGED <<map, disposed>>
    BY DEF AppendByDescriptor
<1>3. [name |-> n, kind |-> kind] \in Object
    BY DEF Object
<1>4. elem' \in Seq(Object) /\ Len(elem') = k + 1
    BY <1>1, <1>2, <1>3, AppendProperties
<1>5. db' \in [Name -> {"none", "table", "view"}]
    BY <1>2, Parts
<1>6. k + 1 \in Nat /\ k <= k + 1 /\ {k + 1} \cap (1..k) = {} /\ k + 1 \in 1..(k + 1)
    BY <1>1
<1>7. PICK a : a = Addition(c, n)
    OBVIOUS
<1>8. a \in Step(k + 1) /\ a.element = k + 1
    BY <1>6, <1>7 DEF Addition, WithElement, Step, Change, NextElement
<1>9. /\ Additions(c, n) \in Seq(Step(k + 1)) /\ WaitingOnce(Additions(c, n))
      /\ Waiting(Additions(c, n)) \subseteq {k + 1}
  <2>1. CASE c = "tables"
    <3>1. Additions(c, n) = <<a>>
        BY <1>7, <2>1 DEF Additions
    <3>2. /\ <<a>> \in Seq(Step(k + 1)) /\ WaitingOnce(<<a>>)
          /\ Waiting(<<a>>) \subseteq (IF Brings(a) THEN {a.element} ELSE {})
        BY <1>6, <1>8, OneChange
    <3> QED BY <1>8, <3>1, <3>2
  <2>2. CASE c # "tables"
    <3>1. PICK w : w = WithElement("insert", "tables", n, NoElement)
        OBVIOUS
    <3>2. Additions(c, n) = <<w, a>>
        BY <1>7, <2>2, <3>1 DEF Additions
    <3>3. w \in Step(k + 1) /\ ~Brings(w)
        BY <3>1 DEF WithElement, Step, Change, Container, Brings
    <3>4. /\ <<w, a>> \in Seq(Step(k + 1)) /\ WaitingOnce(<<w, a>>)
          /\ Waiting(<<w, a>>) \subseteq (IF Brings(a) THEN {a.element} ELSE {})
        BY <1>6, <1>8, <3>3, TwoChanges
    <3> QED BY <1>8, <3>2, <3>4
  <2> QED BY <2>1, <2>2
<1>10. Safe(map, doing', Gone, k + 1)
    BY <1>1, <1>2, <1>6, <1>9, Starts
<1> QED BY <1>2, <1>4, <1>5, <1>6, <1>10, StartsOnly

\* A renaming is a change that brings no element.
LEMMA RenamingType ==
    ASSUME NEW k \in Nat, NEW c \in Container, NEW n \in Name, NEW to \in Name
    PROVE  Renaming(c, n, to) \in Step(k) /\ ~Brings(Renaming(c, n, to))
BY DEF Renaming, Step, Change, Brings

\* The database has an object under another name.
LEMMA RenamedType ==
    ASSUME OnePlace, NEW kind \in {"table", "view"}, NEW n \in Name, NEW to \in Name,
           Renamed(kind, n, to)
    PROVE  db' \in [Name -> {"none", "table", "view"}]
BY Parts DEF Renamed

(* rename() of one container: the name of the element and one change to make. *)
LEMMA RenamesOnePlace ==
    ASSUME OnePlace, NEW th \in Thread, NEW c \in Container, NEW e \in DOMAIN elem, NEW to \in Name,
           elem' = [elem EXCEPT ![e].name = to], Start(th, <<Renaming(c, elem[e].name, to)>>),
           UNCHANGED <<map, disposed>>, db' \in [Name -> {"none", "table", "view"}]
    PROVE  OnePlace' /\ (AllWhole => AllWhole')
<1> DEFINE k == Len(elem)
           s == Renaming(c, elem[e].name, to)
<1>1. k \in Nat /\ Safe(map, doing, Gone, k) /\ elem \in Seq(Object)
    BY Parts
<1>2. elem' \in Seq(Object) /\ Len(elem') = k
  <2>1. PICK new : new = [elem EXCEPT ![e].name = to]
      OBVIOUS
  <2>2. new \in Seq(Object) /\ Len(new) = k
      BY <1>1, <2>1, RenamedObject
  <2> QED BY <2>1, <2>2
<1>3. elem[e].name \in Name
    BY <1>1, ObjectName
<1>4. s \in Step(k) /\ ~Brings(s)
    BY <1>1, <1>3, RenamingType
<1> HIDE DEF s
<1>5. <<s>> \in Seq(Step(k)) /\ WaitingOnce(<<s>>) /\ Waiting(<<s>>) \subseteq {}
    BY <1>1, <1>4, OneChange
<1>6. Safe(map, doing', Gone, k)
  <2>1. k <= k /\ {} \cap (1..k) = {} /\ Start(th, <<s>>)
      BY <1>1 DEF s
  <2> QED BY <1>1, <1>5, <2>1, Starts
<1>7. Len(elem) <= Len(elem') /\ Start(th, <<s>>)
    BY <1>1, <1>2 DEF s
<1>8. Safe(map, doing', Gone, Len(elem'))
    BY <1>2, <1>6
<1> HIDE DEF k
<1> QED BY <1>2, <1>7, <1>8, StartsOnly

\* The rename of a table, of a view and of a view among the tables.
LEMMA RenameTableOnePlace ==
    ASSUME OnePlace, NEW th \in Thread, NEW e \in DOMAIN elem, NEW to \in Name,
           RenameTable(th, e, to)
    PROVE  OnePlace' /\ (AllWhole => AllWhole')
<1>1. elem[e].name \in Name
    BY Parts, ObjectName
<1>2. db' \in [Name -> {"none", "table", "view"}]
    BY <1>1, RenamedType DEF RenameTable
<1>3. "tables" \in Container
    BY DEF Container
<1> QED BY <1>2, <1>3, RenamesOnePlace DEF RenameTable

\* Of a view.
LEMMA RenameViewOnePlace ==
    ASSUME OnePlace, NEW th \in Thread, NEW e \in DOMAIN elem, NEW to \in Name,
           RenameView(th, e, to)
    PROVE  OnePlace' /\ (AllWhole => AllWhole')
<1>1. elem[e].name \in Name
    BY Parts, ObjectName
<1>2. db' \in [Name -> {"none", "table", "view"}]
    BY <1>1, RenamedType DEF RenameView
<1>3. "views" \in Container
    BY DEF Container
<1> QED BY <1>2, <1>3, RenamesOnePlace DEF RenameView

\* Of a view among the tables.
LEMMA RenameViewOfTablesOnePlace ==
    ASSUME OnePlace, AllWhole, NEW th \in Thread, NEW e \in DOMAIN elem, NEW to \in Name,
           RenameViewOfTables(th, e, to)
    PROVE  OnePlace' /\ AllWhole'
<1>1. PICK n : n = elem[e].name
    OBVIOUS
<1>2. PICK both : both = Fetch("views", n, Now)
    OBVIOUS
<1>3. PICK v : v = GetByIndex(both.map["views"], GetIndex(both.map["views"], n))
    OBVIOUS
<1>4. PICK own : own = both.elem[v].name
    OBVIOUS
<1>5. PICK steps : steps = <<Renaming("views", IF RenamesViews THEN own ELSE n, to),
                             Renaming("tables", n, to)>>
    OBVIOUS
<1>6. PICK got : got = [both EXCEPT !.elem = [ViewRenamed(both, v, to) EXCEPT ![e].name = to]]
    OBVIOUS
<1>7. /\ HasByName(map["views"], n) /\ Has("views", n, both) /\ Renamed("view", own, to)
      /\ Keep(th, got) /\ Start(th, steps) /\ UNCHANGED disposed
    BY <1>1, <1>2, <1>3, <1>4, <1>5, <1>6 DEF RenameViewOfTables
<1>8. "tables" \in Container /\ "views" \in Container
    BY DEF Container
<1>9. n \in Name
    BY <1>1, Parts, ObjectName
<1>10. /\ both.elem \in Seq(Object) /\ Safe(both.map, doing, Gone, Len(both.elem))
       /\ Len(elem) <= Len(both.elem) /\ v \in DOMAIN both.elem
       /\ \A c \in Container : both.map[c] \in Map(Len(both.elem))
  <2>1. /\ Now.elem \in Seq(Object) /\ Safe(Now.map, doing, Gone, Len(Now.elem))
        /\ HasByName(Now.map["views"], n) /\ Now.elem = elem
        /\ \A c \in Container : Now.map[c] \in Map(Len(Now.elem))
      BY <1>7, Parts DEF Now, AllWhole
  <2> QED BY <1>2, <1>3, <1>7, <1>8, <1>9, <2>1, FetchFacts, Parts
<1>11. own \in Name
    BY <1>4, <1>10, ObjectName
<1>12. e \in DOMAIN both.elem
  <2>1. e \in 1..Len(elem) /\ Len(elem) \in Nat
      BY Parts
  <2>2. DOMAIN both.elem = 1..Len(both.elem) /\ Len(both.elem) \in Nat
      BY <1>10
  <2> QED BY <1>10, <2>1, <2>2
<1>13. PICK old : old = ViewRenamed(both, v, to)
    OBVIOUS
<1>14. old \in Seq(Object) /\ Len(old) = Len(both.elem) /\ e \in DOMAIN old
  <2>1. CASE RenamesViews
      BY <1>10, <1>12, <1>13, <2>1, RenamedObject DEF ViewRenamed
  <2>2. CASE ~RenamesViews
      BY <1>10, <1>12, <1>13, <2>2 DEF ViewRenamed
  <2> QED BY <2>1, <2>2
<1>15. PICK new : new = [old EXCEPT ![e].name = to]
    OBVIOUS
<1>16. new \in Seq(Object) /\ Len(new) = Len(both.elem)
    BY <1>14, <1>15, RenamedObject
<1>17. got.elem = new /\ got.map = both.map
  <2>1. both = [map |-> both.map, elem |-> both.elem]
      BY <1>2 DEF Fetch, Now
  <2> QED BY <1>6, <1>13, <1>15, <2>1
<1>18. /\ got.elem \in Seq(Object) /\ Safe(got.map, doing, Gone, Len(got.elem))
       /\ Len(elem) <= Len(got.elem)
       /\ \A c \in Container : got.map[c] \in Map(Len(got.elem))
    BY <1>10, <1>16, <1>17
<1>19. Len(got.elem) \in Nat
    BY <1>18
<1>20. /\ steps \in Seq(Step(Len(got.elem))) /\ WaitingOnce(steps)
       /\ Waiting(steps) \subseteq {}
  <2>1. PICK f : f = IF RenamesViews THEN own ELSE n
      OBVIOUS
  <2>2. f \in Name
      BY <1>9, <1>11, <2>1
  <2>3. /\ Renaming("views", f, to) \in Step(Len(got.elem)) /\ ~Brings(Renaming("views", f, to))
        /\ Renaming("tables", n, to) \in Step(Len(got.elem)) /\ ~Brings(Renaming("tables", n, to))
      BY <1>8, <1>9, <1>19, <2>2, RenamingType
  <2> QED BY <1>5, <1>19, <2>1, <2>3, TwoChanges
<1>21. db' \in [Name -> {"none", "table", "view"}]
    BY <1>7, <1>11, RenamedType
<1> QED BY <1>7, <1>18, <1>20, <1>21, KeptAndStarted

(* refresh() starts: the elements of the container are disposed of, the map  *)
(* still has them.                                                           *)
LEMMA RefreshOnePlace ==
    ASSUME OnePlace, NEW th \in Thread, NEW c \in Container, Refresh(th, c)
    PROVE  OnePlace' /\ (AllWhole => AllWhole')
<1> DEFINE k == Len(elem)
<1>1. k \in Nat /\ k <= k /\ Safe(map, doing, Gone, k) /\ disposed \subseteq 1..k
    BY Parts
<1>2. PICK steps : steps = Refreshing(c)
    OBVIOUS
<1>3. /\ Start(th, steps) /\ ~Locked(th) /\ UNCHANGED <<db, map, elem>>
      /\ disposed' = disposed \union Elements(map[c])
    BY <1>2 DEF Refresh, Elements
<1>4. /\ steps \in Seq(Step(k)) /\ WaitingOnce(steps) /\ Waiting(steps) \subseteq {}
      /\ steps # <<>> /\ Head(steps) = [do |-> "empty", on |-> c]
  <2>1. PICK S, x, y, z : /\ S = Step(k) /\ x = [do |-> "empty", on |-> c]
                          /\ y = [do |-> "refill", on |-> "tables"]
                          /\ z = [do |-> "refill", on |-> "views"]
      OBVIOUS
  <2>2. x \in S /\ y \in S /\ z \in S
      BY <2>1 DEF Step, Container
  <2>3. ~Brings(x) /\ ~Brings(y) /\ ~Brings(z)
      BY <2>1 DEF Brings
  <2>4. steps = <<x, y, z>>
      BY <1>2, <2>1 DEF Refreshing
  <2>5. /\ steps \in Seq(S) /\ steps # <<>> /\ Head(steps) = x
        /\ DOMAIN steps = {1, 2, 3} /\ steps[1] = x /\ steps[2] = y /\ steps[3] = z
      BY <2>2, <2>4
  <2>6. \A j \in DOMAIN steps : ~Brings(steps[j])
      BY <2>3, <2>5
  <2> QED BY <2>1, <2>5, <2>6 DEF WaitingOnce, Waiting
<1>5. Safe(map, doing', Gone, k)
  <2>1. {} \cap (1..k) = {}
      OBVIOUS
  <2> QED BY <1>1, <1>3, <1>4, <2>1, Starts
<1>6. Gone' \in SUBSET Gone
  <2> SUFFICES ASSUME NEW e \in Gone' PROVE e \in Gone
      OBVIOUS
  <2>1. e \in disposed' /\ \A d \in Container : Disposing(d)' => e \notin Elements(map[d])
      BY <1>3 DEF Gone
  <2>2. Disposing(c)'
    <3>1. doing'[th] = steps
        BY <1>1, <1>3 DEF Start, Safe
    <3> QED BY <1>4, <3>1 DEF Disposing, Doing, Idle
  <2>3. e \in disposed
      BY <1>3, <2>1, <2>2
  <2>4. \A d \in Container : ~Disposing(d)
      BY <1>3 DEF Disposing, Doing, Idle, Locked, Renews, Start
  <2> QED BY <2>3, <2>4 DEF Gone
<1>7. Safe(map', doing', Gone', Len(elem'))
    BY <1>3, <1>5, <1>6, SafeLess
<1>8. disposed' \subseteq 1..Len(elem')
    BY <1>1, <1>3, ElementsType
<1> QED BY <1>3, <1>7, <1>8, Parts DEF OnePlace, AllWhole

(* clear() empties the map: its elements are disposed of and with no map any  *)
(* more.                                                                     *)
LEMMA EmptyOnePlace ==
    ASSUME OnePlace, NEW th \in Thread, Empty(th)
    PROVE  OnePlace' /\ (AllWhole => AllWhole')
<1> DEFINE k == Len(elem)
           c == Head(doing[th]).on
<1>1. k \in Nat /\ k <= k /\ Safe(map, doing, Gone, k) /\ disposed \subseteq 1..k
    BY Parts
<1>2. /\ doing[th] # <<>> /\ Head(doing[th]).do = "empty" /\ Done(th)
      /\ map' = [map EXCEPT ![c] = EmptyMap] /\ UNCHANGED <<db, elem, disposed>>
    BY DEF Empty, Doing, Idle, Clear
<1>3. c \in Container
  <2>1. Head(doing[th]) \in Step(k)
      BY <1>1, <1>2, DoneSafe
  <2> QED BY <2>1 DEF Step, Change
<1> HIDE DEF c
<1>4. /\ EmptyMap \in AnyMap(k) /\ EmptyMap \in Map(k) /\ Once(EmptyMap)
      /\ Elements(EmptyMap) = {}
    BY <1>1, EmptyMapFacts
<1>5. PICK X : X = Elements(map[c])
    OBVIOUS
<1>6. Safe([map EXCEPT ![c] = EmptyMap], doing, Gone \union X, k)
  <2>1. X \subseteq Elements(map[c]) /\ Elements(EmptyMap) \subseteq (Elements(map[c]) \ X) \union {}
      BY <1>4, <1>5
  <2>2. /\ {} \cap Gone = {}
        /\ \A x \in Container : {} \cap Elements(map[x]) = {}
        /\ \A o \in Thread : {} \cap Waiting(doing[o]) = {}
      OBVIOUS
  <2> QED BY <1>1, <1>3, <1>4, <2>1, <2>2, MapChanges
<1>7. Safe(map', doing', Gone \union X, k)
    BY <1>1, <1>2, <1>6, DoneSafe DEF Done
<1>8. Gone' \in SUBSET (Gone \union X)
  <2> SUFFICES ASSUME NEW e \in Gone', e \notin X PROVE e \in Gone
      OBVIOUS
  <2>1. e \in disposed /\ \A d \in Container : Disposing(d)' => e \notin Elements(map'[d])
      BY <1>2 DEF Gone
  <2>2. ASSUME NEW d \in Container, Disposing(d) PROVE e \notin Elements(map[d])
    <3>1. CASE d = c
        BY <1>5, <3>1
    <3>2. CASE d # c
      <4>1. PICK o \in Thread : Doing(o, {"empty"}) /\ Head(doing[o]).on = d
          BY <2>2 DEF Disposing
      <4>2. o # th
          BY <3>2, <4>1 DEF c
      <4>3. doing'[o] = doing[o] /\ map'[d] = map[d]
          BY <1>1, <1>2, <3>2, <4>2 DEF Done, Safe
      <4>4. Disposing(d)'
          BY <4>1, <4>3 DEF Disposing, Doing, Idle
      <4> QED BY <2>1, <4>3, <4>4
    <3> QED BY <3>1, <3>2
  <2> QED BY <2>1, <2>2 DEF Gone
<1>9. Safe(map', doing', Gone', Len(elem'))
    BY <1>2, <1>7, <1>8, SafeLess
<1>10. OnePlace'
    BY <1>1, <1>2, <1>9, Parts DEF OnePlace
<1>11. ASSUME AllWhole PROVE AllWhole'
  <2>1. k <= k /\ Len(elem') = k
      BY <1>1, <1>2
  <2> QED BY <1>1, <1>2, <1>3, <1>4, <1>11, <2>1, OneMapWhole, Parts
<1> QED BY <1>10, <1>11

(* refill(): a container gets names only.                                    *)
LEMMA RefillOneOnePlace ==
    ASSUME OnePlace, NEW th \in Thread, RefillOne(th)
    PROVE  OnePlace' /\ (AllWhole => AllWhole')
<1> DEFINE k == Len(elem)
           c == Head(doing[th]).on
<1>1. k \in Nat /\ k <= k /\ Safe(map, doing, Gone, k)
    BY Parts
<1>2. /\ doing[th] # <<>> /\ Head(doing[th]).do = "refill" /\ Done(th)
      /\ map' = [map EXCEPT ![c] = Refill(@, Lists(c, db))] /\ UNCHANGED <<db, elem, disposed>>
    BY DEF RefillOne, Doing, Idle
<1>3. c \in Container
  <2>1. Head(doing[th]) \in Step(k)
      BY <1>1, <1>2, DoneSafe
  <2> QED BY <2>1 DEF Step, Change
<1> HIDE DEF c
<1>4. Lists(c, db) \in SUBSET Name
    BY DEF Lists
<1>5. PICK m : m = Refill(map[c], Lists(c, db))
    OBVIOUS
<1>6. m \in AnyMap(k) /\ Once(m) /\ Elements(m) = Elements(map[c])
  <2>1. map[c] \in AnyMap(k) /\ Once(map[c])
      BY <1>3, Parts
  <2> QED BY <1>1, <1>4, <1>5, <2>1, RefillFacts
<1>7. map' = [map EXCEPT ![c] = m]
    BY <1>2, <1>5
<1>8. OnePlace'
  <2>1. Safe([map EXCEPT ![c] = m], doing, Gone \union {}, k)
    <3>1. {} \subseteq Elements(map[c]) /\ Elements(m) \subseteq (Elements(map[c]) \ {}) \union {}
        BY <1>6
    <3>2. /\ {} \cap Gone = {}
          /\ \A x \in Container : {} \cap Elements(map[x]) = {}
          /\ \A o \in Thread : {} \cap Waiting(doing[o]) = {}
        OBVIOUS
    <3> QED BY <1>1, <1>3, <1>6, <3>1, <3>2, MapChanges
  <2>2. Safe(map', doing', Gone \union {}, Len(elem'))
      BY <1>1, <1>2, <1>7, <2>1, DoneSafe DEF Done
  <2>3. \A d \in Container : Elements(map[d]) \subseteq Elements(map'[d])
    <3>1. \A d \in Container : map'[d] = IF d = c THEN m ELSE map[d]
        BY <1>1, <1>7 DEF Safe
    <3> QED BY <1>6, <3>1
  <2>4. disposed' = disposed \union {} /\ Len(elem) <= Len(elem')
        /\ elem' \in Seq(Object) /\ db' \in [Name -> {"none", "table", "view"}]
      BY <1>1, <1>2, Parts
  <2>5. ~Doing(th, {"empty"}) /\ doing' = [doing EXCEPT ![th] = Tail(doing[th])]
      BY <1>2 DEF Doing, Done
  <2> QED BY <2>2, <2>3, <2>4, <2>5, Becomes
<1>9. ASSUME AllWhole PROVE AllWhole'
  <2>1. m \in Map(k)
      BY <1>1, <1>3, <1>4, <1>5, <1>9, RefillIs DEF AllWhole
  <2>2. k <= k /\ Len(elem') = k
      BY <1>1, <1>2
  <2> QED BY <1>1, <1>3, <1>7, <1>9, <2>1, <2>2, OneMapWhole, Parts
<1> QED BY <1>8, <1>9

\* A refresh that cannot read the names ends.
LEMMA RefillFailsOnePlace ==
    ASSUME OnePlace, NEW th \in Thread, RefillFails(th)
    PROVE  OnePlace' /\ (AllWhole => AllWhole')
<1>1. /\ ~Doing(th, {"empty"}) /\ doing' = [doing EXCEPT ![th] = <<>>]
      /\ UNCHANGED <<db, map, elem, disposed>>
    BY DEF RefillFails, Doing, Ends
<1>2. Len(elem) \in Nat
    BY Parts
<1>3. /\ <<>> \in Seq(Step(Len(elem))) /\ WaitingOnce(<<>>)
      /\ Waiting(<<>>) \subseteq Waiting(doing[th])
    BY <1>2, NoChange
<1> QED BY <1>1, <1>3, ChangesNoMap

----------------------------------------------------------------------------
(* A map is whole unless the threads have raced. *)

\* A change is tested at the head of a call only.
AtHead ==
  \A th \in Thread : \A j \in DOMAIN doing[th] : j # 1 => doing[th][j].do # "relabel"

\* A name tested is still there as long as no other thread has changed the map.
Tested ==
  \A th \in Thread \ stale : Doing(th, {"relabel"}) =>
    HasByName(map[Head(doing[th]).on], Head(doing[th]).name)

Whole == AtHead /\ (~raced => AllWhole /\ Tested)

\* A call that starts has tested nothing of what it has to do; only a refresh
\* empties or refills.
Untested(steps) ==
  /\ steps # <<>> /\ Head(steps).do # "relabel"
  /\ \A j \in DOMAIN steps : steps[j].do # "relabel"
  /\ Renews(steps) \/ \A j \in DOMAIN steps : steps[j].do \notin {"empty", "refill"}

(* What a call does to what the threads have to do.                          *)
LEMMA Moves ==
    ASSUME OnePlace, NEW th \in Thread, Call(th) \/ GoOn(th)
    PROVE  /\ \A o \in Thread \ {th} : doing'[o] = doing[o]
           /\ \/ Idle(th) /\ Untested(doing'[th])
              \/ ~Idle(th) /\ doing'[th] = Tail(doing[th])
              \/ ~Idle(th) /\ doing'[th] = <<>>
              \/ Insert(th) /\ doing'[th] = [doing[th] EXCEPT ![1].do = "add"]
              \/ Replace(th) /\ doing'[th] = [doing[th] EXCEPT ![1].do = "relabel"]
<1>0. doing \in [Thread -> Seq(Step(Len(elem)))]
    BY Parts DEF Safe
<1>1. ASSUME NEW steps, Start(th, steps), Untested(steps)
      PROVE  /\ \A o \in Thread \ {th} : doing'[o] = doing[o]
             /\ Idle(th) /\ Untested(doing'[th])
    BY <1>0, <1>1 DEF Start
<1>2. CASE Call(th)
  <2>1. ASSUME NEW c \in Container, NEW n \in Name, Look(th, c, n)
        PROVE  \E steps : Start(th, steps) /\ Untested(steps)
    <3>1. PICK s : s = AtPlace("create", c, n)
        OBVIOUS
    <3>2. DOMAIN <<s>> = {1} /\ <<s>>[1] = s /\ Head(<<s>>) = s /\ s.do \notin {"relabel", "empty", "refill"}
        BY <3>1 DEF AtPlace
    <3> QED BY <2>1, <3>1, <3>2 DEF Look, Untested
  <2>2. ASSUME NEW c \in Container, NEW n \in Name, AppendByDescriptor(th, c, n)
        PROVE  \E steps : Start(th, steps) /\ Untested(steps)
    <3>1. PICK s, t : s = Addition(c, n) /\ t = WithElement("insert", "tables", n, NoElement)
        OBVIOUS
    <3>2. s.do \notin {"relabel", "empty", "refill"} /\ t.do \notin {"relabel", "empty", "refill"}
        BY <3>1 DEF Addition, WithElement
    <3>3. /\ DOMAIN <<s>> = {1} /\ <<s>>[1] = s /\ Head(<<s>>) = s
          /\ DOMAIN <<t, s>> = {1, 2} /\ Head(<<t, s>>) = t /\ <<t, s>>[1] = t /\ <<t, s>>[2] = s
        OBVIOUS
    <3>4. Start(th, <<s>>) \/ Start(th, <<t, s>>)
        BY <2>2, <3>1 DEF AppendByDescriptor, Additions
    <3> QED BY <3>2, <3>3, <3>4 DEF Untested
  <2>3. ASSUME NEW n \in Name, DropTable(th, n) \/ DropView(th, n)
        PROVE  \E steps : Start(th, steps) /\ Untested(steps)
    <3>1. PICK s, t : s = Removal("tables", n) /\ t = Removal("views", n)
        OBVIOUS
    <3>2. s.do \notin {"relabel", "empty", "refill"} /\ t.do \notin {"relabel", "empty", "refill"}
        BY <3>1 DEF Removal, AtPlace
    <3>3. DOMAIN <<s>> = {1} /\ <<s>>[1] = s /\ Head(<<s>>) = s /\ DOMAIN <<t>> = {1} /\ <<t>>[1] = t /\ Head(<<t>>) = t
        OBVIOUS
    <3>4. Start(th, <<s>>) \/ Start(th, <<t>>)
        BY <2>3, <3>1 DEF DropTable, DropView
    <3> QED BY <3>2, <3>3, <3>4 DEF Untested
  <2>4. ASSUME NEW n \in Name, DropViewOfTables(th, n)
        PROVE  \E steps : Start(th, steps) /\ Untested(steps)
    <3>1. PICK s, t : s = Removal("tables", n) /\ t = Removal("views", n)
        OBVIOUS
    <3>2. s.do \notin {"relabel", "empty", "refill"} /\ t.do \notin {"relabel", "empty", "refill"}
        BY <3>1 DEF Removal, AtPlace
    <3>3. DOMAIN <<t, s>> = {1, 2} /\ Head(<<t, s>>) = t /\ <<t, s>>[1] = t /\ <<t, s>>[2] = s
        OBVIOUS
    <3>4. Start(th, <<t, s>>)
        BY <2>4, <3>1 DEF DropViewOfTables, BothRemovals
    <3> QED BY <3>2, <3>3, <3>4 DEF Untested
  <2>5. ASSUME NEW e \in DOMAIN elem, NEW to \in Name, RenameTable(th, e, to) \/ RenameView(th, e, to)
        PROVE  \E steps : Start(th, steps) /\ Untested(steps)
    <3>1. PICK s, t : /\ s = Renaming("tables", elem[e].name, to)
                      /\ t = Renaming("views", elem[e].name, to)
        OBVIOUS
    <3>2. s.do \notin {"relabel", "empty", "refill"} /\ t.do \notin {"relabel", "empty", "refill"}
        BY <3>1 DEF Renaming
    <3>3. DOMAIN <<s>> = {1} /\ <<s>>[1] = s /\ Head(<<s>>) = s /\ DOMAIN <<t>> = {1} /\ <<t>>[1] = t /\ Head(<<t>>) = t
        OBVIOUS
    <3>4. Start(th, <<s>>) \/ Start(th, <<t>>)
        BY <2>5, <3>1 DEF RenameTable, RenameView
    <3> QED BY <3>2, <3>3, <3>4 DEF Untested
  <2>6. ASSUME NEW e \in DOMAIN elem, NEW to \in Name, RenameViewOfTables(th, e, to)
        PROVE  \E steps : Start(th, steps) /\ Untested(steps)
    <3>1. PICK old, s, t : /\ Start(th, <<s, t>>)
                           /\ s = Renaming("views", old, to)
                           /\ t = Renaming("tables", elem[e].name, to)
        BY <2>6 DEF RenameViewOfTables
    <3>2. s.do \notin {"relabel", "empty", "refill"} /\ t.do \notin {"relabel", "empty", "refill"}
        BY <3>1 DEF Renaming
    <3>3. DOMAIN <<s, t>> = {1, 2} /\ Head(<<s, t>>) = s /\ <<s, t>>[1] = s /\ <<s, t>>[2] = t
        OBVIOUS
    <3> QED BY <3>1, <3>2, <3>3 DEF Untested
  <2>7. ASSUME NEW c \in Container, Refresh(th, c)
        PROVE  \E steps : Start(th, steps) /\ Untested(steps)
    <3>1. PICK x, y, z : /\ x = [do |-> "empty", on |-> c]
                         /\ y = [do |-> "refill", on |-> "tables"]
                         /\ z = [do |-> "refill", on |-> "views"]
        OBVIOUS
    <3>2. x.do # "relabel" /\ y.do # "relabel" /\ z.do # "relabel" /\ x.do = "empty"
        BY <3>1
    <3>3. /\ DOMAIN <<x, y, z>> = {1, 2, 3}
          /\ Head(<<x, y, z>>) = x /\ <<x, y, z>>[1] = x /\ <<x, y, z>>[2] = y /\ <<x, y, z>>[3] = z
        OBVIOUS
    <3>4. Start(th, <<x, y, z>>)
        BY <2>7, <3>1 DEF Refresh, Refreshing
    <3> QED BY <3>2, <3>3, <3>4 DEF Untested, Renews
  <2>8. \E steps : Start(th, steps) /\ Untested(steps)
      BY <1>2, <2>1, <2>2, <2>3, <2>4, <2>5, <2>6, <2>7 DEF Call
  <2> QED BY <1>1, <2>8
<1>3. CASE GoOn(th)
  <2>1. ~Idle(th)
      BY <1>3 DEF GoOn, Create, CreateFails, Throw, TakeOut, Insert, Add, Replace, Relabel,
                  Empty, RefillOne, RefillFails, Doing
  <2>2. \/ Done(th)
        \/ Ends(th)
        \/ Insert(th) /\ GoesOnTo(th, "add")
        \/ Replace(th) /\ GoesOnTo(th, "relabel")
    <3>1. CASE Create(th) \/ CreateFails(th) \/ TakeOut(th) \/ Add(th) \/ Empty(th) \/ RefillOne(th)
        BY <3>1 DEF Create, CreateFails, TakeOut, Add, Empty, RefillOne
    <3>2. CASE Throw(th) \/ Relabel(th) \/ RefillFails(th)
        BY <3>2 DEF Throw, Relabel, RefillFails
    <3>3. CASE Insert(th)
      <4>1. Done(th) \/ GoesOnTo(th, "add")
          BY <3>3 DEF Insert
      <4> QED BY <3>3, <4>1
    <3>4. CASE Replace(th)
      <4>1. Done(th) \/ GoesOnTo(th, "relabel")
          BY <3>4 DEF Replace
      <4> QED BY <3>4, <4>1
    <3> QED BY <1>3, <3>1, <3>2, <3>3, <3>4 DEF GoOn
  <2>3. CASE Done(th)
      BY <1>0, <2>1, <2>3 DEF Done
  <2>4. CASE Ends(th)
      BY <1>0, <2>1, <2>4 DEF Ends
  <2>5. CASE Insert(th) /\ GoesOnTo(th, "add")
      BY <1>0, <2>5 DEF GoesOnTo
  <2>6. CASE Replace(th) /\ GoesOnTo(th, "relabel")
      BY <1>0, <2>6 DEF GoesOnTo
  <2> QED BY <2>2, <2>3, <2>4, <2>5, <2>6
<1> QED BY <1>2, <1>3

\* A change is still tested at the head of a call only, by replaceElement().
LEMMA AtHeadStays ==
    ASSUME OnePlace, AtHead, NEW th \in Thread, Call(th) \/ GoOn(th)
    PROVE  AtHead' /\ (Doing(th, {"relabel"})' => Replace(th) /\ doing'[th] = [doing[th] EXCEPT ![1].do = "relabel"])
<1>1. doing[th] \in Seq(Step(Len(elem))) /\ Len(elem) \in Nat
    BY Parts DEF Safe
<1>2. \A o \in Thread \ {th} : doing'[o] = doing[o]
    BY Moves
<1>3. PICK q, r, S : q = doing[th] /\ r = doing'[th] /\ S = Step(Len(elem))
    OBVIOUS
<1>4. q \in Seq(S) /\ \A j \in DOMAIN q : j # 1 => q[j].do # "relabel"
    BY <1>1, <1>3 DEF AtHead
<1>5. \/ Untested(r)
      \/ q # <<>> /\ r = Tail(q)
      \/ r = <<>>
      \/ Insert(th) /\ r = [q EXCEPT ![1].do = "add"]
      \/ Replace(th) /\ r = [q EXCEPT ![1].do = "relabel"]
    BY <1>3, Moves DEF Idle
<1> DEFINE Kept == \A j \in DOMAIN r : j # 1 => r[j].do # "relabel"
           Was == Replace(th) /\ r = [q EXCEPT ![1].do = "relabel"]
<1>6. ASSUME r # <<>>, Head(r).do = "relabel", ~Was PROVE FALSE
  <2>1. CASE Untested(r)
      BY <1>6, <2>1 DEF Untested
  <2>2. CASE q # <<>> /\ r = Tail(q)
    <3>1. Len(q) \in Nat /\ DOMAIN q = 1..Len(q) /\ r \in Seq(S) /\ Len(r) = Len(q) - 1
          /\ \A j \in 1..Len(r) : r[j] = q[j + 1]
        BY <1>4, <2>2, HeadTailProperties
    <3>2. 1 \in 1..Len(r) /\ Head(r) = r[1]
        BY <1>6, <3>1, EmptySeq
    <3>3. r[1] = q[2] /\ 2 \in DOMAIN q
        BY <3>1, <3>2
    <3> QED BY <1>4, <1>6, <3>2, <3>3
  <2>3. CASE Insert(th) /\ r = [q EXCEPT ![1].do = "add"]
    <3>1. q # <<>>
        BY <1>3, <2>3 DEF Insert, Doing, Idle
    <3>2. Len(q) \in Nat \ {0} /\ DOMAIN q = 1..Len(q)
        BY <1>4, <3>1, EmptySeq
    <3>3. Head(q).do = "insert" /\ Head(q) = q[1]
        BY <1>3, <1>4, <2>3, <3>1 DEF Insert, Doing, Idle
    <3>4. PICK t : t = [q[1] EXCEPT !.do = "add"]
        OBVIOUS
    <3>5. r = [q EXCEPT ![1] = t]
        BY <2>3, <3>4
    <3>6. q[1] \in Step(Len(elem)) /\ 1 \in DOMAIN q
        BY <1>3, <1>4, <3>2
    <3>7. t.do = "add"
        BY <3>3, <3>4, <3>6 DEF Step, Change
    <3>8. r[1] = t /\ Head(r) = r[1]
        BY <3>5, <3>6
    <3> QED BY <1>6, <3>7, <3>8
  <2> QED BY <1>5, <1>6, <2>1, <2>2, <2>3
<1>7. Kept
  <2>1. CASE Untested(r)
      BY <2>1 DEF Untested
  <2>2. CASE q # <<>> /\ r = Tail(q)
    <3>1. Len(q) \in Nat /\ DOMAIN q = 1..Len(q) /\ DOMAIN r = 1..(Len(q) - 1)
          /\ \A j \in DOMAIN r : r[j] = q[j + 1]
      <4>1. Len(q) \in Nat /\ r \in Seq(S) /\ Len(r) = Len(q) - 1 /\ \A j \in 1..Len(r) : r[j] = q[j + 1]
          BY <1>4, <2>2, HeadTailProperties
      <4> QED BY <1>4, <4>1
    <3>2. \A j \in DOMAIN r : j + 1 \in DOMAIN q /\ j + 1 # 1
        BY <3>1
    <3> QED BY <1>4, <3>1, <3>2
  <2>3. CASE r = <<>>
      BY <2>3
  <2>4. CASE (\E w : r = [q EXCEPT ![1].do = w])
    <3>1. PICK w : r = [q EXCEPT ![1].do = w]
        BY <2>4
    <3>2. PICK t : r = [q EXCEPT ![1] = t]
        BY <3>1
    <3>3. DOMAIN r = DOMAIN q /\ \A j \in DOMAIN q : j # 1 => r[j] = q[j]
        BY <3>2
    <3> QED BY <1>4, <3>3
  <2> QED BY <1>5, <2>1, <2>2, <2>3, <2>4
<1>8. Doing(th, {"relabel"})' => r # <<>> /\ Head(r).do = "relabel"
    BY <1>3 DEF Doing, Idle
<1>9. Doing(th, {"relabel"})' => Was
    BY <1>6, <1>8
<1>10. AtHead'
    BY <1>2, <1>3, <1>7 DEF AtHead
<1> QED BY <1>3, <1>9, <1>10

\* A name tested is still there.
LEMMA TestedStays ==
    ASSUME OnePlace, AtHead, Tested, NEW th \in Thread, Call(th) \/ GoOn(th), Track(th)
    PROVE  Tested'
<1> SUFFICES ASSUME NEW o \in Thread, o \notin stale', Doing(o, {"relabel"})'
             PROVE  HasByName(map[Head(doing[o]).on], Head(doing[o]).name)'
    BY DEF Tested
<1>1. CASE o = th
  <2>1. Replace(th) /\ doing'[th] = [doing[th] EXCEPT ![1].do = "relabel"]
      BY <1>1, AtHeadStays
  <2>2. /\ doing[th] # <<>> /\ Head(doing[th]).do = "rename" /\ map' = map
        /\ \/ HasByName(map[Head(doing[th]).on], Head(doing[th]).name)
           \/ Done(th)
      BY <2>1 DEF Replace, Doing, Idle
  <2>3. PICK q : q = doing[th]
      OBVIOUS
  <2>4. q \in Seq(Step(Len(elem))) /\ q # <<>>
      BY <2>2, <2>3, Parts DEF Safe
  <2>5. /\ DOMAIN q = 1..Len(q) /\ 1 \in DOMAIN q /\ Head(q) = q[1]
        /\ Head(q) \in Step(Len(elem)) /\ Len(q) \in Nat
    <3>1. Len(q) \in Nat \ {0}
        BY <2>4, EmptySeq
    <3> QED BY <2>4, <3>1
  <2>6. ~Done(th)
    <3> SUFFICES ASSUME Done(th) PROVE FALSE
        OBVIOUS
    <3>1. doing'[th] = Tail(q)
        BY <2>3, Parts DEF Done, Safe
    <3>2. Len(Tail(q)) = Len(q) - 1
        BY <2>4, HeadTailProperties
    <3>3. DOMAIN doing'[th] = DOMAIN q
        BY <2>1, <2>3
    <3>4. PICK r : r = Tail(q)
        OBVIOUS
    <3>5. r \in Seq(Step(Len(elem))) /\ Len(r) = Len(q) - 1
        BY <2>4, <3>4, HeadTailProperties
    <3>6. DOMAIN r = 1..(Len(q) - 1)
        BY <3>5
    <3>8. DOMAIN r = DOMAIN q
        BY <3>1, <3>3, <3>4, Zenon
    <3>7. Len(q) \in 1..Len(q) /\ Len(q) \notin 1..(Len(q) - 1)
        BY <2>5
    <3> QED BY <2>5, <3>6, <3>7, <3>8
  <2>7. PICK s : s = Head(q)
      OBVIOUS
  <2>8. s.do = "rename" /\ s \in Step(Len(elem)) /\ HasByName(map[s.on], s.name)
      BY <2>2, <2>3, <2>5, <2>6, <2>7
  <2>9. PICK t : t = [s EXCEPT !.do = "relabel"]
      OBVIOUS
  <2>10. t.on = s.on /\ t.name = s.name
      BY <2>8, <2>9 DEF Step, Change
  <2>11. doing'[th] = [q EXCEPT ![1] = t]
      BY <2>1, <2>3, <2>5, <2>7, <2>9
  <2>12. Head(doing'[th]) = t
      BY <2>5, <2>11
  <2> QED BY <1>1, <2>2, <2>8, <2>10, <2>12 DEF HasByName
<1>2. CASE o # th
  <2>1. doing'[o] = doing[o]
      BY <1>2, Moves
  <2>2. doing[o] # <<>> /\ Head(doing[o]).do = "relabel"
      BY <2>1 DEF Doing, Idle
  <2>3. PICK q : q = doing[o]
      OBVIOUS
  <2>4. q \in Seq(Step(Len(elem))) /\ q # <<>>
      BY <2>2, <2>3, Parts DEF Safe
  <2>5. 1 \in DOMAIN q /\ Head(q) = q[1]
    <3>1. Len(q) \in Nat \ {0}
        BY <2>4, EmptySeq
    <3> QED BY <2>4, <3>1
  <2>6. o \notin stale /\ \A j \in DOMAIN q : SameEntries(map[q[j].on], map'[q[j].on])
      BY <1>2, <2>1, <2>2, <2>3 DEF Track
  <2>7. SameEntries(map[Head(q).on], map'[Head(q).on])
      BY <2>5, <2>6
  <2>8. HasByName(map[Head(q).on], Head(q).name)
      BY <2>2, <2>3, <2>6 DEF Tested, Doing, Idle
  <2>9. map'[Head(q).on].names = map[Head(q).on].names
      BY <2>7 DEF SameEntries
  <2> QED BY <2>1, <2>3, <2>8, <2>9 DEF HasByName
<1> QED BY <1>1, <1>2

\* A call starts when the threads have not raced.
LEMMA CallOnePlace ==
    ASSUME OnePlace, Whole, NEW th \in Thread, Call(th)
    PROVE  OnePlace' /\ (AllWhole => AllWhole')
<1>1. AllWhole
    BY DEF Whole, Call
<1>2. ASSUME NEW c \in Container, NEW n \in Name, Look(th, c, n) \/ AppendByDescriptor(th, c, n)
      PROVE  OnePlace' /\ (AllWhole => AllWhole')
    BY <1>2, LookOnePlace, AppendOnePlace
<1>3. ASSUME NEW n \in Name, DropTable(th, n) \/ DropViewOfTables(th, n) \/ DropView(th, n)
      PROVE  OnePlace' /\ (AllWhole => AllWhole')
    BY <1>1, <1>3, DropTableOnePlace, DropViewOfTablesOnePlace, DropViewOnePlace
<1>4. ASSUME NEW e \in DOMAIN elem, NEW to \in Name,
             RenameTable(th, e, to) \/ RenameViewOfTables(th, e, to) \/ RenameView(th, e, to)
      PROVE  OnePlace' /\ (AllWhole => AllWhole')
    BY <1>1, <1>4, RenameTableOnePlace, RenameViewOfTablesOnePlace, RenameViewOnePlace
<1>5. ASSUME NEW c \in Container, Refresh(th, c)
      PROVE  OnePlace' /\ (AllWhole => AllWhole')
    BY <1>5, RefreshOnePlace
<1> QED BY <1>2, <1>3, <1>4, <1>5 DEF Call

\* A call goes on whether they have raced or not; a rename throws only when
\* another thread has changed the map.
LEMMA GoOnOnePlace ==
    ASSUME OnePlace, Tested, NEW th \in Thread, GoOn(th)
    PROVE  OnePlace' /\ (th \notin stale => (AllWhole => AllWhole'))
<1>1. CASE Relabel(th)
  <2>1. th \notin stale => HasByName(map[Head(doing[th]).on], Head(doing[th]).name)
      BY <1>1 DEF Tested, Relabel
  <2> QED BY <1>1, <2>1, RelabelOnePlace
<1> QED BY <1>1, CreateOnePlace, CreateFailsOnePlace, ThrowOnePlace, TakeOutOnePlace, InsertOnePlace,
          AddOnePlace, ReplaceOnePlace, EmptyOnePlace, RefillOneOnePlace, RefillFailsOnePlace DEF GoOn

\* Raced or not, every step of a call leaves every element in one place.
LEMMA GoOnSafe ==
    ASSUME OnePlace, NEW th \in Thread, GoOn(th)
    PROVE  OnePlace'
BY CreateOnePlace, CreateFailsOnePlace, ThrowOnePlace, TakeOutOnePlace, InsertOnePlace, AddOnePlace,
   ReplaceOnePlace, RelabelOnePlace, EmptyOnePlace, RefillOneOnePlace, RefillFailsOnePlace DEF GoOn

\* Every step keeps each element at one place, and the maps whole until a race.
LEMMA OnePlaceStep ==
    ASSUME OnePlace, Whole, [Next]_vars
    PROVE  OnePlace' /\ Whole'
<1>1. ASSUME NEW th \in Thread, Call(th) \/ GoOn(th), Track(th) PROVE OnePlace' /\ Whole'
  <2>1. OnePlace'
      BY <1>1, CallOnePlace, GoOnSafe
  <2>2. AtHead'
      BY <1>1, AtHeadStays DEF Whole
  <2>3. ASSUME ~raced' PROVE AllWhole' /\ Tested'
    <3>1. ~raced /\ th \notin stale
        BY <1>1, <2>3 DEF Track
    <3>2. AllWhole /\ Tested /\ AtHead
        BY <3>1 DEF Whole
    <3>3. AllWhole'
        BY <1>1, <3>1, <3>2, CallOnePlace, GoOnOnePlace
    <3> QED BY <1>1, <3>2, <3>3, TestedStays
  <2> QED BY <2>1, <2>2, <2>3 DEF Whole
<1>2. ASSUME NEW n \in Name, NEW kind \in {"none", "table", "view"}, OtherSession(n, kind),
             UNCHANGED <<stale, raced>>
      PROVE  OnePlace' /\ Whole'
  <2>1. /\ UNCHANGED <<map, elem, disposed, doing, stale, raced>>
        /\ db' = [db EXCEPT ![n] = kind]
      BY <1>2 DEF OtherSession
  <2>2. db' \in [Name -> {"none", "table", "view"}]
      BY <2>1, Parts
  <2>3. Gone' = Gone
      BY <2>1 DEF Gone, Disposing, Doing, Idle
  <2>4. OnePlace'
      BY <2>1, <2>2, <2>3 DEF OnePlace
  <2>5. Whole'
      BY <2>1 DEF Whole, AtHead, AllWhole, Tested, Doing, Idle, HasByName
  <2> QED BY <2>4, <2>5
<1>3. CASE UNCHANGED vars
  <2>1. UNCHANGED <<db, map, elem, disposed, doing, stale, raced>>
      BY <1>3 DEF vars
  <2>2. Gone' = Gone
      BY <2>1 DEF Gone, Disposing, Doing, Idle
  <2>3. OnePlace'
      BY <2>1, <2>2 DEF OnePlace
  <2>4. Whole'
      BY <2>1 DEF Whole, AtHead, AllWhole, Tested, Doing, Idle, HasByName
  <2> QED BY <2>3, <2>4
<1> QED BY <1>1, <1>2, <1>3 DEF Next

\* At first there are no elements.
LEMMA InitOnePlace ==
    ASSUME Init
    PROVE  OnePlace /\ Whole
<1>1. /\ db \in [Name -> {"none", "table", "view"}] /\ elem = <<>> /\ disposed = {}
      /\ map = [c \in Container |-> Refill(EmptyMap, Lists(c, db))]
      /\ doing = [th \in Thread |-> <<>>]
    BY DEF Init
<1>2. elem \in Seq(Object) /\ Len(elem) = 0
    BY <1>1
<1>3. ASSUME NEW c \in Container
      PROVE  map[c] \in AnyMap(0) /\ map[c] \in Map(0) /\ Once(map[c]) /\ Elements(map[c]) = {}
  <2>1. /\ EmptyMap \in AnyMap(0) /\ EmptyMap \in Map(0) /\ Once(EmptyMap)
        /\ Elements(EmptyMap) = {}
      BY EmptyMapFacts
  <2>2. Lists(c, db) \in SUBSET Name
      BY DEF Lists
  <2>3. PICK l, m : l = Lists(c, db) /\ m = Refill(EmptyMap, l)
      OBVIOUS
  <2>4. m \in AnyMap(0) /\ Once(m) /\ Elements(m) = {}
      BY <2>1, <2>2, <2>3, RefillFacts
  <2>5. m \in Map(0)
      BY <2>1, <2>2, <2>3, RefillIs
  <2> QED BY <1>1, <2>3, <2>4, <2>5
<1>4. map \in [Container -> AnyMap(0)]
    BY <1>1, <1>3
<1>5. \A th \in Thread : doing[th] \in Seq(Step(0)) /\ WaitingOnce(doing[th]) /\ Waiting(doing[th]) = {}
    BY <1>1, NoChange
<1>6. doing \in [Thread -> Seq(Step(0))]
    BY <1>1, <1>5
<1>7. "tables" \in Container /\ "views" \in Container
    BY DEF Container
<1>8. Gone = {}
    BY <1>1 DEF Gone
<1>9. Placed(map, doing, {})
    BY <1>1, <1>3, <1>5, <1>7 DEF Placed
<1>10. OnePlace
    BY <1>1, <1>2, <1>4, <1>6, <1>8, <1>9 DEF OnePlace, Safe
<1>11. AllWhole
    BY <1>2, <1>3 DEF AllWhole
<1>12. AtHead /\ Tested
    BY <1>1 DEF AtHead, Tested, Doing, Idle
<1> QED BY <1>10, <1>11, <1>12 DEF Whole

----------------------------------------------------------------------------
(* What follows of it. *)

\* Both are invariant.
LEMMA PlacesInvariant == Spec => [](OnePlace /\ Whole)
<1>1. Init => OnePlace /\ Whole
    BY InitOnePlace
<1>2. OnePlace /\ Whole /\ [Next]_vars => OnePlace' /\ Whole'
    BY OnePlaceStep
<1> QED BY <1>1, <1>2, PTL DEF Spec

(* An element is in one of the two maps, once, or with the call that will add *)
(* it, or disposed of: never in two of them.  In the middle of refresh(),     *)
(* which disposes of the elements before it empties the map                  *)
(* (BiMapBase.java:169), those are in the map and disposed of at once.        *)
(* Threads that go on with a place or a test another has made wrong           *)
(* (ContainerMain.java:200, ContainerBase.java:314) are included.            *)
THEOREM OnePlaceInvariant == Spec => []OnePlace
BY PlacesInvariant, PTL

(* The lists of a container are of one length, and every element in them or   *)
(* disposed of is one that was created, in races too.  The names are those    *)
(* that places are counted by and each has a slot until a thread goes on with *)
(* what another has changed: then a rename can throw half done               *)
(* (ContainerMain.java:200 and 202, BiMapBase.java:148).                     *)
THEOREM TypeCorrect == Spec => []TypeOK
<1>1. OnePlace /\ Whole => TypeOK
  <2> SUFFICES ASSUME OnePlace, Whole PROVE TypeOK
      OBVIOUS
  <2>1. db \in [Name -> {"none", "table", "view"}] /\ DOMAIN elem = 1..Len(elem) /\ Len(elem) \in Nat
      BY Parts
  <2>2. disposed \subseteq DOMAIN elem
      BY <2>1, Parts
  <2>3. ASSUME NEW c \in Container
        PROVE  /\ Len(map[c].index) = Len(map[c].element)
               /\ \A i \in DOMAIN map[c].element :
                    map[c].element[i] \in DOMAIN elem \union {NoElement}
    <3>1. map[c] \in AnyMap(Len(elem))
        BY Parts
    <3>2. PICK m, k : m = map[c] /\ k = Len(elem)
        OBVIOUS
    <3>3. m \in AnyMap(k) /\ k \in Nat
        BY <2>1, <3>1, <3>2
    <3>4. /\ Len(m.index) = Len(m.element)
          /\ \A i \in DOMAIN m.element : m.element[i] \in (1..k) \union {NoElement}
        BY <3>3, AnyParts
    <3> QED BY <2>1, <3>2, <3>4
  <2>4. ~raced => \A c \in Container :
          map[c].names = map[c].listed /\ \A n \in map[c].names : HasSlot(map[c], n)
      BY DEF Whole, AllWhole, Map
  <2> QED BY <2>1, <2>2, <2>3, <2>4 DEF TypeOK
<1> QED BY <1>1, PlacesInvariant, PTL

(* A container has no disposed element to hand out, in races too, but between *)
(* two steps of its own refresh(): removeContainerElement() disposes of what  *)
(* it has taken out, and no map gets it again; refresh() disposes first and   *)
(* empties the map then (BiMapBase.java:169), and who reads in between        *)
(* (ContainerBase.java:316) takes no lock and can get one.                   *)
THEOREM NoneDisposedInvariant == Spec => []NoneDisposed
<1>1. OnePlace => NoneDisposed
  <2> SUFFICES ASSUME OnePlace, NEW c \in Container, ~Disposing(c),
                      NEW i \in DOMAIN map[c].element, map[c].element[i] \in disposed
               PROVE  FALSE
      BY DEF NoneDisposed
  <2>1. PICK e : e = map[c].element[i]
      OBVIOUS
  <2>2. e \in disposed /\ e \in 1..Len(elem) /\ e # NoElement
      BY <2>1, Parts, NoElementAssumption
  <2>3. e \in Elements(map[c])
      BY <2>1, <2>2 DEF Elements
  <2>4. /\ Elements(map[c]) \cap Gone = {}
        /\ Elements(map["tables"]) \cap Elements(map["views"]) = {}
      BY Parts DEF Safe, Placed
  <2>5. PICK d \in Container : Disposing(d) /\ e \in Elements(map[d])
      BY <2>2, <2>3, <2>4 DEF Gone
  <2>6. d # c
      BY <2>5
  <2> QED BY <2>3, <2>4, <2>5, <2>6 DEF Container
<1> QED BY <1>1, OnePlaceInvariant, PTL
----------------------------------------------------------------------------
(* A container lists what the database has. *)

\* The changes that the calls under way have still to make to a container.
On(c, todo) ==
  {s \in UNION {{todo[th][j] : j \in DOMAIN todo[th]} : th \in Thread} : s.on = c}

\* The names a call is about, those the container has not yet and has still.
About(s) == {s.name, s.to}
Coming(S, n) == \E s \in S : \/ s.do \in {"add", "insert"} /\ s.name = n
                             \/ s.do \in {"rename", "relabel"} /\ s.to = n
Leaving(S, n) == \E s \in S : s.do \in {"remove", "rename", "relabel"} /\ s.name = n

\* A container m over a database that lists L, with the changes S still to make;
\* A are the names changed behind its back, el the elements.
\* The entries have names of the map, each once.
Tidy(m, A) ==
  /\ \A i \in DOMAIN m.index : m.index[i] \in m.names \union A
  /\ \A i, j \in DOMAIN m.index : m.index[i] = m.index[j] /\ m.index[i] \notin A => i = j

\* It lists what the database has, but for what is to come and to leave.
Listed(m, L, A, S) ==
  \A n \in Name \ A :
    /\ n \in m.names <=> (n \in L /\ ~Coming(S, n)) \/ Leaving(S, n)
    /\ Leaving(S, n) => n \notin L
    /\ Coming(S, n) => n \in L

\* A place looked up is still the place of its name.
AtPlaces(m, S) ==
  \A s \in S : s.do \in {"create", "remove"} => /\ s.name \in m.names
                                               /\ s.at = GetIndex(m, s.name)

\* The entry to rename is one entry, its element has the new name already.
Relabels(m, A, el, S) ==
  \A s \in S : s.do \in {"rename", "relabel"} =>
    \/ s.name \in A /\ s.to \in A
    \/ /\ s.name \in m.names /\ s.name # s.to
       /\ \A i, j \in DOMAIN m.index : m.index[i] = s.name /\ m.index[j] = s.name => i = j
       /\ \A i \in DOMAIN m.index : m.index[i] = s.name /\ m.element[i] # NoElement
                                      => el[m.element[i]].name = s.to

\* An element is under its name, or under the one it had before a rename that has
\* still to change the map.
Named(m, A, el, S) ==
  \A i \in DOMAIN m.index : m.element[i] # NoElement =>
    LET own == el[m.element[i]].name IN
    \/ own = m.index[i]
    \/ m.index[i] \in A /\ own \in A
    \/ \E s \in S : s.do \in {"rename", "relabel"} /\ s.name = m.index[i] /\ s.to = own

\* An element that a call will add has the name it is added under.
Born(el, S) == \A s \in S : Brings(s) => el[s.element].name = s.name

Fine(m, L, A, el, S) ==
  /\ Tidy(m, A) /\ Listed(m, L, A, S) /\ AtPlaces(m, S)
  /\ Relabels(m, A, el, S) /\ Named(m, A, el, S) /\ Born(el, S)

\* More is changed behind the container's back, and only that.
LEMMA FineGrows ==
    ASSUME NEW m, NEW L, NEW A, NEW el, NEW S, Fine(m, L, A, el, S),
           NEW M, NEW B, A \subseteq B, \A n \in Name \ B : n \in M <=> n \in L
    PROVE  Fine(m, M, B, el, S)
<1>1. Tidy(m, B)
    BY DEF Fine, Tidy
<1>2. Listed(m, M, B, S)
    BY DEF Fine, Listed
<1>3. Relabels(m, B, el, S)
    BY DEF Fine, Relabels
<1>4. Named(m, B, el, S)
    BY DEF Fine, Named
<1> QED BY <1>1, <1>2, <1>3, <1>4 DEF Fine

(* The names stay; an element stays with its name, or is forgotten, or one   *)
(* comes that has the name of its entry, which nobody renames.               *)
LEMMA FineElements ==
    ASSUME NEW m, NEW L, NEW A, NEW el, NEW S, Fine(m, L, A, el, S),
           NEW w, w.names = m.names, w.listed = m.listed, w.index = m.index, NEW fl,
           \A i \in DOMAIN m.index : w.element[i] # NoElement =>
             \/ w.element[i] = m.element[i] /\ fl[m.element[i]].name = el[m.element[i]].name
             \/ /\ fl[w.element[i]].name = m.index[i]
                /\ \A s \in S : s.do \in {"rename", "relabel"} => s.name # m.index[i],
           \A s \in S : Brings(s) => fl[s.element].name = el[s.element].name
    PROVE  Fine(w, L, A, fl, S)
<1>1. Tidy(w, A)
    BY DEF Fine, Tidy
<1>2. Listed(w, L, A, S)
    BY DEF Fine, Listed
<1>3. AtPlaces(w, S)
    BY DEF Fine, AtPlaces, GetIndex
<1>4. Relabels(w, A, fl, S)
  <2> SUFFICES ASSUME NEW s \in S, s.do \in {"rename", "relabel"}, ~(s.name \in A /\ s.to \in A)
               PROVE  /\ s.name \in m.names /\ s.name # s.to
                      /\ \A i, j \in DOMAIN m.index :
                           m.index[i] = s.name /\ m.index[j] = s.name => i = j
                      /\ \A i \in DOMAIN m.index : m.index[i] = s.name /\ w.element[i] # NoElement
                           => fl[w.element[i]].name = s.to
      BY DEF Relabels
  <2>1. /\ s.name \in m.names /\ s.name # s.to
        /\ \A i, j \in DOMAIN m.index : m.index[i] = s.name /\ m.index[j] = s.name => i = j
        /\ \A i \in DOMAIN m.index : m.index[i] = s.name /\ m.element[i] # NoElement
             => el[m.element[i]].name = s.to
      BY DEF Fine, Relabels
  <2> QED BY <2>1
<1>5. Named(w, A, fl, S)
  <2> SUFFICES ASSUME NEW i \in DOMAIN m.index, w.element[i] # NoElement
               PROVE  \/ fl[w.element[i]].name = m.index[i]
                      \/ m.index[i] \in A /\ fl[w.element[i]].name \in A
                      \/ \E s \in S : /\ s.do \in {"rename", "relabel"} /\ s.name = m.index[i]
                                      /\ s.to = fl[w.element[i]].name
      BY DEF Named
  <2>1. CASE fl[w.element[i]].name = m.index[i]
      BY <2>1
  <2>2. CASE w.element[i] = m.element[i] /\ fl[m.element[i]].name = el[m.element[i]].name
      BY <2>2 DEF Fine, Named
  <2> QED BY <2>1, <2>2
<1>6. Born(fl, S)
    BY DEF Fine, Born
<1> QED BY <1>1, <1>2, <1>3, <1>4, <1>5, <1>6 DEF Fine

(* A call starts with a place looked up.                                     *)
LEMMA FineLook ==
    ASSUME NEW m, NEW L, NEW A, NEW el, NEW S, Fine(m, L, A, el, S),
           NEW s, s.do = "create", s.name \in m.names, s.at = GetIndex(m, s.name)
    PROVE  Fine(m, L, A, el, S \union {s})
<1>1. Listed(m, L, A, S \union {s})
  <2>1. \A n : Coming(S \union {s}, n) <=> Coming(S, n)
      BY DEF Coming
  <2>2. \A n : Leaving(S \union {s}, n) <=> Leaving(S, n)
      BY DEF Leaving
  <2> QED BY <2>1, <2>2 DEF Fine, Listed
<1>2. AtPlaces(m, S \union {s})
    BY DEF Fine, AtPlaces
<1>3. Relabels(m, A, el, S \union {s})
    BY DEF Fine, Relabels
<1>4. Named(m, A, el, S \union {s})
    BY DEF Fine, Named
<1>5. Born(el, S \union {s})
    BY DEF Fine, Born, Brings
<1> QED BY <1>1, <1>2, <1>3, <1>4, <1>5 DEF Fine

(* A call starts with a removal to make: the database has the name no more.  *)
LEMMA FineDrop ==
    ASSUME NEW m, NEW L, NEW A, NEW el, NEW S, Fine(m, L, A, el, S),
           NEW s, s.do = "remove", s.name \in m.names, s.at = GetIndex(m, s.name),
           \A t \in S : About(t) \cap About(s) = {},
           NEW M, \A n \in Name \ A : n \in M <=> n \in L /\ n # s.name
    PROVE  Fine(m, M, A, el, S \union {s})
<1>1. Listed(m, M, A, S \union {s})
  <2> SUFFICES ASSUME NEW n \in Name \ A
               PROVE  /\ n \in m.names <=> \/ n \in M /\ ~Coming(S \union {s}, n)
                                           \/ Leaving(S \union {s}, n)
                      /\ Leaving(S \union {s}, n) => n \notin M
                      /\ Coming(S \union {s}, n) => n \in M
      BY DEF Listed
  <2>0. /\ n \in m.names <=> (n \in L /\ ~Coming(S, n)) \/ Leaving(S, n)
        /\ Leaving(S, n) => n \notin L
        /\ Coming(S, n) => n \in L
      BY DEF Fine, Listed
  <2>1. Coming(S \union {s}, n) <=> Coming(S, n)
      BY DEF Coming
  <2>2. Leaving(S \union {s}, n) <=> Leaving(S, n) \/ n = s.name
      BY DEF Leaving
  <2>3. n = s.name => ~Coming(S, n)
      BY DEF Coming, About
  <2> QED BY <2>0, <2>1, <2>2, <2>3
<1>2. AtPlaces(m, S \union {s})
    BY DEF Fine, AtPlaces
<1>3. Relabels(m, A, el, S \union {s})
    BY DEF Fine, Relabels
<1>4. Named(m, A, el, S \union {s})
    BY DEF Fine, Named
<1>5. Born(el, S \union {s})
    BY DEF Fine, Born, Brings
<1> QED BY <1>1, <1>2, <1>3, <1>4, <1>5 DEF Fine

(* A call starts with an addition to make: the database has the name now.    *)
LEMMA FineAppend ==
    ASSUME NEW m, NEW L, NEW A, NEW el, NEW S, Fine(m, L, A, el, S),
           NEW s, s.do \in {"add", "insert"}, s.name \notin L,
           Brings(s) => el[s.element].name = s.name,
           \A t \in S : About(t) \cap About(s) = {},
           NEW M, \A n \in Name \ A : n \in M <=> n \in L \/ n = s.name
    PROVE  Fine(m, M, A, el, S \union {s})
<1>1. Listed(m, M, A, S \union {s})
  <2> SUFFICES ASSUME NEW n \in Name \ A
               PROVE  /\ n \in m.names <=> \/ n \in M /\ ~Coming(S \union {s}, n)
                                           \/ Leaving(S \union {s}, n)
                      /\ Leaving(S \union {s}, n) => n \notin M
                      /\ Coming(S \union {s}, n) => n \in M
      BY DEF Listed
  <2>0. /\ n \in m.names <=> (n \in L /\ ~Coming(S, n)) \/ Leaving(S, n)
        /\ Leaving(S, n) => n \notin L
        /\ Coming(S, n) => n \in L
      BY DEF Fine, Listed
  <2>1. Coming(S \union {s}, n) <=> Coming(S, n) \/ n = s.name
      BY DEF Coming
  <2>2. Leaving(S \union {s}, n) <=> Leaving(S, n)
      BY DEF Leaving
  <2>3. n = s.name => ~Leaving(S, n)
      BY DEF Leaving, About
  <2> QED BY <2>0, <2>1, <2>2, <2>3
<1>2. AtPlaces(m, S \union {s})
    BY DEF Fine, AtPlaces
<1>3. Relabels(m, A, el, S \union {s})
    BY DEF Fine, Relabels
<1>4. Named(m, A, el, S \union {s})
    BY DEF Fine, Named
<1>5. Born(el, S \union {s})
    BY DEF Fine, Born
<1> QED BY <1>1, <1>2, <1>3, <1>4, <1>5 DEF Fine

\* The element e is in a map at i, only there, and gets the name to.
Renames(m, S, el, fl, i, e, to) ==
  /\ i \in DOMAIN m.index /\ e = m.element[i] /\ e # NoElement
  /\ \A j \in DOMAIN m.index : m.element[j] = e => j = i
  /\ fl[e].name = to
  /\ \A j \in DOMAIN m.index : m.element[j] \notin {e, NoElement}
       => fl[m.element[j]].name = el[m.element[j]].name
  /\ \A t \in S : Brings(t) => fl[t.element].name = el[t.element].name

\* The database that listed L lists M, where n has become to; B are the names
\* changed behind the container's back.
Turned(L, M, B, n, to) ==
  /\ n \in B => to \in B
  /\ n # to \/ n \in B
  /\ \A x \in Name \ B : x \in M <=> (x \in L /\ x # n) \/ x = to
  /\ n \in L \/ n \in B
  /\ to \notin L \/ to \in B

(* A call starts with an entry to rename: its element, e, has the new name   *)
(* already, and so has the database.                                         *)
LEMMA FineRename ==
    ASSUME NEW m, NEW L, NEW A, NEW el, NEW S, Fine(m, L, A, el, S),
           NEW i, NEW e, NEW fl, NEW s, Renames(m, S, el, fl, i, e, s.to),
           s.do \in {"rename", "relabel"}, el[e].name = s.name, s.name \in Name,
           \A t \in S : About(t) \cap About(s) = {},
           NEW B, A \subseteq B, NEW M, Turned(L, M, B, s.name, s.to)
    PROVE  Fine(m, M, B, fl, S \union {s})
<1> USE DEF Renames, Turned
<1>0. /\ m.index[i] = s.name \/ (m.index[i] \in A /\ s.name \in A)
      /\ ~Brings(s)
  <2>1. \/ s.name = m.index[i]
        \/ m.index[i] \in A /\ s.name \in A
        \/ \E t \in S : t.do \in {"rename", "relabel"} /\ t.name = m.index[i] /\ t.to = s.name
      BY DEF Fine, Named
  <2>2. ~\E t \in S : t.do \in {"rename", "relabel"} /\ t.name = m.index[i] /\ t.to = s.name
      BY DEF About
  <2> QED BY <2>1, <2>2 DEF Brings
<1>1. Tidy(m, B)
    BY DEF Fine, Tidy
<1>2. Listed(m, M, B, S \union {s})
  <2> SUFFICES ASSUME NEW n \in Name \ B
               PROVE  /\ n \in m.names <=> \/ n \in M /\ ~Coming(S \union {s}, n)
                                           \/ Leaving(S \union {s}, n)
                      /\ Leaving(S \union {s}, n) => n \notin M
                      /\ Coming(S \union {s}, n) => n \in M
      BY DEF Listed
  <2>0. /\ n \in m.names <=> (n \in L /\ ~Coming(S, n)) \/ Leaving(S, n)
        /\ Leaving(S, n) => n \notin L
        /\ Coming(S, n) => n \in L
      BY DEF Fine, Listed
  <2>1. Coming(S \union {s}, n) <=> Coming(S, n) \/ n = s.to
      BY DEF Coming
  <2>2. Leaving(S \union {s}, n) <=> Leaving(S, n) \/ n = s.name
      BY DEF Leaving
  <2>3. n \in About(s) => ~Coming(S, n) /\ ~Leaving(S, n)
      BY DEF Coming, Leaving, About
  <2>4. n \in M <=> (n \in L /\ n # s.name) \/ n = s.to
      OBVIOUS
  <2>5. CASE n = s.name
    <3>1. n # s.to
        BY <2>5
    <3> QED BY <2>0, <2>1, <2>2, <2>3, <2>4, <2>5, <3>1 DEF About
  <2>6. CASE n = s.to /\ n # s.name
      BY <2>0, <2>1, <2>2, <2>3, <2>4, <2>6 DEF About
  <2>7. CASE n # s.name /\ n # s.to
      BY <2>0, <2>1, <2>2, <2>4, <2>7
  <2> QED BY <2>5, <2>6, <2>7
<1>3. AtPlaces(m, S \union {s})
    BY DEF Fine, AtPlaces
<1>4. Relabels(m, B, fl, S \union {s})
  <2> SUFFICES ASSUME NEW t \in S \union {s}, t.do \in {"rename", "relabel"}, ~(t.name \in B /\ t.to \in B)
               PROVE  /\ t.name \in m.names /\ t.name # t.to
                      /\ \A j, h \in DOMAIN m.index :
                           m.index[j] = t.name /\ m.index[h] = t.name => j = h
                      /\ \A j \in DOMAIN m.index : m.index[j] = t.name /\ m.element[j] # NoElement
                           => fl[m.element[j]].name = t.to
      BY DEF Relabels
  <2>1. CASE t \in S
    <3>1. /\ t.name \in m.names /\ t.name # t.to
          /\ \A j, h \in DOMAIN m.index : m.index[j] = t.name /\ m.index[h] = t.name => j = h
          /\ \A j \in DOMAIN m.index : m.index[j] = t.name /\ m.element[j] # NoElement
               => el[m.element[j]].name = t.to
        BY <2>1 DEF Fine, Relabels
    <3>2. ASSUME NEW j \in DOMAIN m.index, m.index[j] = t.name, m.element[j] # NoElement
          PROVE  fl[m.element[j]].name = t.to
      <4>1. el[m.element[j]].name = t.to
          BY <3>1, <3>2
      <4>2. m.element[j] # e
          BY <2>1, <4>1 DEF About
      <4> QED BY <3>2, <4>1, <4>2
    <3> QED BY <3>1, <3>2
  <2>2. CASE t = s
    <3>1. s.name \notin A /\ s.name # s.to
        BY <2>2
    <3>2. m.index[i] = s.name
        BY <1>0, <3>1
    <3>3. s.name \in m.names
        BY <3>1, <3>2 DEF Fine, Tidy
    <3>4. \A j, h \in DOMAIN m.index : m.index[j] = s.name /\ m.index[h] = s.name => j = h
        BY <3>1 DEF Fine, Tidy
    <3>5. \A j \in DOMAIN m.index : m.index[j] = s.name => j = i
        BY <3>2, <3>4
    <3> QED BY <2>2, <3>3, <3>4, <3>5
  <2> QED BY <2>1, <2>2
<1>5. Named(m, B, fl, S \union {s})
  <2> SUFFICES ASSUME NEW j \in DOMAIN m.index, m.element[j] # NoElement
               PROVE  \/ fl[m.element[j]].name = m.index[j]
                      \/ m.index[j] \in B /\ fl[m.element[j]].name \in B
                      \/ \E t \in S \union {s} : /\ t.do \in {"rename", "relabel"} /\ t.name = m.index[j]
                                                 /\ t.to = fl[m.element[j]].name
      BY DEF Named
  <2>1. CASE m.element[j] = e
    <3>1. j = i
        BY <2>1
    <3> QED BY <1>0, <2>1, <3>1
  <2>2. CASE m.element[j] # e
    <3>1. fl[m.element[j]].name = el[m.element[j]].name
        BY <2>2
    <3>2. \/ el[m.element[j]].name = m.index[j]
          \/ m.index[j] \in A /\ el[m.element[j]].name \in A
          \/ \E t \in S : /\ t.do \in {"rename", "relabel"} /\ t.name = m.index[j]
                          /\ t.to = el[m.element[j]].name
        BY DEF Fine, Named
    <3> QED BY <3>1, <3>2
  <2> QED BY <2>1, <2>2
<1>6. Born(fl, S \union {s})
    BY <1>0 DEF Fine, Born
<1> QED BY <1>1, <1>2, <1>3, <1>4, <1>5, <1>6 DEF Fine

(* A call has made a change that left the names of the map as they are: an   *)
(* element was loaded, or the name is one changed behind its back.           *)
LEMMA FineEnds ==
    ASSUME NEW m, NEW L, NEW A, NEW el, NEW S, Fine(m, L, A, el, S),
           NEW s \in S, s.do = "create" \/ (s.name \in A /\ s.to \in A),
           NEW T, T \subseteq S, S \subseteq T \union {s},
           s.do \in {"add", "insert", "create", "rename", "relabel"}
    PROVE  Fine(m, L, A, el, T)
<1>1. Listed(m, L, A, T)
  <2> SUFFICES ASSUME NEW n \in Name \ A
               PROVE  (Coming(T, n) <=> Coming(S, n)) /\ (Leaving(T, n) <=> Leaving(S, n))
      BY DEF Fine, Listed
  <2>1. Coming(T, n) <=> Coming(S, n)
      BY DEF Coming
  <2>2. Leaving(T, n) <=> Leaving(S, n)
      BY DEF Leaving
  <2> QED BY <2>1, <2>2
<1>2. AtPlaces(m, T)
    BY DEF Fine, AtPlaces
<1>3. Relabels(m, A, el, T)
    BY DEF Fine, Relabels
<1>4. Named(m, A, el, T)
  <2> SUFFICES ASSUME NEW j \in DOMAIN m.index, m.element[j] # NoElement
               PROVE  \/ el[m.element[j]].name = m.index[j]
                      \/ m.index[j] \in A /\ el[m.element[j]].name \in A
                      \/ \E t \in T : /\ t.do \in {"rename", "relabel"} /\ t.name = m.index[j]
                                      /\ t.to = el[m.element[j]].name
      BY DEF Named
  <2>1. \/ el[m.element[j]].name = m.index[j]
        \/ m.index[j] \in A /\ el[m.element[j]].name \in A
        \/ \E t \in S : /\ t.do \in {"rename", "relabel"} /\ t.name = m.index[j]
                        /\ t.to = el[m.element[j]].name
      BY DEF Fine, Named
  <2> QED BY <2>1
<1>5. Born(el, T)
    BY DEF Fine, Born
<1> QED BY <1>1, <1>2, <1>3, <1>4, <1>5 DEF Fine

(* The entry of a name is taken out.                                         *)
LEMMA FineTaken ==
    ASSUME NEW k \in Nat, NEW m \in Map(k), NEW L, NEW A, NEW el, NEW s,
           Fine(m, L, A, el, {s}), s.do \in {"create", "remove"},
           NEW B, A \subseteq B, s.do = "remove" \/ s.name \in B
    PROVE  Fine(RemoveElement(m, s.at), L, B, el, {})
<1> DEFINE N == Len(m.index)
<1>1. s.name \in m.names /\ s.at = GetIndex(m, s.name)
    BY DEF Fine, AtPlaces
<1>2. s.at \in Int /\ InOrder(m, s.at) /\ GetName(m, s.at) = s.name
    BY <1>1, OrderFacts
<1>3. PICK w : w = RemoveElement(m, s.at)
    OBVIOUS
<1>4. PICK g : g = Slot(m, s.name)
    OBVIOUS
<1>5. /\ w.names = m.names \ {s.name} /\ g \in 1..N /\ m.index[g] = s.name
      /\ DOMAIN w.index = 1..(N - 1)
      /\ \A x \in 1..(N - 1) : w.index[x] = m.index[IF x < g THEN x ELSE x + 1]
      /\ \A x \in 1..(N - 1) : w.element[x] = m.element[IF x < g THEN x ELSE x + 1]
  <2>1. PICK i : i = s.at
      OBVIOUS
  <2>2. i \in Int /\ InOrder(m, i) /\ GetName(m, i) = s.name
      BY <1>2, <2>1
  <2>3. w = RemoveElement(m, i) /\ g = Slot(m, GetName(m, i))
      BY <1>3, <1>4, <2>1, <2>2
  <2>4. /\ w.names = m.names \ {GetName(m, i)}
        /\ g \in 1..Len(m.index) /\ m.index[g] = GetName(m, i)
        /\ DOMAIN w.index = 1..(Len(m.index) - 1)
        /\ \A x \in 1..(Len(m.index) - 1) :
             w.index[x] = m.index[IF x < g THEN x ELSE x + 1]
        /\ \A x \in 1..(Len(m.index) - 1) :
             w.element[x] = m.element[IF x < g THEN x ELSE x + 1]
    <3>1. InOrder(m, i) /\ i \in Int /\ m \in Map(k)
        BY <2>2
    <3> QED BY <2>3, <3>1, RemoveElementIs
  <2> QED BY <2>2, <2>4 DEF N
<1>6. N \in Nat /\ DOMAIN m.index = 1..N
    BY MapParts
<1> HIDE DEF N
<1> DEFINE At(x) == IF x < g THEN x ELSE x + 1
<1>7. /\ \A x \in 1..(N - 1) : At(x) \in (1..N) \ {g}
      /\ \A x, y \in 1..(N - 1) : At(x) = At(y) => x = y
    BY <1>5, <1>6
<1>8. /\ \A x \in 1..(N - 1) : w.index[x] = m.index[At(x)]
      /\ \A x \in 1..(N - 1) : w.element[x] = m.element[At(x)]
    BY <1>5
<1> HIDE DEF At
<1>9. Tidy(w, B)
  <2>1. \A i, j \in 1..N : m.index[i] = m.index[j] /\ m.index[i] \notin B => i = j
      BY <1>6 DEF Fine, Tidy
  <2>2. \A i \in 1..N : m.index[i] \in m.names \union B
      BY <1>6 DEF Fine, Tidy
  <2>3. ASSUME NEW x \in 1..(N - 1) PROVE w.index[x] \in w.names \union B
    <3>1. At(x) \in 1..N /\ At(x) # g
        BY <1>7
    <3>2. m.index[At(x)] = m.index[g] => m.index[At(x)] \in B
        BY <1>5, <2>1, <3>1
    <3> QED BY <1>5, <1>8, <2>2, <3>1, <3>2
  <2>4. ASSUME NEW x \in 1..(N - 1), NEW y \in 1..(N - 1),
               w.index[x] = w.index[y], w.index[x] \notin B
        PROVE  x = y
    <3>1. At(x) = At(y)
        BY <1>7, <1>8, <2>1, <2>4
    <3> QED BY <1>7, <3>1
  <2> QED BY <1>5, <2>3, <2>4 DEF Tidy
<1>10. Listed(w, L, B, {})
  <2> SUFFICES ASSUME NEW n \in Name \ B
               PROVE  n \in w.names <=> n \in L
      BY DEF Listed, Coming, Leaving
  <2>0. /\ n \in m.names <=> (n \in L /\ ~Coming({s}, n)) \/ Leaving({s}, n)
        /\ Leaving({s}, n) => n \notin L
      BY DEF Fine, Listed
  <2>1. ~Coming({s}, n)
      BY DEF Coming
  <2>2. Leaving({s}, n) <=> s.do = "remove" /\ n = s.name
      BY DEF Leaving
  <2> QED BY <1>5, <2>0, <2>1, <2>2
<1>11. Named(w, B, el, {})
  <2> SUFFICES ASSUME NEW x \in 1..(N - 1), w.element[x] # NoElement
               PROVE  \/ el[w.element[x]].name = w.index[x]
                      \/ w.index[x] \in B /\ el[w.element[x]].name \in B
      BY <1>5 DEF Named
  <2>1. PICK j \in 1..N : w.element[x] = m.element[j] /\ w.index[x] = m.index[j]
      BY <1>7, <1>8
  <2>2. \/ el[m.element[j]].name = m.index[j]
        \/ m.index[j] \in A /\ el[m.element[j]].name \in A
      BY <1>6, <2>1 DEF Fine, Named
  <2> QED BY <2>1, <2>2
<1> QED BY <1>3, <1>9, <1>10, <1>11 DEF Fine, AtPlaces, Relabels, Born

(* An entry is added for what is to come.                                    *)
LEMMA FineAdded ==
    ASSUME NEW k \in Nat, NEW m \in Map(k), NEW L, NEW A, NEW el, NEW s,
           Fine(m, L, A, el, {s}), s.do \in {"add", "insert"}, s.name \in Name,
           s.element \in (1..k) \union {NoElement}
    PROVE  Fine(AddElement(m, s.name, s.element), L, A, el, {})
<1> DEFINE N == Len(m.index)
<1>1. PICK w : w = AddElement(m, s.name, s.element)
    OBVIOUS
<1>0. Extended(w, m, s.name, s.element)
    BY <1>1, AddElementIs
<1>2. w.names = m.names \union {s.name} /\ DOMAIN w.index = 1..(N + 1)
    BY <1>0 DEF Extended
<1>3. /\ \A x \in 1..N : w.index[x] = m.index[x]
      /\ \A x \in 1..N : w.element[x] = m.element[x]
      /\ w.index[N + 1] = s.name /\ w.element[N + 1] = s.element
    BY <1>0 DEF Extended
<1>4. N \in Nat /\ DOMAIN m.index = 1..N
    BY MapParts
<1> HIDE DEF N
<1>5. \A x \in 1..(N + 1) : x \in 1..N \/ x = N + 1
    BY <1>4
<1>6. s.name \notin A => s.name \notin m.names
  <2>1. Coming({s}, s.name) /\ ~Leaving({s}, s.name)
      BY DEF Coming, Leaving
  <2> QED BY <2>1 DEF Fine, Listed
<1>7. Tidy(w, A)
  <2>1. \A x \in 1..N : m.index[x] \in m.names \union A
      BY <1>4 DEF Fine, Tidy
  <2>2. \A x, y \in 1..N : m.index[x] = m.index[y] /\ m.index[x] \notin A => x = y
      BY <1>4 DEF Fine, Tidy
  <2>3. \A x \in 1..N : m.index[x] = s.name => s.name \in A
      BY <1>6, <2>1
  <2>4. ASSUME NEW x \in 1..(N + 1) PROVE w.index[x] \in w.names \union A
      BY <1>2, <1>3, <1>5, <2>1
  <2>5. ASSUME NEW x \in 1..(N + 1), NEW y \in 1..(N + 1),
               w.index[x] = w.index[y], w.index[x] \notin A
        PROVE  x = y
    <3>1. CASE x \in 1..N /\ y \in 1..N
        BY <1>3, <2>2, <2>5, <3>1
    <3>2. CASE x = N + 1 /\ y \in 1..N
        BY <1>3, <2>3, <2>5, <3>2
    <3>3. CASE x \in 1..N /\ y = N + 1
        BY <1>3, <2>3, <2>5, <3>3
    <3> QED BY <1>5, <3>1, <3>2, <3>3
  <2> QED BY <1>2, <2>4, <2>5 DEF Tidy
<1>8. Listed(w, L, A, {})
  <2> SUFFICES ASSUME NEW n \in Name \ A
               PROVE  n \in w.names <=> n \in L
      BY DEF Listed, Coming, Leaving
  <2>0. /\ n \in m.names <=> (n \in L /\ ~Coming({s}, n)) \/ Leaving({s}, n)
        /\ Coming({s}, n) => n \in L
      BY DEF Fine, Listed
  <2>1. Coming({s}, n) <=> n = s.name
      BY DEF Coming
  <2>2. ~Leaving({s}, n)
      BY DEF Leaving
  <2> QED BY <1>2, <2>0, <2>1, <2>2
<1>9. Named(w, A, el, {})
  <2> SUFFICES ASSUME NEW x \in 1..(N + 1), w.element[x] # NoElement
               PROVE  \/ el[w.element[x]].name = w.index[x]
                      \/ w.index[x] \in A /\ el[w.element[x]].name \in A
      BY <1>2 DEF Named
  <2>1. CASE x \in 1..N
    <3>1. w.element[x] = m.element[x] /\ w.index[x] = m.index[x]
        BY <1>3, <2>1
    <3>2. \/ el[m.element[x]].name = m.index[x]
          \/ m.index[x] \in A /\ el[m.element[x]].name \in A
        BY <1>4, <2>1, <3>1 DEF Fine, Named
    <3> QED BY <3>1, <3>2
  <2>2. CASE x = N + 1
    <3>1. Brings(s)
        BY <1>3, <2>2 DEF Brings
    <3> QED BY <1>3, <2>2, <3>1 DEF Fine, Born
  <2> QED BY <1>5, <2>1, <2>2
<1> QED BY <1>1, <1>7, <1>8, <1>9 DEF Fine, AtPlaces, Relabels, Born

(* An entry gets its new name.                                               *)
LEMMA FineRelabelled ==
    ASSUME NEW k \in Nat, NEW m \in Map(k), NEW L, NEW A, NEW el, NEW s,
           Fine(m, L, A, el, {s}), s.do \in {"rename", "relabel"}, s.name \in m.names, s.to \in Name,
           s.name # s.to
    PROVE  Fine(RenameElement(m, s.name, s.to), L, A, el, {})
<1> DEFINE N == Len(m.index)
<1>1. PICK w : w = RenameElement(m, s.name, s.to)
    OBVIOUS
<1>2. PICK g : g = Slot(m, s.name)
    OBVIOUS
<1>3. /\ w.names = (m.names \ {s.name}) \union {s.to} /\ w.element = m.element
      /\ g \in 1..N /\ m.index[g] = s.name /\ DOMAIN w.index = 1..N
      /\ \A x \in 1..N : w.index[x] = IF x = g THEN s.to ELSE m.index[x]
    BY <1>1, <1>2, RenameElementIs
<1>4. DOMAIN m.index = 1..N
    BY MapParts
<1> HIDE DEF N
<1>5. \/ s.name \in A /\ s.to \in A
      \/ /\ \A x \in 1..N : m.index[x] = s.name => x = g
         /\ m.element[g] # NoElement => el[m.element[g]].name = s.to
    BY <1>3, <1>4 DEF Fine, Relabels
<1>6. s.to \notin A => s.to \notin m.names
  <2>1. Coming({s}, s.to) /\ ~Leaving({s}, s.to)
      BY DEF Coming, Leaving
  <2> QED BY <2>1 DEF Fine, Listed
<1>7. Tidy(w, A)
  <2>1. \A x \in 1..N : m.index[x] \in m.names \union A
      BY <1>4 DEF Fine, Tidy
  <2>2. \A x, y \in 1..N : m.index[x] = m.index[y] /\ m.index[x] \notin A => x = y
      BY <1>4 DEF Fine, Tidy
  <2>3. \A x \in 1..N : m.index[x] = s.to => s.to \in A
      BY <1>6, <2>1
  <2>4. ASSUME NEW x \in 1..N PROVE w.index[x] \in w.names \union A
    <3>1. CASE x = g
        BY <1>3, <3>1
    <3>2. CASE x # g
      <4>1. m.index[x] = s.name => m.index[x] \in A
          BY <1>5, <3>2
      <4> QED BY <1>3, <2>1, <3>2, <4>1
    <3> QED BY <3>1, <3>2
  <2>5. ASSUME NEW x \in 1..N, NEW y \in 1..N, w.index[x] = w.index[y], w.index[x] \notin A
        PROVE  x = y
    <3>1. CASE x # g /\ y # g
        BY <1>3, <2>2, <2>5, <3>1
    <3>2. CASE x = g /\ y # g
        BY <1>3, <2>3, <2>5, <3>2
    <3>3. CASE x # g /\ y = g
        BY <1>3, <2>3, <2>5, <3>3
    <3> QED BY <3>1, <3>2, <3>3
  <2> QED BY <1>3, <2>4, <2>5 DEF Tidy
<1>8. Listed(w, L, A, {})
  <2> SUFFICES ASSUME NEW n \in Name \ A
               PROVE  n \in w.names <=> n \in L
      BY DEF Listed, Coming, Leaving
  <2>0. /\ n \in m.names <=> (n \in L /\ ~Coming({s}, n)) \/ Leaving({s}, n)
        /\ Leaving({s}, n) => n \notin L
        /\ Coming({s}, n) => n \in L
      BY DEF Fine, Listed
  <2>1. Coming({s}, n) <=> n = s.to
      BY DEF Coming
  <2>2. Leaving({s}, n) <=> n = s.name
      BY DEF Leaving
  <2> QED BY <1>3, <2>0, <2>1, <2>2
<1>9. Named(w, A, el, {})
  <2> SUFFICES ASSUME NEW x \in 1..N, m.element[x] # NoElement
               PROVE  \/ el[m.element[x]].name = w.index[x]
                      \/ w.index[x] \in A /\ el[m.element[x]].name \in A
      BY <1>3 DEF Named
  <2>1. \/ el[m.element[x]].name = m.index[x]
        \/ m.index[x] \in A /\ el[m.element[x]].name \in A
        \/ m.index[x] = s.name /\ el[m.element[x]].name = s.to
      BY <1>4 DEF Fine, Named
  <2>2. CASE x = g
      BY <1>3, <1>5, <2>1, <2>2
  <2>3. CASE x # g
      BY <1>3, <1>5, <2>1, <2>3
  <2> QED BY <2>2, <2>3
<1> QED BY <1>1, <1>7, <1>8, <1>9 DEF Fine, AtPlaces, Relabels, Born

(* refill(): what was missing is there.                                      *)
LEMMA FineRefilled ==
    ASSUME NEW k \in Nat, NEW m \in Map(k), NEW L \in SUBSET Name, NEW A, NEW el,
           Fine(m, L, A, el, {})
    PROVE  Fine(Refill(m, L), L, A, el, {})
<1> DEFINE N == Len(m.index)
<1>1. PICK w : w = Refill(m, L)
    OBVIOUS
<1>2. Refilled(w, m, L)
    BY <1>1, RefillIs
<1>3. PICK c, added : c = Cardinality(L \ m.names) /\ added = Sorted(L \ m.names)
    OBVIOUS
<1>4. /\ w.names = m.names \union L
      /\ c \in Nat /\ added \in [1..c -> L \ m.names]
      /\ DOMAIN w.index = 1..(N + c)
      /\ \A x \in 1..N : w.index[x] = m.index[x]
      /\ \A x \in 1..c : w.index[N + x] = added[x]
      /\ \A x \in 1..N : w.element[x] = m.element[x]
      /\ \A x \in 1..c : w.element[N + x] = NoElement
    BY <1>2, <1>3 DEF Refilled
<1>5. N \in Nat /\ DOMAIN m.index = 1..N
    BY MapParts
<1> HIDE DEF N
<1>6. \A x \in 1..(N + c) : x \in 1..N \/ \E y \in 1..c : x = N + y
  <2> SUFFICES ASSUME NEW x \in 1..(N + c), ~(x \in 1..N)
               PROVE  \E y \in 1..c : x = N + y
      OBVIOUS
  <2>1. x - N \in 1..c /\ x = N + (x - N)
      BY <1>4, <1>5
  <2> QED BY <2>1
<1>7. \A n \in Name \ A : n \in m.names <=> n \in L
    BY DEF Fine, Listed, Coming, Leaving
<1>8. \A y \in 1..c : added[y] \in L /\ added[y] \in A
    BY <1>4, <1>7
<1>9. Tidy(w, A)
  <2>1. \A x \in 1..N : m.index[x] \in m.names \union A
      BY <1>5 DEF Fine, Tidy
  <2>2. \A x, y \in 1..N : m.index[x] = m.index[y] /\ m.index[x] \notin A => x = y
      BY <1>5 DEF Fine, Tidy
  <2>3. \A x \in 1..(N + c) : w.index[x] \in w.names \union A
      BY <1>4, <1>6, <1>8, <2>1
  <2>4. ASSUME NEW x \in 1..(N + c), NEW y \in 1..(N + c),
               w.index[x] = w.index[y], w.index[x] \notin A
        PROVE  x = y
    <3>1. x \in 1..N /\ y \in 1..N
        BY <1>4, <1>6, <1>8, <2>4
    <3> QED BY <1>4, <2>2, <2>4, <3>1
  <2> QED BY <1>4, <2>3, <2>4 DEF Tidy
<1>10. Listed(w, L, A, {})
    BY <1>4, <1>7 DEF Listed, Coming, Leaving
<1>11. Named(w, A, el, {})
  <2> SUFFICES ASSUME NEW x \in 1..(N + c), w.element[x] # NoElement
               PROVE  \/ el[w.element[x]].name = w.index[x]
                      \/ w.index[x] \in A /\ el[w.element[x]].name \in A
      BY <1>4 DEF Named
  <2>1. x \in 1..N
      BY <1>4, <1>6
  <2>2. w.element[x] = m.element[x] /\ w.index[x] = m.index[x]
      BY <1>4, <2>1
  <2>3. \/ el[m.element[x]].name = m.index[x]
        \/ m.index[x] \in A /\ el[m.element[x]].name \in A
      BY <1>5, <2>1, <2>2 DEF Fine, Named
  <2> QED BY <2>2, <2>3
<1> QED BY <1>1, <1>9, <1>10, <1>11 DEF Fine, AtPlaces, Relabels, Born

(* refresh(): the names of the database and no elements.                     *)
LEMMA FineFilled ==
    ASSUME NEW L \in SUBSET Name, NEW A, NEW el
    PROVE  Fine(Refill(EmptyMap, L), L, A, el, {})
<1>1. PICK w : w = Refill(EmptyMap, L)
    OBVIOUS
<1>2. EmptyMap \in Map(0)
    BY EmptyMapFacts
<1>3. Refilled(w, EmptyMap, L)
    BY <1>1, <1>2, RefillIs
<1>4. PICK c, added : c = Cardinality(L) /\ added = Sorted(L)
    OBVIOUS
<1>5. EmptyMap.names = {} /\ Len(EmptyMap.index) = 0 /\ L \ {} = L
    BY DEF EmptyMap
<1>6. /\ w.names = L /\ c \in Nat /\ added \in [1..c -> L]
      /\ DOMAIN w.index = 1..c
      /\ \A x \in 1..c : w.index[x] = added[x]
      /\ \A x \in 1..c : w.element[x] = NoElement
  <2>1. /\ w.names = L /\ c \in Nat /\ added \in [1..c -> L]
        /\ DOMAIN w.index = 1..(0 + c)
        /\ \A x \in 1..c : w.index[0 + x] = added[x]
        /\ \A x \in 1..c : w.element[0 + x] = NoElement
      BY <1>3, <1>4, <1>5 DEF Refilled
  <2>2. 0 + c = c /\ \A x \in 1..c : 0 + x = x
      BY <2>1
  <2> QED BY <2>1, <2>2
<1>7. L \in SUBSET Nat /\ IsFiniteSet(L)
    BY NameAssumption, FS_Subset
<1>8. Tidy(w, A)
  <2>1. \A x, y \in 1..c : added[x] = added[y] => x = y
      BY <1>4, <1>7, SortedOnce
  <2> QED BY <1>6, <2>1 DEF Tidy
<1>9. Listed(w, L, A, {})
    BY <1>6 DEF Listed, Coming, Leaving
<1>10. Named(w, A, el, {})
    BY <1>6 DEF Named
<1> QED BY <1>1, <1>8, <1>9, <1>10 DEF Fine, AtPlaces, Relabels, Born

\* Two calls are about different names, a call changes a container once, and only a
\* rename has a second name.
Apart(todo) ==
  /\ \A th, o \in Thread : th # o => NamesOf(todo[th]) \cap NamesOf(todo[o]) = {}
  /\ \A th \in Thread : \A j, h \in DOMAIN todo[th] :
       todo[th][j].on = todo[th][h].on => j = h
  /\ \A th \in Thread : \A j \in DOMAIN todo[th] :
       todo[th][j].do \notin {"rename", "relabel"} => todo[th][j].to = todo[th][j].name

\* As long as no call works with what another has made wrong.
Agree(now) ==
  \A c \in Container : Fine(now.map[c], Lists(c, db), around[c], now.elem, On(c, doing))
Coherent ==
  /\ Apart(doing)
  /\ \A c \in Container : Fine(map[c], Lists(c, db), around[c], elem, On(c, doing))

\* The calls under way have changes to make, none is a refresh.
Calls(k) == doing \in [Thread -> Seq(Change(k))]

\* A container with no change to come, and one that refresh() has emptied.
Right(c) == Fine(map[c], Lists(c, db), around[c], elem, {})
RightOrEmpty(c) == Right(c) \/ map[c] = EmptyMap

\* What a refresh has still to do, and how far it has come.
Refilling == <<[do |-> "refill", on |-> "tables"], [do |-> "refill", on |-> "views"]>>
RefillingViews == <<[do |-> "refill", on |-> "views"]>>
Renewing(steps) ==
  \/ (\E c \in Container : steps = Refreshing(c)) /\ \A d \in Container : Right(d)
  \/ steps = Refilling /\ \A d \in Container : RightOrEmpty(d)
  \/ steps = RefillingViews /\ Right("tables") /\ RightOrEmpty("views")
Renewal ==
  \E th \in Thread : Renewing(doing[th]) /\ \A o \in Thread \ {th} : Idle(o)

\* The inductive invariant, with OnePlace: calls that are about different names
\* are under way, or one refresh and nothing else.
Watched ==
  /\ stale \subseteq Thread /\ \A th \in stale : doing[th] # <<>>
  /\ around = [c \in Container |-> around[c]]
  /\ ~raced /\ stale = {} => (Calls(Len(elem)) /\ Coherent) \/ Renewal

\* The changes of all the calls to one container.
LEMMA OnFacts ==
    ASSUME NEW todo, NEW c
    PROVE  \A s : s \in On(c, todo) <=>
             \E th \in Thread : \E j \in DOMAIN todo[th] : s = todo[th][j] /\ s.on = c
BY DEF On

\* The names that a call is about.
LEMMA NamesOfFacts ==
    ASSUME NEW steps
    PROVE  \A j \in DOMAIN steps : About(steps[j]) \subseteq NamesOf(steps)
BY DEF NamesOf, About

\* No other thread has to change the container c.
Free(th, c) == \A o \in Thread \ {th} : \A j \in DOMAIN doing[o] : doing[o][j].on # c

\* What is to do when a call starts with steps.
Started(todo, next, steps) ==
  /\ Apart(next)
  /\ \A c : \A t \in On(c, todo) : \A j \in DOMAIN steps :
       About(t) \cap About(steps[j]) = {}
  /\ \A c : On(c, next) = On(c, todo) \union
       {s \in {steps[j] : j \in DOMAIN steps} : s.on = c}

(* A call starts: the changes it has to make are new, and about other names. *)
LEMMA CallStarts ==
    ASSUME NEW todo, Apart(todo), NEW th \in Thread, todo[th] = <<>>,
           NEW steps, NEW next, next = [todo EXCEPT ![th] = steps],
           todo = [o \in Thread |-> todo[o]],
           \A o \in Thread \ {th} : NamesOf(steps) \cap NamesOf(todo[o]) = {},
           \A j, h \in DOMAIN steps : steps[j].on = steps[h].on => j = h,
           \A j \in DOMAIN steps : steps[j].do \notin {"rename", "relabel"} => steps[j].to = steps[j].name
    PROVE  Started(todo, next, steps)
<1>1. next[th] = steps /\ \A o \in Thread \ {th} : next[o] = todo[o]
    OBVIOUS
<1>2. Apart(next)
  <2>1. ASSUME NEW p \in Thread, NEW o \in Thread, p # o
        PROVE  NamesOf(next[p]) \cap NamesOf(next[o]) = {}
    <3>1. CASE p = th
        BY <1>1, <2>1, <3>1
    <3>2. CASE o = th
      <4>1. NamesOf(next[o]) \cap NamesOf(next[p]) = {}
          BY <1>1, <2>1, <3>2
      <4> QED BY <4>1
    <3>3. CASE p # th /\ o # th
        BY <1>1, <2>1, <3>3 DEF Apart
    <3> QED BY <3>1, <3>2, <3>3
  <2>2. ASSUME NEW p \in Thread, NEW j \in DOMAIN next[p], NEW h \in DOMAIN next[p],
               next[p][j].on = next[p][h].on
        PROVE  j = h
    <3>1. CASE p = th
        BY <1>1, <2>2, <3>1
    <3>2. CASE p # th
        BY <1>1, <2>2, <3>2 DEF Apart
    <3> QED BY <3>1, <3>2
  <2>3. ASSUME NEW p \in Thread, NEW j \in DOMAIN next[p]
        PROVE  next[p][j].do \notin {"rename", "relabel"} => next[p][j].to = next[p][j].name
    <3>1. CASE p = th
        BY <1>1, <2>3, <3>1
    <3>2. CASE p # th
        BY <1>1, <2>3, <3>2 DEF Apart
    <3> QED BY <3>1, <3>2
  <2> QED BY <2>1, <2>2, <2>3 DEF Apart
<1>3. ASSUME NEW c, NEW t \in On(c, todo), NEW j \in DOMAIN steps
      PROVE  About(t) \cap About(steps[j]) = {}
  <2>1. PICK o \in Thread : \E h \in DOMAIN todo[o] : t = todo[o][h]
      BY OnFacts
  <2>2. o # th
      BY <2>1
  <2>3. About(t) \subseteq NamesOf(todo[o])
      BY <2>1, NamesOfFacts
  <2>4. About(steps[j]) \subseteq NamesOf(steps)
      BY NamesOfFacts
  <2> QED BY <2>2, <2>3, <2>4
<1>4. ASSUME NEW c
      PROVE  On(c, next) = On(c, todo) \union {s \in {steps[j] : j \in DOMAIN steps} : s.on = c}
  <2>1. ASSUME NEW s \in On(c, next)
        PROVE  s \in On(c, todo) \union {x \in {steps[j] : j \in DOMAIN steps} : x.on = c}
    <3>1. PICK o \in Thread : \E j \in DOMAIN next[o] : s = next[o][j] /\ s.on = c
        BY OnFacts
    <3>2. CASE o = th
        BY <1>1, <3>1, <3>2
    <3>3. CASE o # th
        BY <1>1, <3>1, <3>3, OnFacts
    <3> QED BY <3>2, <3>3
  <2>2. ASSUME NEW s \in On(c, todo) PROVE s \in On(c, next)
    <3>1. PICK o \in Thread : \E j \in DOMAIN todo[o] : s = todo[o][j] /\ s.on = c
        BY OnFacts
    <3>2. o # th
        BY <3>1
    <3> QED BY <1>1, <3>1, <3>2, OnFacts
  <2>3. ASSUME NEW j \in DOMAIN steps, steps[j].on = c PROVE steps[j] \in On(c, next)
      BY <1>1, <2>3, OnFacts
  <2> QED BY <2>1, <2>2, <2>3
<1> QED BY <1>2, <1>3, <1>4 DEF Started

\* What is still to do when the call of th has made its first change, s.
WentOn(todo, next, th, s) ==
  /\ Apart(next)
  /\ s \in On(s.on, todo)
  /\ \A c : On(c, next) \subseteq On(c, todo)
  /\ \A c : On(c, todo) \subseteq On(c, next) \union {s}
  /\ \A c : c # s.on => On(c, next) = On(c, todo)
  /\ \A t \in On(s.on, todo) : t = s \/ About(t) \cap About(s) = {}
  /\ (\A o \in Thread \ {th} : \A j \in DOMAIN todo[o] : todo[o][j].on # s.on)
       => On(s.on, todo) = {s} /\ On(s.on, next) = {}

(* A call makes its first change, which it has then no longer to make.       *)
LEMMA CallGoesOn ==
    ASSUME NEW k \in Nat, NEW todo \in [Thread -> Seq(Change(k))], Apart(todo),
           NEW th \in Thread, todo[th] # <<>>, NEW s, s = Head(todo[th]),
           NEW next, next = [todo EXCEPT ![th] = Tail(todo[th])]
    PROVE  WentOn(todo, next, th, s)
<1>0. \A c : \A t \in On(c, next) :
        \E o \in Thread : \E j \in DOMAIN next[o] : t = next[o][j] /\ t.on = c
    BY DEF On
<1>1. PICK old : old = todo[th]
    OBVIOUS
<1>2. /\ old \in Seq(Change(k)) /\ Len(old) \in Nat \ {0} /\ DOMAIN old = 1..Len(old)
      /\ s = old[1] /\ 1 \in DOMAIN old
      /\ DOMAIN Tail(old) = 1..(Len(old) - 1)
      /\ \A j \in DOMAIN Tail(old) : j + 1 \in DOMAIN old /\ Tail(old)[j] = old[j + 1]
  <2>1. old \in Seq(Change(k)) /\ old # <<>> /\ s = Head(old)
      BY <1>1
  <2>2. Len(old) \in Nat \ {0} /\ DOMAIN old = 1..Len(old) /\ s = old[1]
      BY <2>1
  <2>3. DOMAIN Tail(old) = 1..(Len(old) - 1) /\ \A j \in 1..(Len(old) - 1) : Tail(old)[j] = old[j + 1]
      BY <2>1
  <2> QED BY <2>1, <2>2, <2>3
<1>3. next[th] = Tail(old) /\ \A o \in Thread \ {th} : next[o] = todo[o]
    BY <1>1
<1>4. \A j \in DOMAIN Tail(old) : Tail(old)[j].on # s.on
  <2> SUFFICES ASSUME NEW j \in DOMAIN Tail(old), Tail(old)[j].on = s.on
               PROVE  FALSE
      OBVIOUS
  <2>1. j + 1 \in DOMAIN old /\ old[j + 1].on = old[1].on /\ j + 1 # 1
      BY <1>2
  <2> QED BY <1>1, <1>2, <2>1 DEF Apart
<1>5. NamesOf(Tail(old)) \subseteq NamesOf(old)
    BY <1>2 DEF NamesOf
<1>6. Apart(next)
  <2>0. \A o \in Thread : NamesOf(next[o]) \subseteq NamesOf(todo[o])
      BY <1>1, <1>3, <1>5
  <2>1. \A p, o \in Thread : p # o => NamesOf(next[p]) \cap NamesOf(next[o]) = {}
    <3> SUFFICES ASSUME NEW p \in Thread, NEW o \in Thread, p # o
                 PROVE  NamesOf(next[p]) \cap NamesOf(next[o]) = {}
        OBVIOUS
    <3>1. NamesOf(todo[p]) \cap NamesOf(todo[o]) = {}
        BY DEF Apart
    <3> QED BY <2>0, <3>1
  <2>2. ASSUME NEW p \in Thread, NEW j \in DOMAIN next[p], NEW h \in DOMAIN next[p],
               next[p][j].on = next[p][h].on
        PROVE  j = h
    <3>1. CASE p = th
      <4>1. /\ j \in 1..(Len(old) - 1) /\ h \in 1..(Len(old) - 1)
            /\ j + 1 \in DOMAIN old /\ h + 1 \in DOMAIN old
            /\ old[j + 1].on = old[h + 1].on
          BY <1>2, <1>3, <2>2, <3>1
      <4>2. j + 1 = h + 1
          BY <1>1, <4>1 DEF Apart
      <4> QED BY <1>2, <4>1, <4>2
    <3>2. CASE p # th
        BY <1>3, <2>2, <3>2 DEF Apart
    <3> QED BY <3>1, <3>2
  <2>3. ASSUME NEW p \in Thread, NEW j \in DOMAIN next[p]
        PROVE  next[p][j].do \notin {"rename", "relabel"} => next[p][j].to = next[p][j].name
    <3>1. PICK h \in DOMAIN todo[p] : next[p][j] = todo[p][h]
        BY <1>1, <1>2, <1>3
    <3> QED BY <3>1 DEF Apart
  <2> QED BY <2>1, <2>2, <2>3 DEF Apart
<1>7. s \in On(s.on, todo)
    BY <1>1, <1>2, OnFacts
<1>8. ASSUME NEW c PROVE On(c, next) \subseteq On(c, todo)
  <2> SUFFICES ASSUME NEW t \in On(c, next) PROVE t \in On(c, todo)
      OBVIOUS
  <2>1. PICK o \in Thread : \E j \in DOMAIN next[o] : t = next[o][j] /\ t.on = c
      BY <1>0
  <2>2. \E h \in DOMAIN todo[o] : t = todo[o][h]
    <3>1. CASE o = th
        BY <1>1, <1>2, <1>3, <2>1, <3>1
    <3>2. CASE o # th
        BY <1>3, <2>1, <3>2
    <3> QED BY <3>1, <3>2
  <2> QED BY <2>1, <2>2, OnFacts
<1>9. ASSUME NEW c, NEW t \in On(c, todo) PROVE t \in On(c, next) \/ t = s
  <2>1. PICK o \in Thread : \E j \in DOMAIN todo[o] : t = todo[o][j] /\ t.on = c
      BY OnFacts
  <2>2. CASE o # th
      BY <1>3, <2>1, <2>2, OnFacts, ZenonT(30)
  <2>3. CASE o = th
    <3>1. PICK j \in DOMAIN old : t = old[j]
        BY <1>1, <2>1, <2>3
    <3>2. CASE j = 1
        BY <1>2, <3>1, <3>2
    <3>3. CASE j # 1
      <4>1. j - 1 \in DOMAIN Tail(old) /\ (j - 1) + 1 = j
          BY <1>2, <3>3
      <4>2. Tail(old)[j - 1] = t
          BY <1>2, <3>1, <4>1
      <4>3. PICK h : h = j - 1
          OBVIOUS
      <4>4. h \in DOMAIN next[th] /\ t = next[th][h] /\ t.on = c
          BY <1>3, <2>1, <4>1, <4>2, <4>3
      <4> QED BY <4>4, OnFacts
    <3> QED BY <3>2, <3>3
  <2> QED BY <2>2, <2>3
<1>10. ASSUME NEW t \in On(s.on, todo) PROVE t = s \/ About(t) \cap About(s) = {}
  <2>1. PICK o \in Thread : \E j \in DOMAIN todo[o] : t = todo[o][j] /\ t.on = s.on
      BY OnFacts
  <2>2. CASE o = th
      BY <1>1, <1>2, <2>1, <2>2 DEF Apart
  <2>3. CASE o # th
    <3>1. About(t) \subseteq NamesOf(todo[o])
        BY <2>1, NamesOfFacts
    <3>2. About(s) \subseteq NamesOf(todo[th])
        BY <1>1, <1>2, NamesOfFacts
    <3>3. NamesOf(todo[o]) \cap NamesOf(todo[th]) = {}
        BY <2>3 DEF Apart
    <3> QED BY <3>1, <3>2, <3>3
  <2> QED BY <2>2, <2>3
<1>11. ASSUME NEW c, c # s.on PROVE On(c, next) = On(c, todo)
  <2>1. s \notin On(c, todo)
      BY <1>11, OnFacts
  <2> QED BY <1>8, <1>9, <2>1
<1>12. ASSUME \A o \in Thread \ {th} : \A j \in DOMAIN todo[o] : todo[o][j].on # s.on
       PROVE  On(s.on, todo) = {s} /\ On(s.on, next) = {}
  <2>1. ASSUME NEW t \in On(s.on, next) PROVE FALSE
    <3>1. PICK o \in Thread : \E j \in DOMAIN next[o] : t = next[o][j] /\ t.on = s.on
        BY <1>0
    <3>2. CASE o = th
      <4>1. PICK j \in DOMAIN Tail(old) : t = Tail(old)[j] /\ t.on = s.on
          BY <1>3, <3>1, <3>2
      <4> QED BY <1>4, <4>1
    <3>3. CASE o # th
        BY <1>3, <1>12, <3>1, <3>3
    <3> QED BY <3>2, <3>3
  <2> QED BY <1>7, <1>9, <2>1
<1> QED BY <1>6, <1>7, <1>8, <1>9, <1>10, <1>11, <1>12 DEF WentOn

\* What is still to do when th has tested its first change, s, which it makes as t.
TestedOne(todo, next, s, t) ==
  /\ Apart(next)
  /\ s \in On(s.on, todo) /\ t \in On(s.on, next)
  /\ \A c : c # s.on => On(c, next) = On(c, todo)
  /\ \A x \in On(s.on, next) : x = t \/ x \in On(s.on, todo)
  /\ \A x \in On(s.on, todo) : x = s \/ x \in On(s.on, next)

(* A call tests its first change: it has still to make it.                   *)
LEMMA CallTests ==
    ASSUME NEW k \in Nat, NEW todo \in [Thread -> Seq(Change(k))], Apart(todo),
           NEW th \in Thread, todo[th] # <<>>, NEW s, s = Head(todo[th]),
           NEW t, t.on = s.on, t.name = s.name, t.to = s.to,
           s.do \in {"rename", "relabel"} => t.do \in {"rename", "relabel"},
           NEW next, next = [todo EXCEPT ![th] = [todo[th] EXCEPT ![1] = t]]
    PROVE  TestedOne(todo, next, s, t)
<1>1. PICK old, new : old = todo[th] /\ new = [old EXCEPT ![1] = t]
    OBVIOUS
<1>2. old \in Seq(Change(k)) /\ old # <<>> /\ s = Head(old)
    BY <1>1
<1>3. s = old[1] /\ 1 \in DOMAIN old
    BY <1>2
<1>4. /\ next[th] = new /\ \A o \in Thread \ {th} : next[o] = todo[o]
      /\ DOMAIN new = DOMAIN old /\ new[1] = t /\ \A j \in DOMAIN old : j # 1 => new[j] = old[j]
  <2>1. next[th] = new
      BY <1>1
  <2>2. \A o \in Thread \ {th} : next[o] = todo[o]
      OBVIOUS
  <2>3. DOMAIN new = DOMAIN old /\ new[1] = t /\ \A j \in DOMAIN old : j # 1 => new[j] = old[j]
      BY <1>1, <1>3
  <2> QED BY <2>1, <2>2, <2>3
<1>5. \A j \in DOMAIN old : new[j].on = old[j].on /\ new[j].name = old[j].name /\ new[j].to = old[j].to
    BY <1>3, <1>4
<1>6. Apart(next)
  <2>1. NamesOf(new) = NamesOf(old)
    <3>1. \A x : x \in NamesOf(new) <=> \E j \in DOMAIN new : x = new[j].name \/ x = new[j].to
        BY DEF NamesOf
    <3>2. \A x : x \in NamesOf(old) <=> \E j \in DOMAIN old : x = old[j].name \/ x = old[j].to
        BY DEF NamesOf
    <3>3. \A x : x \in NamesOf(new) <=> x \in NamesOf(old)
      <4>1. DOMAIN new = DOMAIN old
          BY <1>4
      <4>2. ASSUME NEW x, NEW j \in DOMAIN old
            PROVE  (x = new[j].name \/ x = new[j].to) <=> (x = old[j].name \/ x = old[j].to)
          BY <1>5
      <4>3. ASSUME NEW x, x \in NamesOf(new) PROVE x \in NamesOf(old)
        <5>1. PICK j \in DOMAIN new : x = new[j].name \/ x = new[j].to
            BY <3>1, <4>3, Zenon
        <5>3. j \in DOMAIN old /\ j \in DOMAIN new
            BY <4>1, <5>1, Zenon
        <5>2. x = old[j].name \/ x = old[j].to
            BY <4>2, <5>1, <5>3
        <5> QED BY <5>3, <3>2, <5>2, Zenon
      <4>4. ASSUME NEW x, x \in NamesOf(old) PROVE x \in NamesOf(new)
        <5>1. PICK j \in DOMAIN old : x = old[j].name \/ x = old[j].to
            BY <3>2, <4>4, Zenon
        <5>3. j \in DOMAIN old /\ j \in DOMAIN new
            BY <4>1, <5>1, Zenon
        <5>2. x = new[j].name \/ x = new[j].to
            BY <4>2, <5>1, <5>3
        <5> QED BY <5>3, <3>1, <5>2, Zenon
      <4> QED BY <4>3, <4>4
    <3> QED BY <3>3, Zenon
  <2>2. \A o \in Thread : NamesOf(next[o]) = NamesOf(todo[o])
    <3> SUFFICES ASSUME NEW o \in Thread PROVE NamesOf(next[o]) = NamesOf(todo[o])
        OBVIOUS
    <3>1. CASE o = th
        BY <1>1, <1>4, <2>1, <3>1, Zenon
    <3>2. CASE o # th
      <4>1. next[o] = todo[o]
          BY <1>4, <3>2
      <4> QED BY <4>1, Zenon
    <3> QED BY <3>1, <3>2
  <2>3. \A p, o \in Thread : p # o => NamesOf(next[p]) \cap NamesOf(next[o]) = {}
    <3> SUFFICES ASSUME NEW p \in Thread, NEW o \in Thread, p # o
                 PROVE  NamesOf(next[p]) \cap NamesOf(next[o]) = {}
        OBVIOUS
    <3>1. NamesOf(todo[p]) \cap NamesOf(todo[o]) = {}
        BY DEF Apart
    <3> QED BY <2>2, <3>1, Zenon
  <2>4. ASSUME NEW p \in Thread, NEW j \in DOMAIN next[p], NEW h \in DOMAIN next[p],
               next[p][j].on = next[p][h].on
        PROVE  j = h
    <3>1. CASE p = th
        BY <1>1, <1>4, <1>5, <2>4, <3>1 DEF Apart
    <3>2. CASE p # th
        BY <1>4, <2>4, <3>2 DEF Apart
    <3> QED BY <3>1, <3>2
  <2>5. ASSUME NEW p \in Thread, NEW j \in DOMAIN next[p]
        PROVE  next[p][j].do \notin {"rename", "relabel"} => next[p][j].to = next[p][j].name
    <3>1. CASE p = th
      <4>1. j \in DOMAIN old /\ (new[j].do \notin {"rename", "relabel"} => old[j].do \notin {"rename", "relabel"})
          BY <1>3, <1>4, <3>1
      <4>2. old[j].do \notin {"rename", "relabel"} => old[j].to = old[j].name
          BY <1>1, <4>1 DEF Apart
      <4> QED BY <1>4, <1>5, <3>1, <4>1, <4>2
    <3>2. CASE p # th
        BY <1>4, <3>2 DEF Apart
    <3> QED BY <3>1, <3>2
  <2> QED BY <2>3, <2>4, <2>5 DEF Apart
<1>7. s \in On(s.on, todo)
    BY <1>1, <1>3, OnFacts
<1>8. t \in On(s.on, next)
  <2>1. 1 \in DOMAIN next[th] /\ next[th][1] = t /\ t.on = s.on
      BY <1>3, <1>4
  <2> QED BY <2>1, OnFacts
<1>9. ASSUME NEW c, NEW x \in On(c, next)
      PROVE  x \in On(c, todo) \/ (c = s.on /\ x = t)
  <2>1. PICK o \in Thread : \E j \in DOMAIN next[o] : x = next[o][j] /\ x.on = c
      BY DEF On
  <2>2. CASE o # th
      BY <1>4, <2>1, <2>2 DEF On
  <2>3. CASE o = th
    <3>1. PICK j \in DOMAIN old : x = new[j] /\ x.on = c
        BY <1>4, <2>1, <2>3
    <3>2. CASE j = 1
        BY <1>4, <3>1, <3>2
    <3>3. CASE j # 1
      <4>1. x = old[j] /\ x.on = c
          BY <1>4, <3>1, <3>3
      <4> QED BY <1>1, <3>1, <4>1 DEF On
    <3> QED BY <3>2, <3>3
  <2> QED BY <2>2, <2>3
<1>10. ASSUME NEW c, NEW x \in On(c, todo)
       PROVE  x \in On(c, next) \/ (c = s.on /\ x = s)
  <2>1. PICK o \in Thread : \E j \in DOMAIN todo[o] : x = todo[o][j] /\ x.on = c
      BY DEF On
  <2>2. CASE o # th
      BY <1>4, <2>1, <2>2 DEF On
  <2>3. CASE o = th
    <3>1. PICK j \in DOMAIN old : x = old[j] /\ x.on = c
        BY <1>1, <2>1, <2>3
    <3>2. CASE j = 1
        BY <1>3, <3>1, <3>2
    <3>3. CASE j # 1
      <4>1. x = new[j] /\ x.on = c /\ j \in DOMAIN next[th] /\ next[th][j] = x
          BY <1>4, <3>1, <3>3
      <4> QED BY <4>1 DEF On
    <3> QED BY <3>2, <3>3
  <2> QED BY <2>2, <2>3
<1>11. ASSUME NEW c, c # s.on PROVE On(c, next) = On(c, todo)
  <2>1. On(c, next) \subseteq On(c, todo)
      BY <1>9, <1>11
  <2>2. On(c, todo) \subseteq On(c, next)
      BY <1>10, <1>11
  <2> QED BY <2>1, <2>2
<1>12. (\A x \in On(s.on, next) : x = t \/ x \in On(s.on, todo)) /\ (\A x \in On(s.on, todo) : x = s \/ x \in On(s.on, next))
    BY <1>9, <1>10
<1> QED BY <1>6, <1>7, <1>8, <1>11, <1>12 DEF TestedOne

\* A change tested is the same to a container as one that is not.
LEMMA FineTested ==
    ASSUME NEW m, NEW L, NEW A, NEW el, NEW S, Fine(m, L, A, el, S), NEW s \in S, NEW t,
           t.name = s.name, t.to = s.to,
           \/ s.do = "insert" /\ t.do = "add" /\ t.element = s.element
           \/ s.do = "rename" /\ t.do = "relabel",
           NEW R, t \in R, \A x \in R : x = t \/ x \in S, \A x \in S : x = s \/ x \in R
    PROVE  Fine(m, L, A, el, R)
<1>1. ASSUME NEW n PROVE (Coming(R, n) <=> Coming(S, n)) /\ (Leaving(R, n) <=> Leaving(S, n))
    BY DEF Coming, Leaving
<1>2. Tidy(m, A)
    BY DEF Fine
<1>3. Listed(m, L, A, R)
    BY <1>1 DEF Fine, Listed
<1>4. AtPlaces(m, R)
    BY DEF Fine, AtPlaces
<1>5. Relabels(m, A, el, R)
  <2> SUFFICES ASSUME NEW x \in R, x.do \in {"rename", "relabel"}
               PROVE  \/ x.name \in A /\ x.to \in A
                      \/ /\ x.name \in m.names /\ x.name # x.to
                         /\ \A i, j \in DOMAIN m.index :
                              m.index[i] = x.name /\ m.index[j] = x.name => i = j
                         /\ \A i \in DOMAIN m.index :
                              m.index[i] = x.name /\ m.element[i] # NoElement
                                => el[m.element[i]].name = x.to
      BY DEF Relabels
  <2>1. PICK y \in S : y.do \in {"rename", "relabel"} /\ y.name = x.name /\ y.to = x.to
      OBVIOUS
  <2>2. \/ y.name \in A /\ y.to \in A
        \/ /\ y.name \in m.names /\ y.name # y.to
           /\ \A i, j \in DOMAIN m.index : m.index[i] = y.name /\ m.index[j] = y.name => i = j
           /\ \A i \in DOMAIN m.index : m.index[i] = y.name /\ m.element[i] # NoElement
                => el[m.element[i]].name = y.to
      BY <2>1 DEF Fine, Relabels
  <2> QED BY <2>1, <2>2
<1>6. Named(m, A, el, R)
  <2> SUFFICES ASSUME NEW i \in DOMAIN m.index, m.element[i] # NoElement, NEW own,
                      own = el[m.element[i]].name, own # m.index[i],
                      ~(m.index[i] \in A /\ own \in A)
               PROVE  \E x \in R : x.do \in {"rename", "relabel"} /\ x.name = m.index[i] /\ x.to = own
      BY DEF Named
  <2>1. PICK y \in S : y.do \in {"rename", "relabel"} /\ y.name = m.index[i] /\ y.to = own
      BY DEF Fine, Named
  <2> QED BY <2>1
<1>7. Born(el, R)
    BY DEF Fine, Born, Brings
<1> QED BY <1>2, <1>3, <1>4, <1>5, <1>6, <1>7 DEF Fine

\* What the other threads have still to change is as it was.
Undisturbed(th) ==
  \A o \in Thread \ {th} : \A j \in DOMAIN doing[o] :
    SameEntries(map[doing[o][j].on], map'[doing[o][j].on])

\* What a call has to do is about other names than what the others have to do.
Alone(th) == \A o \in Thread \ {th} : ~Overlap(doing'[th], doing[o])

(* No call has raced and none is stale after a step: then it was so before,  *)
(* what the others have still to change is as it was, and a call that starts *)
(* overlaps no other.                                                        *)
LEMMA Quiet ==
    ASSUME OnePlace, Watched, NEW th \in Thread, Call(th) \/ GoOn(th), Track(th),
           ~raced', stale' = {}
    PROVE  ~raced /\ stale = {} /\ Undisturbed(th) /\ (Idle(th) => Alone(th))
<1>1. \A o \in Thread \ {th} : doing'[o] = doing[o]
    BY Moves
<1>2. ~raced /\ th \notin stale
    BY DEF Track
<1>3. ASSUME NEW o \in stale PROVE FALSE
  <2>1. o \in Thread \ {th} /\ doing[o] # <<>>
      BY <1>2, <1>3 DEF Watched
  <2>2. o \in stale'
      BY <1>1, <1>3, <2>1 DEF Track
  <2> QED BY <2>2
<1>4. ASSUME NEW o \in Thread \ {th}, NEW j \in DOMAIN doing[o],
             ~SameEntries(map[doing[o][j].on], map'[doing[o][j].on])
      PROVE  FALSE
  <2>1. doing[o] # <<>>
      BY <1>4
  <2>2. doing'[o] # <<>>
      BY <1>1, <2>1
  <2>3. o \in stale'
      BY <1>4, <2>2 DEF Track
  <2> QED BY <2>3
<1>5. Idle(th) => Alone(th)
    BY DEF Track, Alone
<1> QED BY <1>2, <1>3, <1>4, <1>5 DEF Undisturbed

\* What a change has to be.
LEMMA ChangeFacts ==
    ASSUME NEW k \in Nat, NEW s \in Change(k)
    PROVE  /\ s.on \in Container /\ s.name \in Name /\ s.to \in Name
           /\ s.do \in {"create", "remove", "add", "insert", "rename", "relabel"}
           /\ s.do \in {"add", "insert"} => s.element \in (1..k) \union {NoElement}
           /\ s.do \in {"create", "remove"} => s.at \in Int
           /\ Brings(s) => s.element \in 1..k
BY DEF Change, Brings

\* The calls are under way with whole maps, and none is a refresh.
Entire == OnePlace /\ AllWhole /\ Calls(Len(elem))

\* What the maps and the calls have is of the elements created.
LEMMA AtHand ==
    ASSUME Entire
    PROVE  /\ db \in [Name -> {"none", "table", "view"}]
           /\ elem \in Seq(Object) /\ Len(elem) \in Nat /\ DOMAIN elem = 1..Len(elem)
           /\ Safe(map, doing, Gone, Len(elem))
           /\ doing \in [Thread -> Seq(Change(Len(elem)))]
           /\ map = [c \in Container |-> map[c]]
           /\ \A c \in Container : map[c] \in Map(Len(elem)) /\ Once(map[c])
           /\ \A c \in Container : \A i \in DOMAIN map[c].index :
                map[c].element[i] # NoElement => map[c].element[i] \in 1..Len(elem)
           /\ \A c \in Container : \A s \in On(c, doing) :
                s \in Change(Len(elem)) /\ s.on = c
<1>0. /\ db \in [Name -> {"none", "table", "view"}]
      /\ elem \in Seq(Object) /\ DOMAIN elem = 1..Len(elem)
      /\ Safe(map, doing, Gone, Len(elem)) /\ map = [c \in Container |-> map[c]]
      /\ \A c \in Container : Once(map[c])
    BY Parts DEF Entire
<1>1. /\ Len(elem) \in Nat /\ doing \in [Thread -> Seq(Change(Len(elem)))]
      /\ \A c \in Container : map[c] \in Map(Len(elem))
    BY Parts DEF Entire, Calls, AllWhole
<1>2. ASSUME NEW c \in Container, NEW i \in DOMAIN map[c].index, map[c].element[i] # NoElement
      PROVE  map[c].element[i] \in 1..Len(elem)
  <2>1. map[c] \in Map(Len(elem))
      BY <1>1
  <2>2. /\ DOMAIN map[c].index = 1..Len(map[c].index)
        /\ \A j \in 1..Len(map[c].index) : map[c].element[j] \in (1..Len(elem)) \union {NoElement}
      BY <1>1, <2>1, MapParts
  <2> QED BY <1>2, <2>2
<1>3. ASSUME NEW c \in Container, NEW s \in On(c, doing)
      PROVE  s \in Change(Len(elem)) /\ s.on = c
  <2>1. PICK th \in Thread : \E j \in DOMAIN doing[th] : s = doing[th][j] /\ s.on = c
      BY DEF On
  <2>2. doing[th] \in Seq(Change(Len(elem)))
      BY <1>1
  <2>3. PICK q : q = doing[th]
      OBVIOUS
  <2>4. \A j \in DOMAIN q : q[j] \in Change(Len(elem))
      BY <2>2, <2>3
  <2> QED BY <2>1, <2>3, <2>4
<1> QED BY <1>0, <1>1, <1>2, <1>3

\* Elements are created, the names of the others stay.
LEMMA FineOld ==
    ASSUME NEW k \in Nat, NEW m \in Map(k), NEW L, NEW A, NEW el, NEW S,
           Fine(m, L, A, el, S), \A s \in S : Brings(s) => s.element \in 1..k,
           NEW fl, \A e \in 1..k : fl[e].name = el[e].name
    PROVE  Fine(m, L, A, fl, S)
<1>0. /\ DOMAIN m.index = 1..Len(m.index)
      /\ \A i \in 1..Len(m.index) : m.element[i] \in (1..k) \union {NoElement}
    BY MapParts
<1>1. \A i \in DOMAIN m.index : m.element[i] # NoElement => m.element[i] \in 1..k
    BY <1>0
<1>2. \A i \in DOMAIN m.index : m.element[i] # NoElement =>
        fl[m.element[i]].name = el[m.element[i]].name
    BY <1>1
<1>3. \A s \in S : Brings(s) => fl[s.element].name = el[s.element].name
    OBVIOUS
<1> QED BY <1>2, <1>3, FineElements

(* A call goes on with the map of its change, all else stays.                *)
LEMMA GoesOn ==
    ASSUME Entire, Coherent, around = [c \in Container |-> around[c]],
           NEW th \in Thread, doing[th] # <<>>, NEW s, s = Head(doing[th]),
           doing' = [doing EXCEPT ![th] = Tail(doing[th])],
           UNCHANGED db, NEW m, map' = [map EXCEPT ![s.on] = m],
           NEW B, around' = [around EXCEPT ![s.on] = B],
           \A e \in 1..Len(elem) : elem'[e] = elem[e],
           Fine(m, Lists(s.on, db), B, elem', On(s.on, doing'))
    PROVE  Coherent'
<1>1. /\ Len(elem) \in Nat /\ doing \in [Thread -> Seq(Change(Len(elem)))]
      /\ \A c \in Container : map[c] \in Map(Len(elem))
      /\ map = [c \in Container |-> map[c]]
      /\ \A c \in Container : \A t \in On(c, doing) : t \in Change(Len(elem)) /\ t.on = c
    BY AtHand
<1>2. Apart(doing') /\ s \in On(s.on, doing) /\ \A c : c # s.on => On(c, doing') = On(c, doing)
  <2>1. PICK next : next = doing'
      OBVIOUS
  <2>2. Apart(doing) /\ next = [doing EXCEPT ![th] = Tail(doing[th])]
      BY <2>1 DEF Coherent
  <2>3. WentOn(doing, next, th, s)
      BY <1>1, <2>2, CallGoesOn
  <2> QED BY <2>1, <2>3 DEF WentOn
<1>3. ASSUME NEW c \in Container
      PROVE  Fine(map'[c], Lists(c, db'), around'[c], elem', On(c, doing'))
  <2>1. CASE c = s.on
      BY <1>1, <2>1
  <2>2. CASE c # s.on
    <3>1. map'[c] = map[c] /\ around'[c] = around[c] /\ On(c, doing') = On(c, doing) /\ db' = db
        BY <1>1, <1>2, <2>2
    <3>2. Fine(map[c], Lists(c, db), around[c], elem, On(c, doing))
        BY DEF Coherent
    <3>3. \A t \in On(c, doing) : Brings(t) => t.element \in 1..Len(elem)
        BY <1>1, ChangeFacts
    <3>4. PICK fl : fl = elem'
        OBVIOUS
    <3>5. \A e \in 1..Len(elem) : fl[e].name = elem[e].name
        BY <3>4
    <3>6. Fine(map[c], Lists(c, db), around[c], fl, On(c, doing))
      <4>1. map[c] \in Map(Len(elem)) /\ Len(elem) \in Nat
          BY <1>1
      <4> QED BY <4>1, <3>2, <3>3, <3>5, FineOld
    <3> QED BY <3>1, <3>4, <3>6
  <2> QED BY <2>1, <2>2
<1> QED BY <1>2, <1>3 DEF Coherent

\* When no other thread has to change the container that a call changes.
OnlyOne(th, s) == On(s.on, doing) = {s} /\ On(s.on, doing') = {}

(* The first change of a call, and what is left of it.                       *)
LEMMA FirstChange ==
    ASSUME Entire, Coherent, NEW th \in Thread, doing[th] # <<>>,
           NEW s, s = Head(doing[th]), doing' = [doing EXCEPT ![th] = Tail(doing[th])]
    PROVE  /\ s \in Change(Len(elem)) /\ s.on \in Container
           /\ s \in On(s.on, doing)
           /\ On(s.on, doing') \subseteq On(s.on, doing)
           /\ On(s.on, doing) \subseteq On(s.on, doing') \union {s}
           /\ \A t \in On(s.on, doing) : t = s \/ About(t) \cap About(s) = {}
           /\ Free(th, s.on) => OnlyOne(th, s)
           /\ Fine(map[s.on], Lists(s.on, db), around[s.on], elem, On(s.on, doing))
<1>1. /\ Len(elem) \in Nat /\ doing \in [Thread -> Seq(Change(Len(elem)))]
    BY AtHand
<1>2. /\ s \in On(s.on, doing)
      /\ On(s.on, doing') \subseteq On(s.on, doing)
      /\ On(s.on, doing) \subseteq On(s.on, doing') \union {s}
      /\ \A t \in On(s.on, doing) : t = s \/ About(t) \cap About(s) = {}
      /\ (\A o \in Thread \ {th} : \A j \in DOMAIN doing[o] : doing[o][j].on # s.on)
           => On(s.on, doing) = {s} /\ On(s.on, doing') = {}
  <2>1. PICK next : next = doing'
      OBVIOUS
  <2>2. Apart(doing) /\ next = [doing EXCEPT ![th] = Tail(doing[th])]
      BY <2>1 DEF Coherent
  <2>3. WentOn(doing, next, th, s)
      BY <1>1, <2>2, CallGoesOn
  <2> QED BY <2>1, <2>3 DEF WentOn
<1>3. s \in Change(Len(elem)) /\ s.on \in Container
  <2>1. PICK q : q = doing[th]
      OBVIOUS
  <2>2. q \in Seq(Change(Len(elem))) /\ q # <<>>
      BY <1>1, <2>1
  <2>3. Head(q) \in Change(Len(elem))
      BY <2>2
  <2> QED BY <1>1, <2>1, <2>3, ChangeFacts
<1> QED BY <1>2, <1>3 DEF Free, OnlyOne, Coherent

\* A map of which a step changes the names or the places is one that no other
\* thread has to change.
LEMMA ChangedIsFree ==
    ASSUME NEW th \in Thread, NEW c,
           Undisturbed(th), map'[c].names # map[c].names \/ map'[c].index # map[c].index
    PROVE  Free(th, c)
BY DEF Free, Undisturbed, SameEntries

\* The state before a step that nobody raced.
Good == Entire /\ Coherent /\ around = [c \in Container |-> around[c]]

\* A place looked up is the place of its name still.
LEMMA PlaceKept ==
    ASSUME Good, NEW th \in Thread, doing[th] # <<>>, NEW s, s = Head(doing[th]),
           doing' = [doing EXCEPT ![th] = Tail(doing[th])], s.do \in {"create", "remove"}
    PROVE  /\ s.name \in map[s.on].names /\ s.at = GetIndex(map[s.on], s.name)
           /\ s.at \in Int /\ InOrder(map[s.on], s.at) /\ NameNow(s) = s.name
<1>1. /\ s.on \in Container /\ s \in On(s.on, doing)
      /\ Fine(map[s.on], Lists(s.on, db), around[s.on], elem, On(s.on, doing))
    BY FirstChange DEF Good
<1>2. s.name \in map[s.on].names /\ s.at = GetIndex(map[s.on], s.name)
    BY <1>1 DEF Fine, AtPlaces
<1>3. map[s.on] \in Map(Len(elem)) /\ Len(elem) \in Nat
    BY <1>1, AtHand DEF Good
<1>4. /\ GetIndex(map[s.on], s.name) \in Int
      /\ InOrder(map[s.on], GetIndex(map[s.on], s.name))
      /\ GetName(map[s.on], GetIndex(map[s.on], s.name)) = s.name
    BY <1>2, <1>3, OrderFacts
<1> QED BY <1>2, <1>4 DEF NameNow

\* w is m with the element e at a slot of the name n.
PutAt(w, m, n, e) ==
  /\ SameEntries(m, w)
  /\ \E j \in 1..Len(m.index) :
       /\ m.index[j] = n
       /\ \A y \in 1..Len(m.index) : w.element[y] = IF y = j THEN e ELSE m.element[y]

(* An element is put at the place of a name.                                 *)
LEMMA SetAtPlace ==
    ASSUME NEW k \in Nat, NEW m \in Map(k), NEW n \in m.names, NEW i, i = GetIndex(m, n),
           NEW e \in (1..k) \union {NoElement}, NEW w, w = SetElement(m, i, e)
    PROVE  PutAt(w, m, n, e)
<1>1. i \in Int /\ InOrder(m, i) /\ GetName(m, i) = n
    BY OrderFacts
<1>2. PICK j : j = Slot(m, GetName(m, i))
    OBVIOUS
<1>3. /\ w.names = m.names /\ w.listed = m.listed /\ w.index = m.index
      /\ j \in 1..Len(m.index) /\ m.index[j] = GetName(m, i)
      /\ \A y \in 1..Len(m.index) : w.element[y] = IF y = j THEN e ELSE m.element[y]
    BY <1>1, <1>2, SetElementIs
<1> QED BY <1>1, <1>3 DEF PutAt, SameEntries

\* The element is one more than there were, or none.
LEMMA SetNewAtPlace ==
    ASSUME NEW k \in Nat, NEW m \in Map(k), NEW n \in m.names, NEW i, i = GetIndex(m, n),
           NEW x \in {k + 1, NoElement}, NEW w, w = SetElement(m, i, x)
    PROVE  PutAt(w, m, n, x)
<1>1. PICK p : p = k + 1
    OBVIOUS
<1>2. m \in AnyMap(k) /\ p \in Nat /\ k <= p
    BY <1>1 DEF Map
<1>3. m \in Map(p) /\ x \in (1..p) \union {NoElement}
    BY <1>1, <1>2, MapGrows
<1> QED BY <1>2, <1>3, SetAtPlace

(* An element is put at the place of a name that nobody renames: with that   *)
(* name, or none.                                                            *)
LEMMA FineSet ==
    ASSUME NEW k \in Nat, NEW m \in Map(k), NEW L, NEW A, NEW el, NEW S, Fine(m, L, A, el, S),
           \A s \in S : Brings(s) => s.element \in 1..k,
           NEW n \in m.names, \A s \in S : s.do \in {"rename", "relabel"} => s.name # n,
           NEW fl, \A e \in 1..k : fl[e].name = el[e].name,
           NEW x \in {k + 1, NoElement}, x # NoElement => fl[x].name = n
    PROVE  Fine(SetElement(m, GetIndex(m, n), x), L, A, fl, S)
<1>0. PICK i : i = GetIndex(m, n)
    OBVIOUS
<1>1. PICK w : w = SetElement(m, i, x)
    OBVIOUS
<1>3. PutAt(w, m, n, x)
    BY <1>0, <1>1, SetNewAtPlace
<1>4. /\ w.names = m.names /\ w.listed = m.listed /\ w.index = m.index
      /\ \E j \in 1..Len(m.index) : /\ m.index[j] = n
           /\ \A y \in 1..Len(m.index) : w.element[y] = IF y = j THEN x ELSE m.element[y]
    BY <1>3 DEF PutAt, SameEntries
<1>5. /\ DOMAIN m.index = 1..Len(m.index)
      /\ \A y \in 1..Len(m.index) : m.element[y] \in (1..k) \union {NoElement}
    BY MapParts
<1>6. ASSUME NEW y \in DOMAIN m.index, w.element[y] # NoElement
      PROVE  \/ w.element[y] = m.element[y] /\ fl[m.element[y]].name = el[m.element[y]].name
             \/ /\ fl[w.element[y]].name = m.index[y]
                /\ \A s \in S : s.do \in {"rename", "relabel"} => s.name # m.index[y]
  <2> PICK j \in 1..Len(m.index) :
             /\ m.index[j] = n
             /\ \A z \in 1..Len(m.index) : w.element[z] = IF z = j THEN x ELSE m.element[z]
      BY <1>4
  <2>1. CASE y = j
      BY <1>4, <1>5, <1>6, <2>1
  <2>2. CASE y # j
      BY <1>4, <1>5, <1>6, <2>2
  <2> QED BY <2>1, <2>2
<1>7. \A s \in S : Brings(s) => fl[s.element].name = el[s.element].name
    OBVIOUS
<1>8. Fine(w, L, A, fl, S)
    BY <1>4, <1>6, <1>7, FineElements
<1> QED BY <1>0, <1>1, <1>8

(* createElement() and setElement().                                         *)
LEMMA CreateCoherent ==
    ASSUME Good, NEW th \in Thread, Create(th)
    PROVE  Coherent'
<1>1. PICK k : k = Len(elem)
    OBVIOUS
<1>2. PICK s : s = Head(doing[th])
    OBVIOUS
<1>3. /\ doing[th] # <<>> /\ s.do = "create" /\ around' = around /\ db' = db
      /\ doing' = [doing EXCEPT ![th] = Tail(doing[th])]
    BY <1>2 DEF Create, Doing, Idle, Done
<1>4. /\ s.on \in Container /\ s \in On(s.on, doing)
      /\ On(s.on, doing') \subseteq On(s.on, doing)
      /\ On(s.on, doing) \subseteq On(s.on, doing') \union {s}
      /\ \A t \in On(s.on, doing) : t = s \/ About(t) \cap About(s) = {}
      /\ Fine(map[s.on], Lists(s.on, db), around[s.on], elem, On(s.on, doing))
    BY <1>2, <1>3, FirstChange DEF Good
<1>5. PICK n, m : n = s.name /\ m = map[s.on]
    OBVIOUS
<1>6. n \in m.names /\ s.at = GetIndex(m, n) /\ NameNow(s) = n
    BY <1>2, <1>3, <1>5, PlaceKept
<1>7. /\ k \in Nat /\ m \in Map(k) /\ elem \in Seq(Object)
      /\ \A t \in On(s.on, doing) : Brings(t) => t.element \in 1..k
    BY <1>1, <1>4, <1>5, AtHand, ChangeFacts, AtHand DEF Good
<1>8. PICK x : /\ x \in {k + 1, NoElement} /\ map' = [map EXCEPT ![s.on] = SetElement(m, s.at, x)]
               /\ x # NoElement => elem' = Append(elem, Loaded(s.on, n))
               /\ x = NoElement => UNCHANGED elem
  <2>1. NoElement # k + 1
      BY <1>7, NoElementAssumption
  <2> QED BY <1>1, <1>2, <1>5, <1>6, <2>1 DEF Create, NextElement
<1>9. PICK fl : fl = elem'
    OBVIOUS
<1>10. (\A e \in 1..k : fl[e] = elem[e]) /\ (x # NoElement => fl[x].name = n)
  <2>1. CASE x # NoElement
    <3>1. PICK o : o = Loaded(s.on, n)
        OBVIOUS
    <3>2. fl = Append(elem, o) /\ x = k + 1 /\ o.name = n
        BY <1>8, <1>9, <2>1, <3>1 DEF Loaded
    <3> QED BY <1>1, <1>7, <3>2
  <2>2. CASE x = NoElement
      BY <1>8, <1>9, <2>2
  <2> QED BY <2>1, <2>2
<1>11. Fine(SetElement(m, s.at, x), Lists(s.on, db), around[s.on], fl, On(s.on, doing))
  <2>1. \A t \in On(s.on, doing) : t.do \in {"rename", "relabel"} => t.name # n
      BY <1>3, <1>4, <1>5 DEF About
  <2>2. \A e \in 1..k : fl[e].name = elem[e].name
      BY <1>10
  <2>3. Fine(m, Lists(s.on, db), around[s.on], elem, On(s.on, doing))
      BY <1>4, <1>5
  <2>4. x # NoElement => fl[x].name = n
      BY <1>10
  <2>5. PICK i : i = GetIndex(m, n)
      OBVIOUS
  <2>6. PICK L, A, S : L = Lists(s.on, db) /\ A = around[s.on] /\ S = On(s.on, doing)
      OBVIOUS
  <2>7. Fine(SetElement(m, GetIndex(m, n), x), L, A, fl, S)
    <3>1. Fine(m, L, A, elem, S) /\ n \in m.names /\ x \in {k + 1, NoElement}
        BY <1>6, <1>8, <2>3, <2>6
    <3>2. (\A t \in S : t.do \in {"rename", "relabel"} => t.name # n) /\ (\A t \in S : Brings(t) => t.element \in 1..k)
        BY <1>7, <2>1, <2>6
    <3> QED BY <1>7, <2>2, <2>4, <3>1, <3>2, FineSet
  <2> QED BY <1>6, <2>6, <2>7
<1>12. Fine(SetElement(m, s.at, x), Lists(s.on, db), around[s.on], fl, On(s.on, doing'))
    BY <1>3, <1>4, <1>11, FineEnds
<1>13. around' = [around EXCEPT ![s.on] = around[s.on]]
    BY <1>3, <1>4 DEF Good
<1>14. PICK w, B : w = SetElement(m, s.at, x) /\ B = around[s.on]
    OBVIOUS
<1>15. /\ map' = [map EXCEPT ![s.on] = w] /\ around' = [around EXCEPT ![s.on] = B]
       /\ \A e \in 1..Len(elem) : elem'[e] = elem[e]
       /\ Fine(w, Lists(s.on, db), B, elem', On(s.on, doing'))
    BY <1>1, <1>8, <1>9, <1>10, <1>12, <1>13, <1>14
<1>16. Entire /\ Coherent /\ around = [c \in Container |-> around[c]]
    BY DEF Good
<1>17. s = Head(doing[th]) /\ doing[th] # <<>> /\ UNCHANGED db
    BY <1>2, <1>3
<1>18. doing' = [doing EXCEPT ![th] = Tail(doing[th])]
    BY <1>3
<1> QED BY <1>15, <1>16, <1>17, <1>18, GoesOn

(* removeContainerElement(): no other call is about the container, whose     *)
(* names change.                                                             *)
LEMMA TakenCoherent ==
    ASSUME Good, NEW th \in Thread, Undisturbed(th), doing[th] # <<>>,
           NEW s, s = Head(doing[th]), doing' = [doing EXCEPT ![th] = Tail(doing[th])],
           s.do \in {"create", "remove"}, UNCHANGED <<db, elem>>,
           map' = [map EXCEPT ![s.on] = RemoveElement(map[s.on], s.at)],
           NEW B, around' = [around EXCEPT ![s.on] = B], around[s.on] \subseteq B,
           s.do = "remove" \/ s.name \in B
    PROVE  Coherent'
<1>0. Entire /\ Coherent /\ around = [c \in Container |-> around[c]]
    BY DEF Good
<1>1. PICK m, w : m = map[s.on] /\ w = RemoveElement(map[s.on], s.at)
    OBVIOUS
<1>2. /\ s.on \in Container /\ (Free(th, s.on) => OnlyOne(th, s))
      /\ Fine(m, Lists(s.on, db), around[s.on], elem, On(s.on, doing))
    BY <1>0, <1>1, FirstChange
<1>3. /\ s.name \in m.names /\ s.at \in Int /\ InOrder(m, s.at) /\ GetName(m, s.at) = s.name
    BY <1>1, PlaceKept DEF NameNow
<1>4. m \in Map(Len(elem)) /\ Len(elem) \in Nat /\ map = [c \in Container |-> map[c]]
    BY <1>0, <1>1, <1>2, AtHand
<1>5. w.names = m.names \ {s.name}
  <2>1. PICK i : i = s.at
      OBVIOUS
  <2>2. i \in Int /\ InOrder(m, i) /\ GetName(m, i) = s.name /\ w = RemoveElement(m, i)
      BY <1>1, <1>3, <2>1
  <2> QED BY <1>4, <2>2, RemoveElementIs
<1>6. map'[s.on] = w
    BY <1>1, <1>2, <1>4
<1>7. Free(th, s.on)
  <2>1. map'[s.on].names # map[s.on].names
      BY <1>1, <1>3, <1>5, <1>6
  <2> QED BY <2>1, ChangedIsFree
<1>8. On(s.on, doing) = {s} /\ On(s.on, doing') = {}
    BY <1>2, <1>7 DEF OnlyOne
<1>9. Fine(w, Lists(s.on, db), B, elem, {})
  <2>1. Fine(m, Lists(s.on, db), around[s.on], elem, {s})
      BY <1>2, <1>8
  <2> QED BY <1>1, <1>4, <2>1, FineTaken
<1>10. /\ map' = [map EXCEPT ![s.on] = w]
       /\ \A e \in 1..Len(elem) : elem'[e] = elem[e]
       /\ Fine(w, Lists(s.on, db), B, elem', On(s.on, doing'))
    BY <1>1, <1>8, <1>9
<1> QED BY <1>0, <1>10, GoesOn

\* The database cannot be read.
LEMMA CreateFailsCoherent ==
    ASSUME Good, NEW th \in Thread, Undisturbed(th), CreateFails(th)
    PROVE  Coherent'
<1>1. PICK s : s = Head(doing[th])
    OBVIOUS
<1>2. /\ doing[th] # <<>> /\ s.do = "create" /\ UNCHANGED <<db, elem>>
      /\ doing' = [doing EXCEPT ![th] = Tail(doing[th])]
      /\ map' = [map EXCEPT ![s.on] = RemoveElement(map[s.on], s.at)]
      /\ around' = [around EXCEPT ![s.on] = around[s.on] \union {NameNow(s)}]
    BY <1>1 DEF CreateFails, Doing, Idle, Done, TakenOut
<1>3. NameNow(s) = s.name
    BY <1>1, <1>2, PlaceKept
<1>4. PICK B : B = around[s.on] \union {s.name}
    OBVIOUS
<1>5. around' = [around EXCEPT ![s.on] = B] /\ around[s.on] \subseteq B /\ s.name \in B
    BY <1>2, <1>3, <1>4
<1> QED BY <1>1, <1>2, <1>5, TakenCoherent

\* The place of what was dropped.
LEMMA TakeOutCoherent ==
    ASSUME Good, NEW th \in Thread, Undisturbed(th), TakeOut(th)
    PROVE  Coherent'
<1>1. PICK s : s = Head(doing[th])
    OBVIOUS
<1>2. /\ doing[th] # <<>> /\ s.do = "remove" /\ UNCHANGED <<db, elem>> /\ around' = around
      /\ doing' = [doing EXCEPT ![th] = Tail(doing[th])]
      /\ map' = [map EXCEPT ![s.on] = RemoveElement(map[s.on], s.at)]
    BY <1>1 DEF TakeOut, Doing, Idle, Done, TakenOut
<1>3. s.on \in Container
    BY <1>1, <1>2, FirstChange DEF Good
<1>4. PICK B : B = around[s.on]
    OBVIOUS
<1>5. around' = [around EXCEPT ![s.on] = B] /\ around[s.on] \subseteq B
    BY <1>2, <1>3, <1>4 DEF Good
<1> QED BY <1>1, <1>2, <1>5, TakenCoherent

\* The place of a name is never gone.
LEMMA ThrowCoherent ==
    ASSUME Good, NEW th \in Thread, Throw(th)
    PROVE  FALSE
<1>1. PICK s : s = Head(doing[th])
    OBVIOUS
<1>2. /\ doing[th] # <<>> /\ s.do \in {"create", "remove"} /\ ~Reaches(map[s.on], s.at)
    BY <1>1 DEF Throw, Doing, Idle
<1>3. PICK q : q = doing[th]
    OBVIOUS
<1>4. q \in Seq(Change(Len(elem))) /\ q # <<>> /\ s = Head(q)
    BY <1>1, <1>2, <1>3, AtHand DEF Good
<1>5. 1 \in DOMAIN q /\ q[1] = s /\ s \in Change(Len(elem))
    BY <1>4
<1>6. s \in On(s.on, doing) /\ s.on \in Container
  <2>1. Len(elem) \in Nat
      BY AtHand DEF Good
  <2>2. s.on \in Container
      BY <1>5, <2>1, ChangeFacts
  <2>3. 1 \in DOMAIN doing[th] /\ s = doing[th][1]
      BY <1>3, <1>5
  <2> QED BY <2>2, <2>3, OnFacts
<1>7. Fine(map[s.on], Lists(s.on, db), around[s.on], elem, On(s.on, doing))
    BY <1>6 DEF Good, Coherent
<1>8. s.name \in map[s.on].names /\ s.at = GetIndex(map[s.on], s.name)
    BY <1>2, <1>6, <1>7 DEF Fine, AtPlaces
<1>9. map[s.on] \in Map(Len(elem)) /\ Len(elem) \in Nat
    BY <1>6, AtHand DEF Good
<1> QED BY <1>2, <1>8, <1>9, OrderFacts

(* A call tests a change and has still to make it: all else stays.           *)
LEMMA TestCoherent ==
    ASSUME Good, NEW th \in Thread, doing[th] # <<>>, NEW s, s = Head(doing[th]),
           NEW what, \/ s.do = "insert" /\ what = "add"
                     \/ s.do = "rename" /\ what = "relabel",
           doing' = [doing EXCEPT ![th][1].do = what], UNCHANGED <<db, map, elem, around>>
    PROVE  Coherent'
<1>1. /\ Len(elem) \in Nat /\ doing \in [Thread -> Seq(Change(Len(elem)))]
      /\ \A c \in Container : \A t \in On(c, doing) : t.on = c
    BY AtHand DEF Good
<1>2. PICK q : q = doing[th]
    OBVIOUS
<1>3. q \in Seq(Change(Len(elem))) /\ q # <<>> /\ s = Head(q)
    BY <1>1, <1>2
<1>4. 1 \in DOMAIN q /\ q[1] = s /\ s \in Change(Len(elem))
    BY <1>3
<1>5. PICK t : t = [s EXCEPT !.do = what]
    OBVIOUS
<1>6. /\ t.on = s.on /\ t.name = s.name /\ t.to = s.to /\ t.do = what
      /\ s.do = "insert" => t.element = s.element
    BY <1>4, <1>5 DEF Change
<1>7. PICK next : next = doing'
    OBVIOUS
<1>8. next = [doing EXCEPT ![th] = [doing[th] EXCEPT ![1] = t]]
    BY <1>2, <1>4, <1>5, <1>7
<1>9. Apart(doing) /\ (s.do \in {"rename", "relabel"} => t.do \in {"rename", "relabel"})
    BY <1>6 DEF Good, Coherent
<1>10. TestedOne(doing, next, s, t)
    BY <1>1, <1>6, <1>8, <1>9, CallTests
<1>11. /\ Apart(next) /\ s \in On(s.on, doing) /\ t \in On(s.on, next)
       /\ \A c : c # s.on => On(c, next) = On(c, doing)
       /\ \A x \in On(s.on, next) : x = t \/ x \in On(s.on, doing)
       /\ \A x \in On(s.on, doing) : x = s \/ x \in On(s.on, next)
    BY <1>10 DEF TestedOne
<1>12. ASSUME NEW c \in Container
       PROVE  Fine(map[c], Lists(c, db), around[c], elem, On(c, next))
  <2>1. Fine(map[c], Lists(c, db), around[c], elem, On(c, doing))
      BY DEF Good, Coherent
  <2>2. CASE c # s.on
    <3>1. On(c, next) = On(c, doing)
        BY <1>11, <2>2
    <3> QED BY <2>1, <3>1
  <2>3. CASE c = s.on
    <3>1. PICK S, R : S = On(c, doing) /\ R = On(c, next)
        OBVIOUS
    <3>2. s \in S /\ t \in R /\ (\A x \in R : x = t \/ x \in S) /\ (\A x \in S : x = s \/ x \in R)
        BY <1>11, <2>3, <3>1
    <3>3. PICK L, A, m : L = Lists(c, db) /\ A = around[c] /\ m = map[c]
        OBVIOUS
    <3>4. Fine(m, L, A, elem, S)
        BY <2>1, <3>1, <3>3
    <3>5. Fine(m, L, A, elem, R)
        BY <1>6, <3>2, <3>4, FineTested
    <3> QED BY <3>1, <3>3, <3>5
  <2> QED BY <2>2, <2>3
<1> QED BY <1>7, <1>11, <1>12 DEF Coherent

(* A call has nothing to change: that was done behind the container's back.  *)
LEMMA SkipCoherent ==
    ASSUME Good, NEW th \in Thread, doing[th] # <<>>, NEW s, s = Head(doing[th]),
           s.do \in {"insert", "rename"}, s.name \in around[s.on], s.to \in around[s.on],
           doing' = [doing EXCEPT ![th] = Tail(doing[th])], UNCHANGED <<db, map, elem, around>>
    PROVE  Coherent'
<1>0. Entire /\ Coherent /\ around = [c \in Container |-> around[c]]
    BY DEF Good
<1>1. /\ s \in Change(Len(elem)) /\ s.on \in Container /\ s \in On(s.on, doing)
      /\ On(s.on, doing') \subseteq On(s.on, doing)
      /\ On(s.on, doing) \subseteq On(s.on, doing') \union {s}
      /\ Fine(map[s.on], Lists(s.on, db), around[s.on], elem, On(s.on, doing))
    BY <1>0, FirstChange
<1>2. PICK m, B, L : m = map[s.on] /\ B = around[s.on] /\ L = Lists(s.on, db)
    OBVIOUS
<1>4. PICK S, T : S = On(s.on, doing) /\ T = On(s.on, doing')
    OBVIOUS
<1>5. Fine(m, L, B, elem, S) /\ s \in S /\ T \subseteq S /\ S \subseteq T \union {s}
    BY <1>1, <1>2, <1>4
<1>6. s.name \in B /\ s.to \in B /\ s.do \in {"add", "insert", "create", "rename"}
    BY <1>2
<1>7. Fine(m, L, B, elem, T)
    BY <1>5, <1>6, FineEnds
<1>8. Apart(doing') /\ \A c : c # s.on => On(c, doing') = On(c, doing)
  <2>1. Len(elem) \in Nat /\ doing \in [Thread -> Seq(Change(Len(elem)))]
      BY <1>0, AtHand
  <2>2. PICK next : next = doing'
      OBVIOUS
  <2>3. Apart(doing) /\ next = [doing EXCEPT ![th] = Tail(doing[th])]
      BY <1>0, <2>2 DEF Coherent
  <2>4. WentOn(doing, next, th, s)
      BY <2>1, <2>3, CallGoesOn
  <2> QED BY <2>2, <2>4 DEF WentOn
<1>9. ASSUME NEW c \in Container
      PROVE  Fine(map[c], Lists(c, db), around[c], elem, On(c, doing'))
  <2>1. CASE c = s.on
      BY <1>2, <1>4, <1>7, <2>1
  <2>2. CASE c # s.on
    <3>1. Fine(map[c], Lists(c, db), around[c], elem, On(c, doing))
        BY <1>0 DEF Coherent
    <3>2. On(c, doing') = On(c, doing)
        BY <1>8, <2>2
    <3> QED BY <3>1, <3>2
  <2> QED BY <2>1, <2>2
<1> QED BY <1>8, <1>9 DEF Coherent

(* insertElement(): a view is among the tables already only when that was     *)
(* done behind their back.                                                   *)
LEMMA InsertCoherent ==
    ASSUME Good, NEW th \in Thread, Insert(th)
    PROVE  Coherent'
<1>0. Entire /\ Coherent /\ around = [c \in Container |-> around[c]]
    BY DEF Good
<1>1. PICK s : s = Head(doing[th])
    OBVIOUS
<1>2. /\ doing[th] # <<>> /\ s.do = "insert" /\ UNCHANGED <<db, map, elem, around>>
      /\ IF HasByName(map[s.on], s.name) THEN doing' = [doing EXCEPT ![th] = Tail(doing[th])]
         ELSE doing' = [doing EXCEPT ![th][1].do = "add"]
    BY <1>1 DEF Insert, Doing, Idle, Done, GoesOnTo
<1>3. CASE ~HasByName(map[s.on], s.name)
    BY <1>1, <1>2, <1>3, TestCoherent
<1>4. CASE HasByName(map[s.on], s.name)
  <2>1. doing' = [doing EXCEPT ![th] = Tail(doing[th])]
      BY <1>2, <1>4
  <2>2. /\ s \in Change(Len(elem)) /\ s.on \in Container /\ s \in On(s.on, doing)
        /\ \A t \in On(s.on, doing) : t = s \/ About(t) \cap About(s) = {}
        /\ Fine(map[s.on], Lists(s.on, db), around[s.on], elem, On(s.on, doing))
      BY <1>0, <1>1, <1>2, <2>1, FirstChange
  <2>3. s.to = s.name
    <3>1. PICK q : q = doing[th]
        OBVIOUS
    <3>2. q \in Seq(Change(Len(elem))) /\ q # <<>> /\ s = Head(q)
        BY <1>0, <1>1, <1>2, <3>1, AtHand
    <3>3. 1 \in DOMAIN q /\ q[1] = s
        BY <3>2
    <3> QED BY <1>0, <1>2, <3>1, <3>3 DEF Coherent, Apart
  <2>4. Coming(On(s.on, doing), s.name)
      BY <1>2, <2>2 DEF Coming
  <2>5. ~Leaving(On(s.on, doing), s.name)
      BY <1>2, <2>2 DEF Leaving, About
  <2>6. s.name \in Name
    <3>1. Len(elem) \in Nat
        BY <1>0, AtHand
    <3> QED BY <2>2, <3>1, ChangeFacts
  <2>7. s.name \in around[s.on]
      BY <1>4, <2>2, <2>4, <2>5, <2>6 DEF Fine, Listed, HasByName
  <2> QED BY <1>1, <1>2, <2>1, <2>3, <2>7, SkipCoherent
<1> QED BY <1>3, <1>4

(* addElement().                                                             *)
LEMMA AddCoherent ==
    ASSUME Good, NEW th \in Thread, Undisturbed(th), Add(th)
    PROVE  Coherent'
<1>0. Entire /\ Coherent /\ around = [c \in Container |-> around[c]]
    BY DEF Good
<1>1. PICK s : s = Head(doing[th])
    OBVIOUS
<1>2. /\ doing[th] # <<>> /\ s.do = "add" /\ UNCHANGED <<db, elem, around>>
      /\ doing' = [doing EXCEPT ![th] = Tail(doing[th])]
      /\ map' = [map EXCEPT ![s.on] = AddElement(map[s.on], s.name, s.element)]
    BY <1>1 DEF Add, Doing, Idle, Done
<1>9. doing[th] # <<>> /\ UNCHANGED db /\ doing' = [doing EXCEPT ![th] = Tail(doing[th])]
    BY <1>2
<1>3. /\ s \in Change(Len(elem)) /\ s.on \in Container
      /\ Free(th, s.on) => OnlyOne(th, s)
      /\ Fine(map[s.on], Lists(s.on, db), around[s.on], elem, On(s.on, doing))
    BY <1>0, <1>1, <1>2, FirstChange
<1>4. PICK m, B, L : m = map[s.on] /\ B = around[s.on] /\ L = Lists(s.on, db)
    OBVIOUS
<1>5. /\ m \in Map(Len(elem)) /\ Len(elem) \in Nat /\ map = [c \in Container |-> map[c]]
      /\ s.name \in Name /\ s.element \in (1..Len(elem)) \union {NoElement}
    BY <1>0, <1>2, <1>3, <1>4, AtHand, ChangeFacts
<1>6. around' = [around EXCEPT ![s.on] = B]
    BY <1>0, <1>2, <1>3, <1>4
<1>7. PICK w : w = AddElement(m, s.name, s.element)
    OBVIOUS
<1>8. map' = [map EXCEPT ![s.on] = w]
    BY <1>2, <1>4, <1>7
<1>10. Free(th, s.on)
  <2>1. map'[s.on] = w
      BY <1>3, <1>5, <1>8
  <2>2. Extended(w, m, s.name, s.element)
      BY <1>5, <1>7, AddElementIs
  <2>3. DOMAIN w.index = 1..(Len(m.index) + 1) /\ DOMAIN m.index = 1..Len(m.index)
        /\ Len(m.index) \in Nat
      BY <1>5, <2>2, MapParts DEF Extended
  <2>4. w.index # m.index
    <3>1. Len(m.index) + 1 \in DOMAIN w.index /\ Len(m.index) + 1 \notin DOMAIN m.index
        BY <2>3
    <3> QED BY <3>1
  <2>5. map'[s.on].index # map[s.on].index
      BY <1>4, <2>1, <2>4
  <2> QED BY <2>5, ChangedIsFree
<1>11. On(s.on, doing) = {s} /\ On(s.on, doing') = {}
    BY <1>3, <1>10 DEF OnlyOne
<1>12. Fine(m, L, B, elem, {s})
    BY <1>3, <1>4, <1>11
<1>13. Fine(w, L, B, elem, {})
    BY <1>2, <1>5, <1>7, <1>12, FineAdded
<1>14. /\ \A e \in 1..Len(elem) : elem'[e] = elem[e]
       /\ Fine(w, Lists(s.on, db), B, elem', On(s.on, doing'))
    BY <1>2, <1>4, <1>11, <1>13
<1> QED BY <1>0, <1>1, <1>6, <1>8, <1>9, <1>14, GoesOn

(* replaceElement(); the entry is gone only when that was done behind the     *)
(* container's back.                                                         *)
LEMMA ReplaceCoherent ==
    ASSUME Good, NEW th \in Thread, Replace(th)
    PROVE  Coherent'
<1>0. Entire /\ Coherent /\ around = [c \in Container |-> around[c]]
    BY DEF Good
<1>1. PICK s : s = Head(doing[th])
    OBVIOUS
<1>2. /\ doing[th] # <<>> /\ s.do = "rename" /\ UNCHANGED <<db, map, elem, around>>
      /\ IF s.to # s.name /\ HasByName(map[s.on], s.name)
         THEN doing' = [doing EXCEPT ![th][1].do = "relabel"]
         ELSE doing' = [doing EXCEPT ![th] = Tail(doing[th])]
    BY <1>1 DEF Replace, Doing, Idle, Done, GoesOnTo
<1>3. CASE s.to # s.name /\ HasByName(map[s.on], s.name)
    BY <1>1, <1>2, <1>3, TestCoherent
<1>4. CASE ~(s.to # s.name /\ HasByName(map[s.on], s.name))
  <2>1. doing' = [doing EXCEPT ![th] = Tail(doing[th])]
      BY <1>2, <1>4
  <2>2. /\ s.on \in Container /\ s \in On(s.on, doing)
        /\ Fine(map[s.on], Lists(s.on, db), around[s.on], elem, On(s.on, doing))
      BY <1>0, <1>1, <1>2, <2>1, FirstChange
  <2>3. s.name \in around[s.on] /\ s.to \in around[s.on]
      BY <1>2, <1>4, <2>2 DEF Fine, Relabels, HasByName
  <2> QED BY <1>1, <1>2, <2>1, <2>3, SkipCoherent
<1> QED BY <1>3, <1>4

(* renameElement() of a name that is there.                                  *)
LEMMA RelabelCoherent ==
    ASSUME Good, NEW th \in Thread, Undisturbed(th), Relabel(th),
           HasByName(map[Head(doing[th]).on], Head(doing[th]).name)
    PROVE  Coherent'
<1>0. Entire /\ Coherent /\ around = [c \in Container |-> around[c]]
    BY DEF Good
<1>1. PICK s : s = Head(doing[th])
    OBVIOUS
<1>2. /\ doing[th] # <<>> /\ s.do = "relabel" /\ UNCHANGED <<db, elem, around>>
      /\ map' = [map EXCEPT ![s.on] = RenameElement(map[s.on], s.name, s.to)]
      /\ IF HasSlot(map[s.on], s.name) THEN doing' = [doing EXCEPT ![th] = Tail(doing[th])]
         ELSE doing' = [doing EXCEPT ![th] = <<>>]
    BY <1>1 DEF Relabel, Doing, Idle, Done, Ends
<1>3. s \in Change(Len(elem)) /\ s.on \in Container
  <2>1. PICK q : q = doing[th]
      OBVIOUS
  <2>2. q \in Seq(Change(Len(elem))) /\ q # <<>> /\ s = Head(q) /\ Len(elem) \in Nat
      BY <1>0, <1>1, <1>2, <2>1, AtHand
  <2>3. s \in Change(Len(elem))
      BY <2>2
  <2> QED BY <2>2, <2>3, ChangeFacts
<1>4. PICK m, B, L : m = map[s.on] /\ B = around[s.on] /\ L = Lists(s.on, db)
    OBVIOUS
<1>5. /\ m \in Map(Len(elem)) /\ Len(elem) \in Nat /\ map = [c \in Container |-> map[c]]
      /\ s.name \in Name /\ s.to \in Name /\ s.name \in m.names
    BY <1>0, <1>1, <1>3, <1>4, AtHand, ChangeFacts DEF HasByName
<1>6. doing' = [doing EXCEPT ![th] = Tail(doing[th])]
  <2>1. HasSlot(m, s.name)
      BY <1>5 DEF Map
  <2> QED BY <1>2, <1>4, <2>1
<1>7. /\ s \in On(s.on, doing)
      /\ On(s.on, doing') \subseteq On(s.on, doing)
      /\ On(s.on, doing) \subseteq On(s.on, doing') \union {s}
      /\ Free(th, s.on) => OnlyOne(th, s)
      /\ Fine(map[s.on], Lists(s.on, db), around[s.on], elem, On(s.on, doing))
    BY <1>0, <1>1, <1>2, <1>6, FirstChange
<1>8. around' = [around EXCEPT ![s.on] = B]
    BY <1>0, <1>2, <1>3, <1>4
<1>9. PICK w : w = RenameElement(m, s.name, s.to)
    OBVIOUS
<1>10. map' = [map EXCEPT ![s.on] = w] /\ map'[s.on] = w
    BY <1>2, <1>3, <1>4, <1>5, <1>9
<1>11. PICK g : g = Slot(m, s.name)
    OBVIOUS
<1>12. /\ w.names = (m.names \ {s.name}) \union {s.to} /\ w.element = m.element
       /\ g \in 1..Len(m.index) /\ m.index[g] = s.name /\ DOMAIN w.index = 1..Len(m.index)
       /\ \A x \in 1..Len(m.index) : w.index[x] = IF x = g THEN s.to ELSE m.index[x]
    BY <1>5, <1>9, <1>11, RenameElementIs
<1>13. Fine(w, L, B, elem, On(s.on, doing'))
  <2>1. CASE s.name # s.to
    <3>1. map'[s.on].names # map[s.on].names
        BY <1>4, <1>5, <1>10, <1>12, <2>1
    <3>2. On(s.on, doing) = {s} /\ On(s.on, doing') = {}
        BY <1>7, <3>1, ChangedIsFree DEF OnlyOne
    <3>3. Fine(m, L, B, elem, {s})
        BY <1>4, <1>7, <3>2
    <3>4. Fine(w, L, B, elem, {})
        BY <1>2, <1>5, <1>9, <2>1, <3>3, FineRelabelled
    <3> QED BY <3>2, <3>4
  <2>2. CASE s.name = s.to
    <3>2. s.name \in B /\ s.to \in B
        BY <1>2, <1>4, <1>7, <2>2 DEF Fine, Relabels
    <3>3. w \in Map(Len(elem))
        BY <1>5, <1>9, RenameElementIs
    <3>4. w.names = m.names /\ w.listed = m.listed
      <4>1. w.names = m.names
          BY <1>5, <1>12, <2>2
      <4> QED BY <1>5, <3>3, <4>1, MapParts
    <3>5. w.index = m.index
      <4>1. w.index \in Seq(Name) /\ m.index \in Seq(Name) /\ DOMAIN m.index = 1..Len(m.index)
          BY <1>5, <3>3, MapParts
      <4>2. DOMAIN w.index = DOMAIN m.index /\ \A x \in DOMAIN m.index : w.index[x] = m.index[x]
          BY <1>12, <2>2, <4>1
      <4> QED BY <4>1, <4>2
    <3>6. Fine(m, L, B, elem, On(s.on, doing))
        BY <1>4, <1>7
    <3>7. Fine(w, L, B, elem, On(s.on, doing))
        BY <1>12, <3>4, <3>5, <3>6, FineElements
    <3>8. PICK S, T : S = On(s.on, doing) /\ T = On(s.on, doing')
        OBVIOUS
    <3>9. Fine(w, L, B, elem, T)
        BY <1>2, <1>7, <3>2, <3>7, <3>8, FineEnds
    <3> QED BY <3>8, <3>9
  <2> QED BY <2>1, <2>2
<1>14. /\ \A e \in 1..Len(elem) : elem'[e] = elem[e]
       /\ Fine(w, Lists(s.on, db), B, elem', On(s.on, doing'))
    BY <1>2, <1>4, <1>13
<1>15. map' = [map EXCEPT ![s.on] = w]
    BY <1>10
<1>16. doing[th] # <<>> /\ s = Head(doing[th]) /\ UNCHANGED db
    BY <1>1, <1>2
<1> QED BY <1>0, <1>6, <1>8, <1>14, <1>15, <1>16, GoesOn
\* The changes of one call are of different containers, only a rename has a second
\* name.
Separate(steps) ==
  /\ \A j, h \in DOMAIN steps : steps[j].on = steps[h].on => j = h
  /\ \A j \in DOMAIN steps : steps[j].do \notin {"rename", "relabel"} => steps[j].to = steps[j].name

\* Two calls that do not overlap are about different names.
LEMMA OtherNames ==
    ASSUME NEW th \in Thread, Alone(th)
    PROVE  \A o \in Thread \ {th} : NamesOf(doing'[th]) \cap NamesOf(doing[o]) = {}
<1> SUFFICES ASSUME NEW o \in Thread \ {th}
             PROVE  NamesOf(doing'[th]) \cap NamesOf(doing[o]) = {}
    OBVIOUS
<1>1. NamesOf(<<>>) = {}
    BY DEF NamesOf
<1>2. PICK p, q : p = doing'[th] /\ q = doing[o]
    OBVIOUS
<1>3. ~Overlap(p, q)
    BY <1>2 DEF Alone
<1>4. NamesOf(p) \cap NamesOf(q) = {}
    BY <1>1, <1>3 DEF Overlap
<1> QED BY <1>2, <1>4

\* A call starts.
LEMMA StartsNew ==
    ASSUME Good, NEW th \in Thread, NEW steps, Start(th, steps), Alone(th), Separate(steps)
    PROVE  Started(doing, doing', steps)
<1>1. doing = [o \in Thread |-> doing[o]]
  <2>1. doing \in [Thread -> Seq(Change(Len(elem)))]
      BY AtHand DEF Good
  <2> QED BY <2>1
<1>2. PICK next : next = doing'
    OBVIOUS
<1>3. Apart(doing) /\ doing[th] = <<>> /\ next = [doing EXCEPT ![th] = steps]
    BY <1>2 DEF Good, Coherent, Start, Idle
<1>4. /\ \A o \in Thread \ {th} : NamesOf(steps) \cap NamesOf(doing[o]) = {}
      /\ \A j, h \in DOMAIN steps : steps[j].on = steps[h].on => j = h
      /\ \A j \in DOMAIN steps : steps[j].do \notin {"rename", "relabel"} => steps[j].to = steps[j].name
  <2>1. doing'[th] = steps
      BY <1>1, <1>3, <1>2
  <2>2. \A o \in Thread \ {th} : NamesOf(steps) \cap NamesOf(doing[o]) = {}
      BY <2>1, OtherNames
  <2> QED BY <2>2 DEF Separate
<1>5. Started(doing, next, steps)
    BY <1>1, <1>3, <1>4, CallStarts
<1> QED BY <1>2, <1>5

\* A call that changes one container.
OneMore(s) ==
  /\ Apart(doing')
  /\ \A c : \A t \in On(c, doing) : About(t) \cap About(s) = {}
  /\ \A c : On(c, doing') = IF s.on = c THEN On(c, doing) \union {s} ELSE On(c, doing)

(* It has one change to make.                                               *)
LEMMA StartsOne ==
    ASSUME Good, NEW th \in Thread, NEW s, Start(th, <<s>>), Alone(th),
           s.do \notin {"rename", "relabel"} => s.to = s.name
    PROVE  OneMore(s)
<1>1. PICK steps : steps = <<s>>
    OBVIOUS
<1>2. DOMAIN steps = {1} /\ steps[1] = s
    BY <1>1
<1>3. Separate(steps)
    BY <1>1, <1>2 DEF Separate
<1>4. Started(doing, doing', steps)
    BY <1>1, <1>3, StartsNew
<1>5. {steps[j] : j \in DOMAIN steps} = {s}
    BY <1>2
<1>6. \A c : On(c, doing') = On(c, doing) \union {x \in {s} : x.on = c}
    BY <1>4, <1>5 DEF Started
<1>7. \A c : On(c, doing') = IF s.on = c THEN On(c, doing) \union {s} ELSE On(c, doing)
    BY <1>6
<1> QED BY <1>2, <1>4, <1>7 DEF Started, OneMore

\* A call that changes both.
TwoMore(s, t) ==
  /\ Apart(doing')
  /\ \A c : \A x \in On(c, doing) : About(x) \cap About(s) = {} /\ About(x) \cap About(t) = {}
  /\ On(s.on, doing') = On(s.on, doing) \union {s}
  /\ On(t.on, doing') = On(t.on, doing) \union {t}

(* It has two changes to make.                                              *)
LEMMA StartsTwo ==
    ASSUME Good, NEW th \in Thread, NEW s, NEW t, Start(th, <<s, t>>), s.on # t.on, Alone(th),
           s.do \notin {"rename", "relabel"} => s.to = s.name, t.do \notin {"rename", "relabel"} => t.to = t.name
    PROVE  TwoMore(s, t)
<1>1. PICK steps : steps = <<s, t>>
    OBVIOUS
<1>2. DOMAIN steps = {1, 2} /\ steps[1] = s /\ steps[2] = t
    BY <1>1
<1>3. Separate(steps)
    BY <1>1, <1>2 DEF Separate
<1>4. Started(doing, doing', steps)
    BY <1>1, <1>3, StartsNew
<1>5. {steps[j] : j \in DOMAIN steps} = {s, t}
    BY <1>2
<1>6. \A c : On(c, doing') = On(c, doing) \union {x \in {s, t} : x.on = c}
    BY <1>4, <1>5 DEF Started
<1>7. {x \in {s, t} : x.on = s.on} = {s} /\ {x \in {s, t} : x.on = t.on} = {t}
    OBVIOUS
<1>8. On(s.on, doing') = On(s.on, doing) \union {s} /\ On(t.on, doing') = On(t.on, doing) \union {t}
    BY <1>6, <1>7
<1> QED BY <1>2, <1>4, <1>8 DEF Started, TwoMore

\* The maps after a step.
LEMMA BothFine ==
    ASSUME Apart(doing'),
           Fine(map'["tables"], Lists("tables", db'), around'["tables"], elem', On("tables", doing')),
           Fine(map'["views"], Lists("views", db'), around'["views"], elem', On("views", doing'))
    PROVE  Coherent'
BY DEF Coherent, Container

\* What the calls have still to change is of the elements created.
LEMMA Pending ==
    ASSUME NEW k \in Nat, NEW todo \in [Thread -> Seq(Change(k))]
    PROVE  \A c : \A t \in On(c, todo) :
             t \in Change(k) /\ t.on = c /\ (Brings(t) => t.element \in 1..k)
<1> SUFFICES ASSUME NEW c, NEW t \in On(c, todo)
             PROVE  t \in Change(k) /\ t.on = c /\ (Brings(t) => t.element \in 1..k)
    OBVIOUS
<1>1. PICK th \in Thread : \E j \in DOMAIN todo[th] : t = todo[th][j] /\ t.on = c
    BY DEF On
<1>2. PICK q : q = todo[th]
    OBVIOUS
<1>3. q \in Seq(Change(k))
    BY <1>2
<1>4. t \in Change(k)
    BY <1>1, <1>2, <1>3
<1> QED BY <1>1, <1>4, ChangeFacts

\* getByName() and so on: a place looked up.
LEMMA LookCoherent ==
    ASSUME Good, NEW th \in Thread, NEW c \in Container, NEW n \in Name, Look(th, c, n),
           Alone(th)
    PROVE  Coherent'
<1>1. PICK s : s = AtPlace("create", c, n)
    OBVIOUS
<1>2. Start(th, <<s>>) /\ n \in map[c].names /\ UNCHANGED <<db, map, elem, around>>
    BY <1>1 DEF Look, HasByName
<1>3. /\ s.do = "create" /\ s.on = c /\ s.name = n /\ s.to = n
      /\ s.at = GetIndex(map[c], n)
    BY <1>1 DEF AtPlace
<1>5. OneMore(s)
    BY <1>2, <1>3, StartsOne
<1>6. ASSUME NEW d \in Container
      PROVE  Fine(map'[d], Lists(d, db'), around'[d], elem', On(d, doing'))
  <2>1. Fine(map[d], Lists(d, db), around[d], elem, On(d, doing))
      BY DEF Good, Coherent
  <2>2. CASE d = c
    <3>1. Fine(map[d], Lists(d, db), around[d], elem, On(d, doing) \union {s})
        BY <1>2, <1>3, <2>1, <2>2, FineLook
    <3>2. On(d, doing') = On(d, doing) \union {s}
        BY <1>3, <1>5, <2>2 DEF OneMore
    <3> QED BY <1>2, <3>1, <3>2
  <2>3. CASE d # c
    <3>1. On(d, doing') = On(d, doing)
        BY <1>3, <1>5, <2>3 DEF OneMore
    <3> QED BY <1>2, <2>1, <3>1
  <2> QED BY <2>2, <2>3
<1> QED BY <1>5, <1>6 DEF OneMore, Coherent

\* What a call finds or leaves: whole maps that agree with the database.
Ready(now) ==
  /\ now.elem \in Seq(Object) /\ Safe(now.map, doing, Gone, Len(now.elem))
  /\ Calls(Len(now.elem))
  /\ \A d \in Container : now.map[d] \in Map(Len(now.elem))
  /\ Agree(now)

\* What getElementByName() leaves: the names and places as they were, no more
\* than an element in one of the maps.
Fetched(now, got) ==
  /\ Ready(got)
  /\ Len(now.elem) <= Len(got.elem)
  /\ \A e \in 1..Len(now.elem) : got.elem[e] = now.elem[e]
  /\ \A d \in Container : SameEntries(now.map[d], got.map[d])

\* With more elements there are more changes.
LEMMA CallsGrow ==
    ASSUME NEW k \in Nat, NEW l \in Nat, k <= l, Calls(k)
    PROVE  Calls(l)
<1>1. 1..k \subseteq 1..l
    OBVIOUS
<1>2. Change(k) \subseteq Change(l)
    BY <1>1 DEF Change
<1>3. Seq(Change(k)) \subseteq Seq(Change(l))
    BY <1>2, SeqMonotonic
<1> QED BY <1>3 DEF Calls

(* The element of a name that nobody renames is loaded.                      *)
LEMMA FetchAgrees ==
    ASSUME db \in [Name -> {"none", "table", "view"}], NEW now, Ready(now),
           NEW c \in Container, NEW n \in Name, HasByName(now.map[c], n),
           \A t \in On(c, doing) : t.do \in {"rename", "relabel"} => t.name # n
    PROVE  Fetched(now, Fetch(c, n, now))
<1>1. PICK k, m : k = Len(now.elem) /\ m = now.map[c]
    OBVIOUS
<1>2. /\ k \in Nat /\ m \in Map(k) /\ n \in m.names /\ now.elem \in Seq(Object)
      /\ now.map = [d \in Container |-> now.map[d]]
      /\ \A d \in Container : now.map[d] \in Map(k)
      /\ Agree(now) /\ Calls(k) /\ Safe(now.map, doing, Gone, k)
  <2>1. /\ now.elem \in Seq(Object) /\ Safe(now.map, doing, Gone, k)
        /\ \A d \in Container : now.map[d] \in Map(k)
        /\ Agree(now) /\ Calls(k)
      BY <1>1 DEF Ready
  <2>2. k \in Nat
      BY <1>1, <2>1
  <2>3. now.map = [d \in Container |-> now.map[d]]
      BY <2>1 DEF Safe
  <2> QED BY <1>1, <2>1, <2>2, <2>3 DEF HasByName
<1>3. PICK got : got = Fetch(c, n, now)
    OBVIOUS
<1>4. /\ got.elem \in Seq(Object) /\ Safe(got.map, doing, Gone, Len(got.elem))
      /\ k <= Len(got.elem) /\ \A d \in Container : got.map[d] \in Map(Len(got.elem))
  <2>1. Safe(now.map, doing, Gone, Len(now.elem)) /\ \A d \in Container : now.map[d] \in Map(Len(now.elem))
      BY <1>1, <1>2
  <2> QED BY <1>1, <1>2, <1>3, <2>1, FetchFacts
<1>5. PICK i, o : i = GetIndex(m, n) /\ o = Loaded(c, n)
    OBVIOUS
<1>6. CASE got = now
    BY <1>1, <1>2, <1>3, <1>4, <1>6 DEF Fetched, SameEntries
<1>7. CASE got # now
  <2>1. got = [map  |-> [now.map EXCEPT ![c] = SetElement(m, i, k + 1)],
               elem |-> Append(now.elem, o)]
      BY <1>1, <1>3, <1>5, <1>7 DEF Fetch
  <2>2. PICK w : w = SetElement(m, i, k + 1)
      OBVIOUS
  <2>3. got.map = [now.map EXCEPT ![c] = w] /\ got.elem = Append(now.elem, o)
      BY <2>1, <2>2
  <2>4. got.map[c] = w /\ \A d \in Container : d # c => got.map[d] = now.map[d]
      BY <1>2, <2>3
  <2>5. (\A e \in 1..k : got.elem[e] = now.elem[e]) /\ got.elem[k + 1] = o
      BY <1>1, <1>2, <2>3
  <2>6. o.name = n
      BY <1>5 DEF Loaded
  <2>7. SameEntries(m, w)
    <3>1. k + 1 \in {k + 1, NoElement}
        OBVIOUS
    <3>2. PutAt(w, m, n, k + 1)
        BY <1>2, <1>5, <2>2, <3>1, SetNewAtPlace
    <3> QED BY <3>2 DEF PutAt
  <2>8. PICK fl : fl = got.elem
      OBVIOUS
  <2>9. \A e \in 1..k : fl[e].name = now.elem[e].name
      BY <2>5, <2>8
  <2>10. \A d \in Container : \A t \in On(d, doing) : Brings(t) => t.element \in 1..k
      BY <1>2, Pending DEF Calls
  <2>11. ASSUME NEW d \in Container
         PROVE  Fine(got.map[d], Lists(d, db), around[d], fl, On(d, doing))
    <3>1. Fine(now.map[d], Lists(d, db), around[d], now.elem, On(d, doing))
        BY <1>2 DEF Agree
    <3>2. CASE d = c
      <4>1. Fine(m, Lists(c, db), around[c], now.elem, On(c, doing))
          BY <1>1, <3>1, <3>2
      <4>2. k + 1 # NoElement => fl[k + 1].name = n
          BY <2>5, <2>6, <2>8
      <4>3. \A t \in On(c, doing) : Brings(t) => t.element \in 1..k
          BY <2>10
      <4>5. PICK L, A, S : L = Lists(c, db) /\ A = around[c] /\ S = On(c, doing)
          OBVIOUS
      <4>6. /\ Fine(m, L, A, now.elem, S) /\ (\A t \in S : Brings(t) => t.element \in 1..k)
            /\ \A t \in S : t.do \in {"rename", "relabel"} => t.name # n
          BY <4>1, <4>3, <4>5
      <4>4. Fine(SetElement(m, GetIndex(m, n), k + 1), L, A, fl, S)
          BY <1>2, <2>9, <4>2, <4>6, FineSet
      <4> QED BY <1>5, <2>2, <2>4, <3>2, <4>4, <4>5
    <3>3. CASE d # c
      <4>1. now.map[d] \in Map(k) /\ got.map[d] = now.map[d]
          BY <1>2, <2>4, <3>3
      <4>2. \A t \in On(d, doing) : Brings(t) => t.element \in 1..k
          BY <2>10
      <4> QED BY <1>2, <2>9, <3>1, <4>1, <4>2, FineOld
    <3> QED BY <3>2, <3>3
  <2>12. Agree(got)
      BY <2>8, <2>11 DEF Agree
  <2>13. \A d \in Container : SameEntries(now.map[d], got.map[d])
      BY <1>1, <2>4, <2>7 DEF SameEntries
  <2>14. Calls(Len(got.elem))
    <3>1. Len(got.elem) \in Nat
        BY <1>4
    <3> QED BY <1>2, <1>4, <3>1, CallsGrow
  <2>15. Ready(got)
      BY <1>4, <2>12, <2>14 DEF Ready
  <2> QED BY <1>1, <1>3, <1>4, <2>5, <2>13, <2>15 DEF Fetched
<1> QED BY <1>6, <1>7

\* What the calls find at first.
LEMMA NowAgrees ==
    ASSUME Good
    PROVE  /\ db \in [Name -> {"none", "table", "view"}] /\ Ready(Now)
           /\ Now.map = map /\ Now.elem = elem
<1>1. Now.map = map /\ Now.elem = elem
    BY DEF Now
<1>2. /\ db \in [Name -> {"none", "table", "view"}]
      /\ elem \in Seq(Object) /\ Safe(map, doing, Gone, Len(elem))
      /\ Calls(Len(elem)) /\ \A d \in Container : map[d] \in Map(Len(elem))
    BY AtHand DEF Good, Entire
<1>3. Agree(Now)
    BY <1>1 DEF Good, Coherent, Agree
<1> QED BY <1>1, <1>2, <1>3 DEF Ready

\* No call under way is about a name of a call that starts.
LEMMA NobodyRenames ==
    ASSUME Good, NEW th \in Thread, Idle(th), Alone(th), NEW n, n \in NamesOf(doing'[th])
    PROVE  \A c : \A t \in On(c, doing) : n \notin About(t)
<1> SUFFICES ASSUME NEW c, NEW t \in On(c, doing)
             PROVE  n \notin About(t)
    OBVIOUS
<1>1. PICK o \in Thread : \E j \in DOMAIN doing[o] : t = doing[o][j]
    BY DEF On
<1>2. o # th
    BY <1>1 DEF Idle
<1>3. About(t) \subseteq NamesOf(doing[o])
    BY <1>1, NamesOfFacts
<1>4. NamesOf(doing'[th]) \cap NamesOf(doing[o]) = {}
    BY <1>2, OtherNames
<1> QED BY <1>3, <1>4

(* The element of a name has this name, or both were changed behind the       *)
(* container's back.                                                         *)
LEMMA OwnName ==
    ASSUME NEW k \in Nat, NEW m \in Map(k), NEW L, NEW A, NEW el, NEW S, Fine(m, L, A, el, S),
           NEW n \in m.names, \A t \in S : n \notin About(t),
           GetByIndex(m, GetIndex(m, n)) # NoElement
    PROVE  LET own == el[GetByIndex(m, GetIndex(m, n))].name IN
           own = n \/ (n \in A /\ own \in A)
<1>1. PICK i : i = GetIndex(m, n)
    OBVIOUS
<1>2. GetName(m, i) = n
    BY <1>1, OrderFacts
<1>3. PICK j : j = Slot(m, n)
    OBVIOUS
<1>4. j \in 1..Len(m.index) /\ m.index[j] = n /\ DOMAIN m.index = 1..Len(m.index)
    BY <1>3, SlotFacts
<1>5. GetByIndex(m, i) = m.element[j]
    BY <1>2, <1>3 DEF GetByIndex
<1>6. PICK own : own = el[m.element[j]].name
    OBVIOUS
<1>7. m.element[j] # NoElement
    BY <1>1, <1>5
<1>8. \/ own = n
      \/ n \in A /\ own \in A
      \/ \E s \in S : s.do \in {"rename", "relabel"} /\ s.name = n /\ s.to = own
    BY <1>4, <1>6, <1>7 DEF Fine, Named
<1>9. own = n \/ (n \in A /\ own \in A)
    BY <1>8 DEF About
<1> QED BY <1>1, <1>5, <1>6, <1>9

\* The names of the steps a call starts with.
LEMMA StartNames ==
    ASSUME Good, NEW th \in Thread, NEW steps, Start(th, steps)
    PROVE  doing'[th] = steps /\ Idle(th)
<1>1. doing \in [Thread -> Seq(Change(Len(elem)))]
    BY AtHand DEF Good
<1> QED BY <1>1 DEF Start

\* A removal to make.
LEMMA RemovalIs ==
    ASSUME NEW c, NEW n, NEW s, s = Removal(c, n)
    PROVE  /\ s.do = "remove" /\ s.on = c /\ s.name = n /\ s.to = n
           /\ s.at = GetIndex(map[c], n)
BY DEF Removal, AtPlace

\* A removal starts: the place of the name is the one in the map with the element.
LEMMA RemovalStarts ==
    ASSUME NEW m, NEW L, NEW A, NEW el, NEW S, Fine(m, L, A, el, S),
           NEW c, NEW n, n \in map[c].names, SameEntries(map[c], m),
           \A t \in S : About(t) \cap About(Removal(c, n)) = {},
           NEW M, \A x \in Name \ A : x \in M <=> x \in L /\ x # n
    PROVE  Fine(m, M, A, el, S \union {Removal(c, n)})
<1>1. PICK s : s = Removal(c, n)
    OBVIOUS
<1>2. s.do = "remove" /\ s.name = n /\ s.at = GetIndex(map[c], n)
    BY <1>1, RemovalIs
<1>3. s.at = GetIndex(m, s.name) /\ s.name \in m.names
    BY <1>2 DEF GetIndex, SameEntries
<1>4. Fine(m, M, A, el, S \union {s})
    BY <1>1, <1>2, <1>3, FineDrop
<1> QED BY <1>1, <1>4

(* DROP TABLE.                                                               *)
LEMMA DropTableCoherent ==
    ASSUME Good, NEW th \in Thread, NEW n \in Name, DropTable(th, n), Alone(th)
    PROVE  Coherent'
<1>1. PICK got, s : got = Fetch("tables", n, Now) /\ s = Removal("tables", n)
    OBVIOUS
<1>2. /\ n \in map["tables"].names /\ db[n] = "table" /\ Keep(th, got) /\ Start(th, <<s>>)
      /\ db' = [db EXCEPT ![n] = "none"] /\ around' = around
    BY <1>1 DEF DropTable, HasByName
<1>3. "tables" \in Container /\ "views" \in Container
    BY DEF Container
<1>4. s.do = "remove" /\ s.on = "tables" /\ s.name = n /\ s.to = n
    BY <1>1, RemovalIs
<1>5. OneMore(s)
    BY <1>2, <1>4, StartsOne
<1>6. \A c : \A t \in On(c, doing) : n \notin About(t)
    BY <1>4, <1>5 DEF OneMore, About
<1>7. Fetched(Now, got)
  <2>1. HasByName(Now.map["tables"], n)
      BY <1>2, NowAgrees DEF HasByName
  <2>2. \A t \in On("tables", doing) : t.do \in {"rename", "relabel"} => t.name # n
      BY <1>6 DEF About
  <2> QED BY <1>1, <1>3, <2>1, <2>2, NowAgrees, FetchAgrees
<1>8. /\ map' = got.map /\ elem' = got.elem /\ Agree(got)
      /\ SameEntries(map["tables"], got.map["tables"])
    BY <1>2, <1>3, <1>7, NowAgrees DEF Keep, Fetched, Ready
<1>9. db \in [Name -> {"none", "table", "view"}]
    BY NowAgrees
<1>10. Fine(map'["tables"], Lists("tables", db'), around'["tables"], elem', On("tables", doing'))
  <2>1. Fine(got.map["tables"], Lists("tables", db), around["tables"], got.elem, On("tables", doing))
      BY <1>3, <1>8 DEF Agree
  <2>2. \A x \in Name : x \in Lists("tables", db') <=> x \in Lists("tables", db) /\ x # n
      BY <1>2, <1>9 DEF Lists
  <2>3. \A t \in On("tables", doing) : About(t) \cap About(Removal("tables", n)) = {}
      BY <1>1, <1>5 DEF OneMore
  <2>4. On("tables", doing') = On("tables", doing) \union {s}
      BY <1>4, <1>5 DEF OneMore
  <2>5. PICK M : M = Lists("tables", db')
      OBVIOUS
  <2>6. Fine(got.map["tables"], M, around["tables"], got.elem,
             On("tables", doing) \union {Removal("tables", n)})
      BY <1>2, <1>8, <2>1, <2>2, <2>3, <2>5, RemovalStarts
  <2> QED BY <1>1, <1>2, <1>8, <2>4, <2>5, <2>6
<1>11. Fine(map'["views"], Lists("views", db'), around'["views"], elem', On("views", doing'))
  <2>1. Fine(got.map["views"], Lists("views", db), around["views"], got.elem, On("views", doing))
      BY <1>3, <1>8 DEF Agree
  <2>2. Lists("views", db') = Lists("views", db)
      BY <1>2, <1>9 DEF Lists
  <2>3. On("views", doing') = On("views", doing)
      BY <1>4, <1>5 DEF OneMore
  <2> QED BY <1>2, <1>8, <2>1, <2>2, <2>3
<1> QED BY <1>5, <1>10, <1>11, BothFine DEF OneMore

(* DROP VIEW, asked of the views: the tables are not told.                   *)
LEMMA DropViewCoherent ==
    ASSUME Good, NEW th \in Thread, NEW n \in Name, DropView(th, n), Alone(th)
    PROVE  Coherent'
<1>1. PICK got, s : got = Fetch("views", n, Now) /\ s = Removal("views", n)
    OBVIOUS
<1>2. PICK own : own = Of("views", n, got).name
    OBVIOUS
<1>3. /\ n \in map["views"].names /\ Has("views", n, got) /\ db[own] = "view"
      /\ Keep(th, got) /\ Start(th, <<s>>) /\ db' = [db EXCEPT ![own] = "none"]
      /\ around' = [around EXCEPT !["tables"] = around["tables"] \union {own}]
    BY <1>1, <1>2 DEF DropView, HasByName
<1>4. "tables" \in Container /\ "views" \in Container
    BY DEF Container
<1>5. s.do = "remove" /\ s.on = "views" /\ s.name = n /\ s.to = n
    BY <1>1, RemovalIs
<1>6. OneMore(s)
    BY <1>3, <1>5, StartsOne
<1>7. \A c : \A t \in On(c, doing) : n \notin About(t)
    BY <1>5, <1>6 DEF OneMore, About
<1>8. HasByName(Now.map["views"], n)
    BY <1>3, NowAgrees DEF HasByName
<1>9. Fetched(Now, got)
  <2>1. \A t \in On("views", doing) : t.do \in {"rename", "relabel"} => t.name # n
      BY <1>7 DEF About
  <2> QED BY <1>1, <1>4, <1>8, <2>1, NowAgrees, FetchAgrees
<1>10. /\ map' = got.map /\ elem' = got.elem /\ Agree(got)
       /\ SameEntries(map["views"], got.map["views"])
       /\ got.map["views"] \in Map(Len(got.elem)) /\ got.elem \in Seq(Object)
    BY <1>3, <1>4, <1>9, NowAgrees DEF Keep, Fetched, Ready
<1>11. Fine(got.map["views"], Lists("views", db), around["views"], got.elem, On("views", doing))
    BY <1>4, <1>10 DEF Agree
<1>12. own = n \/ (n \in around["views"] /\ own \in around["views"])
  <2>1. got.map["views"] \in Map(Len(got.elem)) /\ Len(got.elem) \in Nat
      BY <1>10
  <2>4. n \in got.map["views"].names
      BY <1>3, <1>10 DEF SameEntries
  <2>2. GetByIndex(got.map["views"], GetIndex(got.map["views"], n)) # NoElement
      BY <1>3 DEF Has
  <2>3. own = got.elem[GetByIndex(got.map["views"], GetIndex(got.map["views"], n))].name
      BY <1>2 DEF Of
  <2> QED BY <1>7, <1>11, <2>1, <2>2, <2>3, <2>4, OwnName, SMTT(30)
<1>13. db \in [Name -> {"none", "table", "view"}] /\ around = [c \in Container |-> around[c]]
    BY NowAgrees DEF Good
<1>14. Fine(map'["views"], Lists("views", db'), around'["views"], elem', On("views", doing'))
  <2>1. around'["views"] = around["views"]
      BY <1>3, <1>4, <1>13
  <2>2. \A x \in Name \ around["views"] : x \in Lists("views", db') <=> x \in Lists("views", db) /\ x # n
      BY <1>3, <1>12, <1>13 DEF Lists
  <2>3. \A t \in On("views", doing) : About(t) \cap About(Removal("views", n)) = {}
      BY <1>1, <1>6 DEF OneMore
  <2>4. On("views", doing') = On("views", doing) \union {s}
      BY <1>5, <1>6 DEF OneMore
  <2>5. PICK M : M = Lists("views", db')
      OBVIOUS
  <2>6. Fine(got.map["views"], M, around["views"], got.elem,
             On("views", doing) \union {Removal("views", n)})
      BY <1>3, <1>10, <1>11, <2>2, <2>3, <2>5, RemovalStarts
  <2> QED BY <1>1, <1>10, <2>1, <2>4, <2>5, <2>6
<1>15. Fine(map'["tables"], Lists("tables", db'), around'["tables"], elem', On("tables", doing'))
  <2>1. Fine(got.map["tables"], Lists("tables", db), around["tables"], got.elem, On("tables", doing))
      BY <1>4, <1>10 DEF Agree
  <2>2. PICK B, M : B = around["tables"] \union {own} /\ M = Lists("tables", db')
      OBVIOUS
  <2>3. \A x \in Name \ B : x \in M <=> x \in Lists("tables", db)
      BY <1>3, <1>13, <2>2 DEF Lists
  <2>4. On("tables", doing') = On("tables", doing)
      BY <1>5, <1>6 DEF OneMore
  <2>5. around'["tables"] = B
      BY <1>3, <1>4, <1>13, <2>2
  <2>6. Fine(got.map["tables"], M, B, got.elem, On("tables", doing))
      BY <2>1, <2>2, <2>3, FineGrows
  <2> QED BY <1>10, <2>2, <2>4, <2>5, <2>6
<1> QED BY <1>6, <1>14, <1>15, BothFine DEF OneMore

(* DROP VIEW, asked of the tables: a view under another name than its own    *)
(* misleads the tables.                                                      *)
LEMMA DropViewOfTablesCoherent ==
    ASSUME Good, NEW th \in Thread, NEW n \in Name, DropViewOfTables(th, n), Alone(th)
    PROVE  Coherent'
<1>1. PICK got : got = Fetch("tables", n, Now)
    OBVIOUS
<1>2. PICK both : both = Fetch("views", n, got)
    OBVIOUS
<1>3. PICK own, s, t : /\ own = Of("views", n, both).name
                       /\ s = Removal("views", n) /\ t = Removal("tables", n)
    OBVIOUS
<1>4. /\ n \in map["tables"].names /\ n \in map["views"].names
      /\ Has("views", n, both) /\ db[own] = "view" /\ Keep(th, both) /\ Start(th, <<s, t>>)
      /\ db' = [db EXCEPT ![own] = "none"]
      /\ around' = [around EXCEPT !["tables"] = around["tables"] \union Misled(n, own, {})]
    BY <1>1, <1>2, <1>3 DEF DropViewOfTables, HasByName, BothRemovals
<1>5. "tables" \in Container /\ "views" \in Container
    BY DEF Container
<1>6. /\ s.do = "remove" /\ s.on = "views" /\ s.name = n /\ s.to = n
      /\ t.do = "remove" /\ t.on = "tables" /\ t.name = n /\ t.to = n
    BY <1>3, RemovalIs
<1>7. TwoMore(s, t)
    BY <1>4, <1>6, StartsTwo
<1>8. \A c : \A x \in On(c, doing) : n \notin About(x)
    BY <1>6, <1>7 DEF TwoMore, About
<1>9. \A c : \A x \in On(c, doing) : x.do \in {"rename", "relabel"} => x.name # n
    BY <1>8 DEF About
<1>10. Fetched(Now, got)
  <2>1. HasByName(Now.map["tables"], n)
      BY <1>4, NowAgrees DEF HasByName
  <2> QED BY <1>1, <1>5, <1>9, <2>1, NowAgrees, FetchAgrees
<1>11. Fetched(got, both)
  <2>1. HasByName(got.map["views"], n)
      BY <1>4, <1>5, <1>10, NowAgrees DEF HasByName, Fetched, SameEntries
  <2>2. db \in [Name -> {"none", "table", "view"}] /\ Ready(got)
      BY <1>10, NowAgrees DEF Fetched
  <2> QED BY <1>2, <1>5, <1>9, <2>1, <2>2, FetchAgrees
<1>12. /\ map' = both.map /\ elem' = both.elem /\ Agree(both)
       /\ SameEntries(map["views"], both.map["views"])
       /\ SameEntries(map["tables"], both.map["tables"])
       /\ both.map["views"] \in Map(Len(both.elem)) /\ both.elem \in Seq(Object)
  <2>1. map' = both.map /\ elem' = both.elem
      BY <1>4 DEF Keep
  <2>2. /\ Agree(both) /\ both.map["views"] \in Map(Len(both.elem)) /\ both.elem \in Seq(Object)
      BY <1>5, <1>11 DEF Fetched, Ready
  <2>3. \A d \in Container : SameEntries(map[d], both.map[d])
      BY <1>10, <1>11, NowAgrees DEF Fetched, SameEntries
  <2> QED BY <1>5, <2>1, <2>2, <2>3
<1>13. /\ Fine(both.map["views"], Lists("views", db), around["views"], both.elem, On("views", doing))
       /\ Fine(both.map["tables"], Lists("tables", db), around["tables"], both.elem, On("tables", doing))
    BY <1>5, <1>12 DEF Agree
<1>14. own = n \/ (n \in around["views"] /\ own \in around["views"])
  <2>1. both.map["views"] \in Map(Len(both.elem)) /\ Len(both.elem) \in Nat
      BY <1>12
  <2>4. n \in both.map["views"].names
      BY <1>4, <1>12 DEF SameEntries
  <2>2. GetByIndex(both.map["views"], GetIndex(both.map["views"], n)) # NoElement
      BY <1>4 DEF Has
  <2>3. own = both.elem[GetByIndex(both.map["views"], GetIndex(both.map["views"], n))].name
      BY <1>3 DEF Of
  <2> QED BY <1>8, <1>13, <2>1, <2>2, <2>3, <2>4, OwnName, SMTT(30)
<1>15. db \in [Name -> {"none", "table", "view"}] /\ around = [c \in Container |-> around[c]]
    BY NowAgrees DEF Good
<1>16. Fine(map'["views"], Lists("views", db'), around'["views"], elem', On("views", doing'))
  <2>1. around'["views"] = around["views"]
      BY <1>4, <1>5, <1>15
  <2>2. \A x \in Name \ around["views"] : x \in Lists("views", db') <=> x \in Lists("views", db) /\ x # n
      BY <1>4, <1>14, <1>15 DEF Lists
  <2>3. \A x \in On("views", doing) : About(x) \cap About(Removal("views", n)) = {}
      BY <1>3, <1>7 DEF TwoMore
  <2>4. On("views", doing') = On("views", doing) \union {s}
      BY <1>6, <1>7 DEF TwoMore
  <2>5. PICK M : M = Lists("views", db')
      OBVIOUS
  <2>6. Fine(both.map["views"], M, around["views"], both.elem,
             On("views", doing) \union {Removal("views", n)})
      BY <1>4, <1>12, <1>13, <2>2, <2>3, <2>5, RemovalStarts
  <2> QED BY <1>3, <1>12, <2>1, <2>4, <2>5, <2>6
<1>17. Fine(map'["tables"], Lists("tables", db'), around'["tables"], elem', On("tables", doing'))
  <2>1. PICK B, M, L : /\ B = around["tables"] \union Misled(n, own, {})
                       /\ M = Lists("tables", db') /\ L = Lists("tables", db)
      OBVIOUS
  <2>2. around'["tables"] = B
      BY <1>4, <1>5, <1>15, <2>1
  <2>3. Fine(both.map["tables"], L, B, both.elem, On("tables", doing))
    <3>1. around["tables"] \subseteq B
        BY <2>1
    <3> QED BY <1>13, <2>1, <3>1, FineGrows
  <2>4. \A x \in Name \ B : x \in M <=> x \in L /\ x # n
    <3>1. own # n => n \in B /\ own \in B
        BY <2>1 DEF Misled
    <3> QED BY <1>4, <1>15, <2>1, <3>1 DEF Lists
  <2>5. \A x \in On("tables", doing) : About(x) \cap About(Removal("tables", n)) = {}
      BY <1>3, <1>7 DEF TwoMore
  <2>6. On("tables", doing') = On("tables", doing) \union {t}
      BY <1>6, <1>7 DEF TwoMore
  <2>7. Fine(both.map["tables"], M, B, both.elem,
             On("tables", doing) \union {Removal("tables", n)})
      BY <1>4, <1>12, <2>3, <2>4, <2>5, RemovalStarts
  <2> QED BY <1>3, <1>12, <2>1, <2>2, <2>6, <2>7
<1> QED BY <1>7, <1>16, <1>17, BothFine DEF TwoMore

\* An addition to make.
LEMMA AdditionIs ==
    ASSUME NEW what, NEW c, NEW n, NEW x, NEW s, s = WithElement(what, c, n, x)
    PROVE  s.do = what /\ s.on = c /\ s.name = n /\ s.to = n /\ s.element = x
BY DEF WithElement

(* CREATE TABLE and CREATE VIEW.                                             *)
LEMMA AppendCoherent ==
    ASSUME Good, NEW th \in Thread, NEW c \in Container, NEW n \in Name,
           AppendByDescriptor(th, c, n), Alone(th)
    PROVE  Coherent'
<1>1. PICK k, kind : k = Len(elem) /\ kind = IF c = "tables" THEN "table" ELSE "view"
    OBVIOUS
<1>2. PICK fl : fl = Append(elem, [name |-> n, kind |-> kind])
    OBVIOUS
<1>3. /\ db[n] = "none" /\ db' = [db EXCEPT ![n] = kind] /\ elem' = fl
      /\ Start(th, Additions(c, n)) /\ map' = map /\ around' = around
    BY <1>1, <1>2 DEF AppendByDescriptor
<1>4. /\ db \in [Name -> {"none", "table", "view"}] /\ k \in Nat /\ elem \in Seq(Object)
      /\ doing \in [Thread -> Seq(Change(k))]
      /\ \A d \in Container : map[d] \in Map(k)
    BY <1>1, AtHand DEF Good
<1>5. (\A e \in 1..k : fl[e].name = elem[e].name) /\ fl[k + 1].name = n
  <2>1. PICK o : o = [name |-> n, kind |-> kind]
      OBVIOUS
  <2>2. fl = Append(elem, o) /\ o.name = n
      BY <1>2, <2>1
  <2>3. (\A e \in 1..k : fl[e] = elem[e]) /\ fl[k + 1] = o
      BY <1>1, <1>4, <2>2
  <2> QED BY <2>2, <2>3
<1>6. ASSUME NEW d \in Container
      PROVE  Fine(map[d], Lists(d, db), around[d], fl, On(d, doing))
  <2>1. Fine(map[d], Lists(d, db), around[d], elem, On(d, doing))
      BY DEF Good, Coherent
  <2>2. \A t \in On(d, doing) : Brings(t) => t.element \in 1..k
      BY <1>4, Pending
  <2>3. map[d] \in Map(k)
      BY <1>4
  <2> QED BY <1>4, <1>5, <2>1, <2>2, <2>3, FineOld
<1>7. NextElement = k + 1 /\ k + 1 # NoElement
    BY <1>1, <1>4, NoElementAssumption DEF NextElement
<1>8. "tables" \in Container /\ "views" \in Container /\ (c = "tables" \/ c = "views")
    BY DEF Container
<1>9. PICK s : s = WithElement("add", c, n, k + 1)
    OBVIOUS
<1>10. s = Addition(c, n) /\ s.do = "add" /\ s.on = c /\ s.name = n /\ s.to = n /\ s.element = k + 1
    BY <1>7, <1>9, AdditionIs DEF Addition
<1>11. \A d \in Container : d = c => \A x \in Name : x \in Lists(d, db') <=> x \in Lists(d, db) \/ x = n
    BY <1>1, <1>3, <1>4, <1>8 DEF Lists
<1>12. n \notin Lists(c, db)
    BY <1>3 DEF Lists
<1>13. CASE c = "tables"
  <2>1. Start(th, <<s>>)
      BY <1>3, <1>10, <1>13 DEF Additions
  <2>2. OneMore(s)
      BY <1>10, <2>1, StartsOne
  <2>3. Fine(map'["tables"], Lists("tables", db'), around'["tables"], elem', On("tables", doing'))
    <3>1. \A t \in On("tables", doing) : About(t) \cap About(s) = {}
        BY <2>2 DEF OneMore
    <3>2. PICK L, M : L = Lists("tables", db) /\ M = Lists("tables", db')
        OBVIOUS
    <3>3. n \notin L /\ \A x \in Name \ around["tables"] : x \in M <=> x \in L \/ x = n
        BY <1>8, <1>11, <1>12, <1>13, <3>2
    <3>4. Fine(map["tables"], M, around["tables"], fl, On("tables", doing) \union {s})
      <4>1. PICK m, A, S : m = map["tables"] /\ A = around["tables"] /\ S = On("tables", doing)
          OBVIOUS
      <4>2. Fine(m, L, A, fl, S)
          BY <1>6, <1>8, <3>2, <4>1
      <4>3. s.do \in {"add", "insert"} /\ s.name \notin L /\ (Brings(s) => fl[s.element].name = s.name)
          BY <1>5, <1>10, <3>3
      <4>4. /\ \A x \in S : About(x) \cap About(s) = {}
            /\ \A x \in Name \ A : x \in M <=> x \in L \/ x = s.name
          BY <1>10, <3>1, <3>3, <4>1
      <4> QED BY <4>1, <4>2, <4>3, <4>4, FineAppend
    <3>5. On("tables", doing') = On("tables", doing) \union {s}
        BY <1>10, <1>13, <2>2 DEF OneMore
    <3> QED BY <1>3, <3>2, <3>4, <3>5
  <2>4. Fine(map'["views"], Lists("views", db'), around'["views"], elem', On("views", doing'))
    <3>1. Lists("views", db') = Lists("views", db)
        BY <1>1, <1>3, <1>4, <1>13 DEF Lists
    <3>2. On("views", doing') = On("views", doing)
        BY <1>10, <1>13, <2>2 DEF OneMore
    <3> QED BY <1>3, <1>6, <1>8, <3>1, <3>2
  <2> QED BY <2>2, <2>3, <2>4, BothFine DEF OneMore
<1>14. CASE c = "views"
  <2>1. PICK t : t = WithElement("insert", "tables", n, NoElement)
      OBVIOUS
  <2>2. t.do = "insert" /\ t.on = "tables" /\ t.name = n /\ t.to = n /\ ~Brings(t)
      BY <2>1, AdditionIs DEF Brings
  <2>3. Start(th, <<t, s>>)
      BY <1>3, <1>10, <1>14, <2>1 DEF Additions
  <2>4. TwoMore(t, s)
      BY <1>10, <1>14, <2>2, <2>3, StartsTwo
  <2>5. Fine(map'["views"], Lists("views", db'), around'["views"], elem', On("views", doing'))
    <3>1. \A x \in On("views", doing) : About(x) \cap About(s) = {}
        BY <2>4 DEF TwoMore
    <3>2. PICK L, M : L = Lists("views", db) /\ M = Lists("views", db')
        OBVIOUS
    <3>3. n \notin L /\ \A x \in Name \ around["views"] : x \in M <=> x \in L \/ x = n
        BY <1>8, <1>11, <1>12, <1>14, <3>2
    <3>4. Fine(map["views"], M, around["views"], fl, On("views", doing) \union {s})
      <4>1. PICK m, A, S : m = map["views"] /\ A = around["views"] /\ S = On("views", doing)
          OBVIOUS
      <4>2. Fine(m, L, A, fl, S)
          BY <1>6, <1>8, <3>2, <4>1
      <4>3. s.do \in {"add", "insert"} /\ s.name \notin L /\ (Brings(s) => fl[s.element].name = s.name)
          BY <1>5, <1>10, <3>3
      <4>4. /\ \A x \in S : About(x) \cap About(s) = {}
            /\ \A x \in Name \ A : x \in M <=> x \in L \/ x = s.name
          BY <1>10, <3>1, <3>3, <4>1
      <4> QED BY <4>1, <4>2, <4>3, <4>4, FineAppend
    <3>5. On("views", doing') = On("views", doing) \union {s}
        BY <1>10, <1>14, <2>4 DEF TwoMore
    <3> QED BY <1>3, <3>2, <3>4, <3>5
  <2>6. Fine(map'["tables"], Lists("tables", db'), around'["tables"], elem', On("tables", doing'))
    <3>1. \A x \in On("tables", doing) : About(x) \cap About(t) = {}
        BY <2>4 DEF TwoMore
    <3>2. PICK L, M : L = Lists("tables", db) /\ M = Lists("tables", db')
        OBVIOUS
    <3>3. n \notin L /\ \A x \in Name \ around["tables"] : x \in M <=> x \in L \/ x = n
        BY <1>1, <1>3, <1>4, <1>14, <3>2 DEF Lists
    <3>4. Fine(map["tables"], M, around["tables"], fl, On("tables", doing) \union {t})
        BY <1>6, <1>8, <2>2, <3>1, <3>2, <3>3, FineAppend
    <3>5. On("tables", doing') = On("tables", doing) \union {t}
        BY <2>2, <2>4 DEF TwoMore
    <3> QED BY <1>3, <3>2, <3>4, <3>5
  <2> QED BY <2>4, <2>5, <2>6, BothFine DEF TwoMore
<1> QED BY <1>8, <1>13, <1>14

\* The element e is in the map of c at one place and nowhere else.
HeldAt(mp, c, i, e) ==
  /\ i \in DOMAIN mp[c].index /\ mp[c].element[i] = e
  /\ \A j \in DOMAIN mp[c].index : mp[c].element[j] = e => j = i
  /\ \A d \in Container \ {c} : \A j \in DOMAIN mp[d].index : mp[d].element[j] # e
  /\ \A d : \A t \in On(d, doing) : Brings(t) => t.element # e

(* An element of a map is there only.                                        *)
LEMMA ElementAt ==
    ASSUME NEW k \in Nat, NEW mp, NEW gone, Safe(mp, doing, gone, k),
           NEW c \in Container, NEW i \in DOMAIN mp[c].element, NEW e,
           e = mp[c].element[i], e # NoElement
    PROVE  HeldAt(mp, c, i, e)
<1>1. \A d \in Container : mp[d] \in AnyMap(k)
    BY DEF Safe
<1>2. \A d \in Container : DOMAIN mp[d].index = DOMAIN mp[d].element
  <2> SUFFICES ASSUME NEW d \in Container
               PROVE  DOMAIN mp[d].index = DOMAIN mp[d].element
      OBVIOUS
  <2>1. PICK m : m = mp[d]
      OBVIOUS
  <2>2. m \in AnyMap(k)
      BY <1>1, <2>1
  <2>3. DOMAIN m.index = 1..Len(m.index) /\ DOMAIN m.element = 1..Len(m.index)
      BY <2>2, AnyParts
  <2> QED BY <2>1, <2>3
<1>3. /\ Once(mp[c]) /\ e \in Elements(mp[c])
      /\ \A d \in Container \ {c} : Elements(mp[c]) \cap Elements(mp[d]) = {}
  <2>1. Elements(mp["tables"]) \cap Elements(mp["views"]) = {} /\ Once(mp[c])
      BY DEF Safe, Placed
  <2>2. e \in Elements(mp[c])
      BY DEF Elements
  <2>3. \A d \in Container \ {c} : Elements(mp[c]) \cap Elements(mp[d]) = {}
    <3> SUFFICES ASSUME NEW d \in Container \ {c}
                 PROVE  Elements(mp[c]) \cap Elements(mp[d]) = {}
        OBVIOUS
    <3>1. (c = "tables" /\ d = "views") \/ (c = "views" /\ d = "tables")
        BY DEF Container
    <3>2. CASE c = "tables" /\ d = "views"
        BY <2>1, <3>2
    <3>3. CASE c = "views" /\ d = "tables"
      <4>1. Elements(mp["views"]) \cap Elements(mp["tables"]) = {}
          BY <2>1
      <4> QED BY <3>3, <4>1
    <3> QED BY <3>1, <3>2, <3>3
  <2> QED BY <2>1, <2>2, <2>3
<1>4. \A j \in DOMAIN mp[c].index : mp[c].element[j] = e => j = i
    BY <1>2, <1>3 DEF Once
<1>5. ASSUME NEW d \in Container \ {c}, NEW j \in DOMAIN mp[d].index
      PROVE  mp[d].element[j] # e
  <2>1. e \notin Elements(mp[d])
      BY <1>3
  <2> QED BY <1>2, <2>1 DEF Elements
<1>6. ASSUME NEW d, NEW t \in On(d, doing), Brings(t)
      PROVE  t.element # e
  <2>1. PICK th \in Thread : \E j \in DOMAIN doing[th] : t = doing[th][j]
      BY DEF On
  <2>2. t.element \in Waiting(doing[th])
      BY <1>6, <2>1 DEF Waiting
  <2>3. Waiting(doing[th]) \cap Elements(mp[c]) = {}
      BY DEF Safe, Placed
  <2> QED BY <1>3, <2>2, <2>3
<1> QED BY <1>2, <1>4, <1>5, <1>6 DEF HeldAt

\* An element gets another name, the others keep theirs.
NameChanges(k, el, fl, e, to) ==
  fl[e].name = to /\ \A x \in 1..k : x # e => fl[x].name = el[x].name

(* The names of the elements of the other container stay.                    *)
LEMMA RenamedThere ==
    ASSUME NEW k \in Nat, NEW mp, NEW gone, Safe(mp, doing, gone, k),
           NEW c \in Container, NEW i, NEW e, HeldAt(mp, c, i, e),
           NEW d \in Container \ {c}, NEW L, NEW A, NEW el, NEW S, Fine(mp[d], L, A, el, S),
           \A t \in S : Brings(t) => t.element \in 1..k /\ t.element # e,
           NEW fl, NEW to, NameChanges(k, el, fl, e, to)
    PROVE  Fine(mp[d], L, A, fl, S)
<1>1. PICK m : m = mp[d]
    OBVIOUS
<1>2. m \in AnyMap(k)
    BY <1>1 DEF Safe
<1>3. /\ DOMAIN m.index = 1..Len(m.index)
      /\ \A j \in 1..Len(m.index) : m.element[j] \in (1..k) \union {NoElement}
    BY <1>2, AnyParts
<1>4. \A j \in DOMAIN m.index : m.element[j] # e
    BY <1>1 DEF HeldAt
<1>5. \A j \in DOMAIN m.index : m.element[j] # NoElement =>
        fl[m.element[j]].name = el[m.element[j]].name
    BY <1>3, <1>4 DEF NameChanges
<1>6. \A t \in S : Brings(t) => fl[t.element].name = el[t.element].name
    BY DEF NameChanges
<1>7. Fine(m, L, A, el, S)
    BY <1>1
<1>8. Fine(m, L, A, fl, S)
    BY <1>5, <1>6, <1>7, FineElements
<1> QED BY <1>1, <1>8

\* What is known of a container in which an element is renamed.
RenameFacts(k, mp, gone, c, i, e, L, A, el, S, s, fl, B, M) ==
  /\ k \in Nat /\ Safe(mp, doing, gone, k) /\ c \in Container
  /\ HeldAt(mp, c, i, e) /\ e # NoElement /\ Fine(mp[c], L, A, el, S)
  /\ \A t \in S : Brings(t) => t.element \in 1..k /\ t.element # e
  /\ s.do \in {"rename", "relabel"} /\ el[e].name = s.name /\ s.name \in Name
  /\ \A t \in S : About(t) \cap About(s) = {}
  /\ NameChanges(k, el, fl, e, s.to)
  /\ A \subseteq B /\ Turned(L, M, B, s.name, s.to)

(* The container that has the element has an entry to rename.                *)
LEMMA RenamedHere ==
    ASSUME NEW k, NEW mp, NEW gone, NEW c, NEW i, NEW e, NEW L, NEW A, NEW el, NEW S,
           NEW s, NEW fl, NEW B, NEW M,
           RenameFacts(k, mp, gone, c, i, e, L, A, el, S, s, fl, B, M)
    PROVE  Fine(mp[c], M, B, fl, S \union {s})
<1>0. /\ k \in Nat /\ Safe(mp, doing, gone, k) /\ c \in Container
      /\ HeldAt(mp, c, i, e) /\ e # NoElement /\ Fine(mp[c], L, A, el, S)
      /\ \A t \in S : Brings(t) => t.element \in 1..k /\ t.element # e
      /\ s.do \in {"rename", "relabel"} /\ el[e].name = s.name /\ s.name \in Name
      /\ \A t \in S : About(t) \cap About(s) = {}
      /\ NameChanges(k, el, fl, e, s.to)
      /\ A \subseteq B /\ Turned(L, M, B, s.name, s.to)
    BY DEF RenameFacts
<1>1. PICK m : m = mp[c]
    OBVIOUS
<1>2. m \in AnyMap(k)
    BY <1>0, <1>1 DEF Safe
<1>3. /\ DOMAIN m.index = 1..Len(m.index)
      /\ \A j \in 1..Len(m.index) : m.element[j] \in (1..k) \union {NoElement}
    BY <1>0, <1>2, AnyParts
<1>4. /\ i \in DOMAIN m.index /\ e = m.element[i]
      /\ \A j \in DOMAIN m.index : m.element[j] = e => j = i
    BY <1>0, <1>1 DEF HeldAt
<1>5. \A j \in DOMAIN m.index : m.element[j] \notin {e, NoElement} =>
        fl[m.element[j]].name = el[m.element[j]].name
    BY <1>0, <1>3 DEF NameChanges
<1>7. \A t \in S : Brings(t) => fl[t.element].name = el[t.element].name
    BY <1>0 DEF NameChanges
<1>8. Fine(m, L, A, el, S) /\ \A t \in S : About(t) \cap About(s) = {}
    BY <1>0, <1>1
<1>9. fl[e].name = s.to
    BY <1>0 DEF NameChanges
<1>10. Renames(m, S, el, fl, i, e, s.to)
    BY <1>0, <1>4, <1>5, <1>7, <1>9 DEF Renames
<1>11. Fine(m, M, B, fl, S \union {s})
    BY <1>0, <1>8, <1>10, FineRename
<1> QED BY <1>1, <1>11

\* A renaming to make.
LEMMA RenamingIs ==
    ASSUME NEW c, NEW n, NEW to, NEW s, s = Renaming(c, n, to)
    PROVE  s.do \in {"rename", "relabel"} /\ s.on = c /\ s.name = n /\ s.to = to /\ ~Brings(s)
BY DEF Renaming, Brings

\* The elements with one renamed.
LEMMA RenamedElement ==
    ASSUME NEW s \in Seq(Object), NEW e \in 1..Len(s), NEW to,
           NEW fl, fl = [s EXCEPT ![e].name = to]
    PROVE  NameChanges(Len(s), s, fl, e, to)
<1>1. PICK o : o = [s[e] EXCEPT !.name = to]
    OBVIOUS
<1>2. s[e] \in Object
    OBVIOUS
<1>3. o.name = to
    BY <1>1, <1>2 DEF Object
<1>4. fl = [s EXCEPT ![e] = o]
    BY <1>1
<1>5. fl[e] = o /\ \A x \in 1..Len(s) : x # e => fl[x] = s[x]
    BY <1>4
<1> QED BY <1>3, <1>5 DEF NameChanges

\* An element that a client can have is at one place.
LEMMA HeldElement ==
    ASSUME Good, NEW c \in Container, NEW e \in DOMAIN elem, Held(c, e)
    PROVE  e \in 1..Len(elem) /\ e # NoElement /\ \E i : HeldAt(map, c, i, e)
<1>1. /\ Safe(map, doing, Gone, Len(elem)) /\ Len(elem) \in Nat
      /\ DOMAIN elem = 1..Len(elem)
    BY AtHand DEF Good
<1>2. e # NoElement
    BY <1>1, NoElementAssumption
<1>3. PICK i \in DOMAIN map[c].element : map[c].element[i] = e
    BY DEF Held
<1>4. HeldAt(map, c, i, e)
    BY <1>1, <1>2, <1>3, ElementAt
<1> QED BY <1>1, <1>2, <1>4

(* rename() of an element that one container has.                            *)
LEMMA RenameOneCoherent ==
    ASSUME Good, NEW th \in Thread, Alone(th), NEW c \in Container, NEW e \in DOMAIN elem,
           Held(c, e), NEW n, n = elem[e].name, NEW to,
           elem' = [elem EXCEPT ![e].name = to], Start(th, <<Renaming(c, n, to)>>),
           UNCHANGED map, around[c] \subseteq around'[c],
           Turned(Lists(c, db), Lists(c, db'), around'[c], n, to),
           \A d \in Container \ {c} :
             /\ around[d] \subseteq around'[d]
             /\ \A x \in Name \ around'[d] : x \in Lists(d, db') <=> x \in Lists(d, db)
    PROVE  Coherent'
<1>1. PICK k, s : k = Len(elem) /\ s = Renaming(c, n, to)
    OBVIOUS
<1>2. s.do \in {"rename", "relabel"} /\ s.on = c /\ s.name = n /\ s.to = to
    BY <1>1, RenamingIs
<1>3. OneMore(s)
  <2>1. Start(th, <<s>>)
      BY <1>1
  <2> QED BY <1>2, <2>1, StartsOne
<1>4. /\ elem \in Seq(Object) /\ k \in Nat /\ Safe(map, doing, Gone, k)
      /\ Calls(k) /\ doing \in [Thread -> Seq(Change(k))]
    BY <1>1, AtHand DEF Good, Entire
<1>5. e \in 1..k /\ e # NoElement /\ \E i : HeldAt(map, c, i, e)
    BY <1>1, HeldElement
<1>6. PICK i : HeldAt(map, c, i, e)
    BY <1>5
<1>7. PICK fl : fl = elem'
    OBVIOUS
<1>8. NameChanges(k, elem, fl, e, to)
  <2>1. fl = [elem EXCEPT ![e].name = to]
      BY <1>7
  <2> QED BY <1>1, <1>4, <1>5, <2>1, RenamedElement
<1>9. n \in Name
    BY <1>4, ObjectName
<1>10. Fine(map'[c], Lists(c, db'), around'[c], elem', On(c, doing'))
  <2>1. PICK L, M, A, B : /\ L = Lists(c, db) /\ M = Lists(c, db')
                          /\ A = around[c] /\ B = around'[c]
      OBVIOUS
  <2>2. Fine(map[c], L, A, elem, On(c, doing))
      BY <2>1 DEF Good, Coherent
  <2>3. A \subseteq B /\ Turned(L, M, B, s.name, s.to)
      BY <1>2, <2>1
  <2>4. \A t \in On(c, doing) : About(t) \cap About(s) = {}
      BY <1>3 DEF OneMore
  <2>5. NameChanges(k, elem, fl, e, s.to) /\ elem[e].name = s.name /\ s.name \in Name
      BY <1>2, <1>8, <1>9
  <2>8. \A t \in On(c, doing) : Brings(t) => t.element \in 1..k /\ t.element # e
      BY <1>4, <1>6, Pending DEF HeldAt
  <2>6. Fine(map[c], M, B, fl, On(c, doing) \union {s})
    <3>1. PICK S, m, g : S = On(c, doing) /\ m = map /\ g = Gone
        OBVIOUS
    <3>2. /\ k \in Nat /\ Safe(m, doing, g, k) /\ HeldAt(m, c, i, e) /\ e # NoElement
          /\ Fine(m[c], L, A, elem, S) /\ s.do \in {"rename", "relabel"}
        BY <1>2, <1>4, <1>5, <1>6, <2>2, <3>1
    <3>3. /\ \A t \in S : Brings(t) => t.element \in 1..k /\ t.element # e
          /\ \A t \in S : About(t) \cap About(s) = {}
        BY <2>4, <2>8, <3>1
    <3>4. RenameFacts(k, m, g, c, i, e, L, A, elem, S, s, fl, B, M)
        BY <2>3, <2>5, <3>2, <3>3 DEF RenameFacts
    <3>5. Fine(m[c], M, B, fl, S \union {s})
        BY <3>4, RenamedHere, Zenon
    <3> QED BY <3>1, <3>5
  <2>7. On(c, doing') = On(c, doing) \union {s}
      BY <1>2, <1>3 DEF OneMore
  <2> QED BY <1>7, <2>1, <2>6, <2>7
<1>11. ASSUME NEW d \in Container \ {c}
       PROVE  Fine(map'[d], Lists(d, db'), around'[d], elem', On(d, doing'))
  <2>1. PICK L, M, A, B : /\ L = Lists(d, db) /\ M = Lists(d, db')
                          /\ A = around[d] /\ B = around'[d]
      OBVIOUS
  <2>2. Fine(map[d], L, A, elem, On(d, doing))
      BY <2>1 DEF Good, Coherent
  <2>3. \A t \in On(d, doing) : Brings(t) => t.element \in 1..k /\ t.element # e
      BY <1>4, <1>6, Pending DEF HeldAt
  <2>4. Fine(map[d], L, A, fl, On(d, doing))
      BY <1>4, <1>6, <1>8, <2>2, <2>3, RenamedThere
  <2>5. A \subseteq B /\ \A x \in Name \ B : x \in M <=> x \in L
      BY <2>1
  <2>6. Fine(map[d], M, B, fl, On(d, doing))
      BY <2>4, <2>5, FineGrows
  <2>7. On(d, doing') = On(d, doing)
      BY <1>2, <1>3 DEF OneMore
  <2> QED BY <1>7, <2>1, <2>6, <2>7
<1> QED BY <1>3, <1>10, <1>11 DEF OneMore, Coherent

(* rename() of a table.                                                      *)
LEMMA RenameTableCoherent ==
    ASSUME Good, NEW th \in Thread, NEW e \in DOMAIN elem, NEW to \in Name,
           RenameTable(th, e, to), Alone(th)
    PROVE  Coherent'
<1>1. PICK n : n = elem[e].name
    OBVIOUS
<1>2. /\ Held("tables", e) /\ Renamed("table", n, to)
      /\ elem' = [elem EXCEPT ![e].name = to] /\ Start(th, <<Renaming("tables", n, to)>>)
      /\ around' = Carried(n, to) /\ UNCHANGED map
    BY <1>1 DEF RenameTable
<1>3. n \in Name /\ db \in [Name -> {"none", "table", "view"}]
    BY <1>1, AtHand, ObjectName DEF Good
<1>4. "tables" \in Container /\ "views" \in Container /\ Container \ {"tables"} = {"views"}
    BY DEF Container
<1>5. \A c \in Container : around'[c] = IF n \in around[c] THEN around[c] \union {to} ELSE around[c]
    BY <1>2 DEF Carried
<1>6. Turned(Lists("tables", db), Lists("tables", db'), around'["tables"], n, to)
    BY <1>2, <1>3, <1>4, <1>5 DEF Turned, Lists, Renamed
<1>7. around["tables"] \subseteq around'["tables"] /\ around["views"] \subseteq around'["views"]
    BY <1>4, <1>5
<1>8. \A x \in Name : x \in Lists("views", db') <=> x \in Lists("views", db)
    BY <1>2, <1>3 DEF Lists, Renamed
<1> QED BY <1>1, <1>2, <1>4, <1>6, <1>7, <1>8, RenameOneCoherent

(* rename() of a view as the views have it: the tables are not told.         *)
LEMMA RenameViewCoherent ==
    ASSUME Good, NEW th \in Thread, NEW e \in DOMAIN elem, NEW to \in Name,
           RenameView(th, e, to), Alone(th)
    PROVE  Coherent'
<1>1. PICK n : n = elem[e].name
    OBVIOUS
<1>2. /\ Held("views", e) /\ Renamed("view", n, to)
      /\ elem' = [elem EXCEPT ![e].name = to] /\ Start(th, <<Renaming("views", n, to)>>)
      /\ around' = [Carried(n, to) EXCEPT !["tables"] = @ \union {n, to}] /\ UNCHANGED map
    BY <1>1 DEF RenameView
<1>3. n \in Name /\ db \in [Name -> {"none", "table", "view"}]
    BY <1>1, AtHand, ObjectName DEF Good
<1>4. "tables" \in Container /\ "views" \in Container /\ Container \ {"views"} = {"tables"}
    BY DEF Container
<1>5. /\ around'["views"] = IF n \in around["views"] THEN around["views"] \union {to}
                                                     ELSE around["views"]
      /\ around["tables"] \union {n, to} \subseteq around'["tables"]
    BY <1>2, <1>4 DEF Carried
<1>6. Turned(Lists("views", db), Lists("views", db'), around'["views"], n, to)
    BY <1>2, <1>3, <1>4, <1>5 DEF Turned, Lists, Renamed
<1>7. around["views"] \subseteq around'["views"] /\ around["tables"] \subseteq around'["tables"]
    BY <1>5
<1>8. \A x \in Name \ around'["tables"] : x \in Lists("tables", db') <=> x \in Lists("tables", db)
  <2>1. n \in around'["tables"] /\ to \in around'["tables"]
      BY <1>5
  <2> QED BY <1>2, <1>3, <2>1 DEF Lists, Renamed
<1> QED BY <1>1, <1>2, <1>4, <1>6, <1>7, <1>8, RenameOneCoherent

\* The parts of the rename of a view as the tables have it.
ViewRenaming(th, e, to, n, both, v, own, f, got) ==
  /\ Held("tables", e) /\ n \in map["views"].names /\ v # NoElement
  /\ Renamed("view", own, to) /\ Keep(th, got)
  /\ Start(th, <<Renaming("views", f, to), Renaming("tables", n, to)>>)
  /\ around' = [Carried(n, to) EXCEPT !["tables"] = @ \union Misled(n, own, {to})]

\* What the rename of a view as the tables have it finds and does.
LEMMA ViewRenamingIs ==
    ASSUME NEW th, NEW e, NEW to, RenameViewOfTables(th, e, to), NEW n, n = elem[e].name,
           NEW both, both = Fetch("views", n, Now),
           NEW v, v = GetByIndex(both.map["views"], GetIndex(both.map["views"], n)),
           NEW own, own = both.elem[v].name, NEW f, f = IF RenamesViews THEN own ELSE n,
           NEW got, got = [both EXCEPT !.elem = [ViewRenamed(both, v, to) EXCEPT ![e].name = to]]
    PROVE  ViewRenaming(th, e, to, n, both, v, own, f, got)
<1>1. PICK p, q : p = Renaming("views", f, to) /\ q = Renaming("tables", n, to)
    OBVIOUS
<1>2. Held("tables", e) /\ n \in map["views"].names /\ Renamed("view", own, to)
    BY Zenon DEF RenameViewOfTables, HasByName
<1>3. v # NoElement
    BY Zenon DEF RenameViewOfTables, Has
<1>4. Keep(th, got)
    BY Zenon DEF RenameViewOfTables
<1>5. Start(th, <<p, q>>)
    BY <1>1 DEF RenameViewOfTables
<1>6. around' = [Carried(n, to) EXCEPT !["tables"] = @ \union Misled(n, own, {to})]
    BY Zenon DEF RenameViewOfTables
<1> QED BY <1>1, <1>2, <1>3, <1>4, <1>5, <1>6 DEF ViewRenaming

(* rename() of a view as the tables have it: both elements, where the driver *)
(* renames views.                                                            *)
LEMMA RenameViewOfTablesCoherent ==
    ASSUME Good, RenamesViews = TRUE, NEW th \in Thread, NEW e \in DOMAIN elem, NEW to \in Name,
           RenameViewOfTables(th, e, to), Alone(th)
    PROVE  Coherent'
<1>1. PICK n : n = elem[e].name
    OBVIOUS
<1>2. PICK both : both = Fetch("views", n, Now)
    OBVIOUS
<1>3. PICK v : v = GetByIndex(both.map["views"], GetIndex(both.map["views"], n))
    OBVIOUS
<1>4. PICK own : own = both.elem[v].name
    OBVIOUS
<1>5. PICK s, t : s = Renaming("views", own, to) /\ t = Renaming("tables", n, to)
    OBVIOUS
<1>6. PICK got : got = [both EXCEPT !.elem = [ViewRenamed(both, v, to) EXCEPT ![e].name = to]]
    OBVIOUS
<1>7. /\ Held("tables", e) /\ n \in map["views"].names /\ v # NoElement
      /\ Renamed("view", own, to) /\ Keep(th, got) /\ Start(th, <<s, t>>)
      /\ around' = [Carried(n, to) EXCEPT !["tables"] = @ \union Misled(n, own, {to})]
  <2>1. PICK f : f = IF RenamesViews THEN own ELSE n
      OBVIOUS
  <2>2. f = own
      BY <2>1
  <2>3. ViewRenaming(th, e, to, n, both, v, own, f, got)
      BY <1>1, <1>2, <1>3, <1>4, <1>6, <2>1, ViewRenamingIs, Zenon
  <2>4. Start(th, <<s, t>>)
      BY <1>5, <2>2, <2>3 DEF ViewRenaming
  <2> QED BY <2>3, <2>4 DEF ViewRenaming
<1>8. "tables" \in Container /\ "views" \in Container
    BY DEF Container
<1>9. /\ s.do \in {"rename", "relabel"} /\ s.on = "views" /\ s.name = own /\ s.to = to /\ ~Brings(s)
      /\ t.do \in {"rename", "relabel"} /\ t.on = "tables" /\ t.name = n /\ t.to = to /\ ~Brings(t)
    BY <1>5, RenamingIs
<1>10. TwoMore(s, t)
    BY <1>7, <1>9, StartsTwo
<1>11. \A c : \A x \in On(c, doing) : n \notin About(x)
    BY <1>9, <1>10 DEF TwoMore, About
<1>12. n \in Name /\ db \in [Name -> {"none", "table", "view"}]
    BY <1>1, AtHand, ObjectName DEF Good
<1>13. Fetched(Now, both)
  <2>1. HasByName(Now.map["views"], n)
      BY <1>7, NowAgrees DEF HasByName
  <2>2. \A x \in On("views", doing) : x.do \in {"rename", "relabel"} => x.name # n
      BY <1>11 DEF About
  <2> QED BY <1>2, <1>8, <1>12, <2>1, <2>2, NowAgrees, FetchAgrees
<1>14. PICK k, mp, el : k = Len(both.elem) /\ mp = both.map /\ el = both.elem
    OBVIOUS
<1>15. /\ el \in Seq(Object) /\ k \in Nat /\ k = Len(el) /\ Safe(mp, doing, Gone, k)
       /\ Len(elem) <= k /\ \A x \in 1..Len(elem) : el[x] = elem[x]
       /\ Calls(k) /\ doing \in [Thread -> Seq(Change(k))]
       /\ mp["views"].names = map["views"].names
       /\ \A c \in Container : Fine(mp[c], Lists(c, db), around[c], el, On(c, doing))
  <2>1. Len(elem) <= k /\ \A x \in 1..Len(elem) : el[x] = elem[x]
      BY <1>13, <1>14, NowAgrees DEF Fetched
  <2>2. Ready(both) /\ mp["views"].names = map["views"].names
      BY <1>8, <1>13, <1>14, NowAgrees DEF Fetched, SameEntries
  <2>3. /\ el \in Seq(Object) /\ Safe(mp, doing, Gone, k) /\ Calls(k)
        /\ \A c \in Container : Fine(mp[c], Lists(c, db), around[c], el, On(c, doing))
      BY <1>14, <2>2 DEF Ready, Agree
  <2>4. doing \in [Thread -> Seq(Change(k))]
      BY <2>3 DEF Calls
  <2> QED BY <1>14, <2>1, <2>2, <2>3, <2>4
<1>16. mp["views"] \in Map(k) /\ mp["tables"] \in Map(k)
    BY <1>8, <1>13, <1>14 DEF Fetched, Ready
<1>17. PICK i : HeldAt(mp, "views", i, v)
  <2>1. PICK m : m = mp["views"]
      OBVIOUS
  <2>2. PICK j : j = Slot(m, n)
      OBVIOUS
  <2>3. m \in Map(k) /\ n \in m.names
      BY <1>7, <1>15, <1>16, <2>1
  <2>4. GetName(m, GetIndex(m, n)) = n
      BY <1>15, <2>3, OrderFacts
  <2>5. v = m.element[j]
      BY <1>3, <1>14, <2>1, <2>2, <2>4 DEF GetByIndex
  <2>6. j \in DOMAIN m.element
    <3>1. j \in 1..Len(m.index) /\ DOMAIN m.element = 1..Len(m.index)
        BY <1>15, <2>2, <2>3, SlotFacts
    <3> QED BY <3>1
  <2> QED BY <1>7, <1>8, <1>15, <2>1, <2>5, <2>6, ElementAt
<1>18. v \in 1..k
  <2>1. PICK m : m = mp["views"]
      OBVIOUS
  <2>2. m \in Map(k)
      BY <1>16, <2>1
  <2>3. /\ DOMAIN m.index = 1..Len(m.index)
        /\ \A j \in 1..Len(m.index) : m.element[j] \in (1..k) \union {NoElement}
      BY <1>15, <2>2, MapParts
  <2>4. i \in DOMAIN m.index /\ m.element[i] = v
      BY <1>17, <2>1 DEF HeldAt
  <2> QED BY <1>7, <2>3, <2>4
<1>19. own = n \/ (n \in around["views"] /\ own \in around["views"])
  <2>1. Fine(mp["views"], Lists("views", db), around["views"], el, On("views", doing))
      BY <1>8, <1>15
  <2>2. v = GetByIndex(mp["views"], GetIndex(mp["views"], n)) /\ own = el[v].name
        /\ n \in mp["views"].names
      BY <1>3, <1>4, <1>7, <1>14, <1>15
  <2>3. \A x \in On("views", doing) : n \notin About(x)
      BY <1>11
  <2>4. PICK m, L, A, S : /\ m = mp["views"] /\ L = Lists("views", db)
                          /\ A = around["views"] /\ S = On("views", doing)
      OBVIOUS
  <2>5. m \in Map(k) /\ k \in Nat /\ Fine(m, L, A, el, S) /\ n \in m.names /\ v = GetByIndex(m, GetIndex(m, n))
      BY <1>15, <1>16, <2>1, <2>2, <2>4
  <2>6. v # NoElement /\ \A x \in S : n \notin About(x)
      BY <1>7, <2>3, <2>4
  <2>7. own = n \/ (n \in A /\ own \in A)
      BY <2>2, <2>5, <2>6, OwnName
  <2> QED BY <2>4, <2>7
<1>20. e \in 1..k /\ e # NoElement /\ el[e].name = n
  <2>1. e \in 1..Len(elem) /\ e # NoElement /\ Len(elem) \in Nat
      BY <1>7, <1>8, HeldElement, AtHand DEF Good
  <2> QED BY <1>1, <1>15, <2>1
<1>21. PICK h : HeldAt(mp, "tables", h, e)
  <2>1. PICK j : HeldAt(map, "tables", j, e)
      BY <1>7, <1>8, HeldElement
  <2>2. mp["tables"] = map["tables"]
    <3>1. map = [c \in Container |-> map[c]]
        BY AtHand DEF Good
    <3>2. mp = map \/ \E w : mp = [map EXCEPT !["views"] = w]
        BY <1>2, <1>14, NowAgrees DEF Fetch
    <3> QED BY <1>8, <3>1, <3>2
  <2>3. j \in DOMAIN mp["tables"].index /\ mp["tables"].element[j] = e
      BY <2>1, <2>2 DEF HeldAt
  <2>4. j \in DOMAIN mp["tables"].element
    <3>1. PICK m : m = mp["tables"]
        OBVIOUS
    <3>2. m \in Map(k)
        BY <1>16, <3>1
    <3>3. DOMAIN m.index = 1..Len(m.index) /\ DOMAIN m.element = 1..Len(m.index)
        BY <1>15, <3>2, MapParts
    <3> QED BY <2>3, <3>1, <3>3
  <2> QED BY <1>8, <1>15, <1>20, <2>3, <2>4, ElementAt
<1>22. PICK el1 : el1 = [el EXCEPT ![v].name = to]
    OBVIOUS
<1>23. el1 \in Seq(Object) /\ Len(el1) = k /\ NameChanges(k, el, el1, v, to)
  <2>1. v \in DOMAIN el /\ v \in 1..Len(el) /\ el \in Seq(Object) /\ Len(el) = k
      BY <1>15, <1>18
  <2>2. el1 \in Seq(Object) /\ Len(el1) = Len(el)
      BY <1>22, <2>1, RenamedObject
  <2>3. NameChanges(Len(el), el, el1, v, to)
      BY <1>22, <2>1, RenamedElement
  <2> QED BY <2>1, <2>2, <2>3
<1>24. PICK el2 : el2 = [el1 EXCEPT ![e].name = to]
    OBVIOUS
<1>25. NameChanges(k, el1, el2, e, to)
    BY <1>20, <1>23, <1>24, RenamedElement
<1>26. map' = mp /\ elem' = el2
  <2>1. both = [map |-> mp, elem |-> el]
      BY <1>2, <1>14 DEF Fetch, Now
  <2>2. ViewRenamed(both, v, to) = el1
      BY <1>14, <1>22 DEF ViewRenamed
  <2>3. got.map = mp /\ got.elem = el2
      BY <1>6, <1>24, <2>1, <2>2
  <2> QED BY <1>7, <2>3 DEF Keep
<1>27. own \in Name
  <2>1. v \in DOMAIN el
      BY <1>15, <1>18
  <2> QED BY <1>4, <1>14, <1>15, <2>1, ObjectName
<1>28. e # v
    BY <1>8, <1>17, <1>21 DEF HeldAt
<1>29. /\ around'["views"] = IF n \in around["views"] THEN around["views"] \union {to}
                                                      ELSE around["views"]
       /\ around["tables"] \union Misled(n, own, {to}) \subseteq around'["tables"]
       /\ n \in around["tables"] => to \in around'["tables"]
       /\ n \in around'["tables"] => to \in around'["tables"]
  <2>1. around'["tables"] = Carried(n, to)["tables"] \union Misled(n, own, {to})
      BY <1>7, <1>8 DEF Carried
  <2>2. Carried(n, to)["tables"] = IF n \in around["tables"] THEN around["tables"] \union {to}
                                                            ELSE around["tables"]
      BY <1>8 DEF Carried
  <2>3. around'["views"] = Carried(n, to)["views"]
      BY <1>7, <1>8 DEF Carried
  <2>4. Carried(n, to)["views"] = IF n \in around["views"] THEN around["views"] \union {to}
                                                          ELSE around["views"]
      BY <1>8 DEF Carried
  <2>5. n \in Misled(n, own, {to}) => to \in Misled(n, own, {to})
      BY DEF Misled
  <2> QED BY <2>1, <2>2, <2>3, <2>4, <2>5
<1>30. db[own] = "view" /\ db[to] = "none" /\ db' = [db EXCEPT ![own] = "none", ![to] = "view"]
    BY <1>7 DEF Renamed
<1>31. Fine(map'["views"], Lists("views", db'), around'["views"], elem', On("views", doing'))
  <2>1. PICK L, M, A, B : /\ L = Lists("views", db) /\ M = Lists("views", db')
                          /\ A = around["views"] /\ B = around'["views"]
      OBVIOUS
  <2>2. Fine(mp["views"], L, A, el, On("views", doing))
      BY <1>8, <1>15, <2>1
  <2>3. own \in B => to \in B
      BY <1>19, <1>29, <2>1
  <2>4. Turned(L, M, B, own, to)
      BY <1>12, <1>27, <1>30, <2>1, <2>3 DEF Turned, Lists
  <2>5. A \subseteq B /\ Turned(L, M, B, s.name, s.to)
      BY <1>9, <1>29, <2>1, <2>4
  <2>6. \A x \in On("views", doing) : About(x) \cap About(s) = {}
      BY <1>10 DEF TwoMore
  <2>7. NameChanges(k, el, el1, v, s.to) /\ el[v].name = s.name /\ s.name \in Name
      BY <1>4, <1>9, <1>14, <1>23, <1>27
  <2>12. \A x \in On("views", doing) : Brings(x) => x.element \in 1..k /\ x.element # v
      BY <1>15, <1>17, Pending DEF HeldAt
  <2>8. Fine(mp["views"], M, B, el1, On("views", doing) \union {s})
    <3>1. PICK S, c, g : S = On("views", doing) /\ c = "views" /\ g = Gone
        OBVIOUS
    <3>2. /\ k \in Nat /\ Safe(mp, doing, g, k) /\ HeldAt(mp, c, i, v) /\ v # NoElement
          /\ Fine(mp[c], L, A, el, S) /\ s.do \in {"rename", "relabel"} /\ c \in Container
        BY <1>7, <1>8, <1>9, <1>15, <1>17, <2>2, <3>1
    <3>3. /\ \A t1 \in S : Brings(t1) => t1.element \in 1..k /\ t1.element # v
          /\ \A t1 \in S : About(t1) \cap About(s) = {}
        BY <2>6, <2>12, <3>1
    <3>4. RenameFacts(k, mp, g, c, i, v, L, A, el, S, s, el1, B, M)
        BY <2>5, <2>7, <3>2, <3>3 DEF RenameFacts
    <3>5. Fine(mp[c], M, B, el1, S \union {s})
        BY <3>4, RenamedHere, Zenon
    <3> QED BY <3>1, <3>5
  <2>9. \A x \in On("views", doing) \union {s} : Brings(x) => x.element \in 1..k /\ x.element # e
    <3>1. \A x \in On("views", doing) : Brings(x) => x.element \in 1..k
        BY <1>15, Pending
    <3>2. \A x \in On("views", doing) : Brings(x) => x.element # e
        BY <1>21 DEF HeldAt
    <3> QED BY <1>9, <3>1, <3>2
  <2>10. Fine(mp["views"], M, B, el2, On("views", doing) \union {s})
      BY <1>8, <1>15, <1>21, <1>25, <2>8, <2>9, RenamedThere
  <2>11. On("views", doing') = On("views", doing) \union {s}
      BY <1>9, <1>10 DEF TwoMore
  <2> QED BY <1>26, <2>1, <2>10, <2>11
<1>32. Fine(map'["tables"], Lists("tables", db'), around'["tables"], elem', On("tables", doing'))
  <2>1. PICK L, M, A, B : /\ L = Lists("tables", db) /\ M = Lists("tables", db')
                          /\ A = around["tables"] /\ B = around'["tables"]
      OBVIOUS
  <2>2. Fine(mp["tables"], L, A, el, On("tables", doing))
      BY <1>8, <1>15, <2>1
  <2>3. \A x \in On("tables", doing) : Brings(x) => x.element \in 1..k /\ x.element # v
    <3>1. \A x \in On("tables", doing) : Brings(x) => x.element \in 1..k
        BY <1>15, Pending
    <3>2. \A x \in On("tables", doing) : Brings(x) => x.element # v
        BY <1>17 DEF HeldAt
    <3> QED BY <3>1, <3>2
  <2>4. Fine(mp["tables"], L, A, el1, On("tables", doing))
      BY <1>8, <1>15, <1>17, <1>23, <2>2, <2>3, RenamedThere
  <2>5. own # n => n \in B /\ own \in B /\ to \in B
      BY <1>29, <2>1 DEF Misled
  <2>6. Turned(L, M, B, n, to)
    <3>1. CASE own = n
        BY <1>12, <1>27, <1>29, <1>30, <2>1, <3>1 DEF Turned, Lists
    <3>2. CASE own # n
        BY <1>12, <1>27, <1>30, <2>1, <2>5, <3>2 DEF Turned, Lists
    <3> QED BY <3>1, <3>2
  <2>7. A \subseteq B /\ Turned(L, M, B, t.name, t.to)
      BY <1>9, <1>29, <2>1, <2>6
  <2>8. \A x \in On("tables", doing) : About(x) \cap About(t) = {}
      BY <1>10 DEF TwoMore
  <2>9. NameChanges(k, el1, el2, e, t.to) /\ el1[e].name = t.name /\ t.name \in Name
      BY <1>9, <1>12, <1>20, <1>23, <1>25, <1>28 DEF NameChanges
  <2>12. \A x \in On("tables", doing) : Brings(x) => x.element \in 1..k /\ x.element # e
      BY <1>15, <1>21, Pending DEF HeldAt
  <2>10. Fine(mp["tables"], M, B, el2, On("tables", doing) \union {t})
    <3>1. PICK S, c, g : S = On("tables", doing) /\ c = "tables" /\ g = Gone
        OBVIOUS
    <3>2. /\ k \in Nat /\ Safe(mp, doing, g, k) /\ HeldAt(mp, c, h, e) /\ e # NoElement
          /\ Fine(mp[c], L, A, el1, S) /\ t.do \in {"rename", "relabel"} /\ c \in Container
        BY <1>8, <1>9, <1>15, <1>20, <1>21, <2>4, <3>1
    <3>3. /\ \A t1 \in S : Brings(t1) => t1.element \in 1..k /\ t1.element # e
          /\ \A t1 \in S : About(t1) \cap About(t) = {}
        BY <2>8, <2>12, <3>1
    <3>4. RenameFacts(k, mp, g, c, h, e, L, A, el1, S, t, el2, B, M)
        BY <2>7, <2>9, <3>2, <3>3 DEF RenameFacts
    <3>5. Fine(mp[c], M, B, el2, S \union {t})
        BY <3>4, RenamedHere, Zenon
    <3> QED BY <3>1, <3>5
  <2>11. On("tables", doing') = On("tables", doing) \union {t}
      BY <1>9, <1>10 DEF TwoMore
  <2> QED BY <1>26, <2>1, <2>10, <2>11
<1> QED BY <1>10, <1>31, <1>32, BothFine DEF TwoMore

\* A call that starts with a refresh is one.
LEMMA RenewsIs ==
    ASSUME OnePlace, NEW th \in Thread, Call(th), Renews(doing'[th])
    PROVE  \E c \in Container : Refresh(th, c)
<1>0. doing \in [Thread -> Seq(Step(Len(elem)))]
    BY Parts DEF Safe
<1>1. ASSUME NEW steps, Start(th, steps), NEW s, Head(steps) = s, s.do \notin {"empty", "refill"}
      PROVE  FALSE
    BY <1>0, <1>1 DEF Start, Renews
<1>2. ASSUME NEW c \in Container, NEW n \in Name, Look(th, c, n) PROVE FALSE
  <2>1. PICK s : s = AtPlace("create", c, n)
      OBVIOUS
  <2>2. Head(<<s>>) = s /\ s.do = "create"
      BY <2>1 DEF AtPlace
  <2>3. Start(th, <<s>>)
      BY <1>2, <2>1 DEF Look
  <2> QED BY <1>1, <2>2, <2>3
<1>3. ASSUME NEW c \in Container, NEW n \in Name, AppendByDescriptor(th, c, n) PROVE FALSE
  <2>1. PICK s, t : s = Addition(c, n) /\ t = WithElement("insert", "tables", n, NoElement)
      OBVIOUS
  <2>2. Head(<<s>>) = s /\ s.do = "add" /\ Head(<<t, s>>) = t /\ t.do = "insert"
      BY <2>1 DEF Addition, WithElement
  <2>3. Start(th, <<s>>) \/ Start(th, <<t, s>>)
      BY <1>3, <2>1 DEF AppendByDescriptor, Additions
  <2> QED BY <1>1, <2>2, <2>3
<1>4. ASSUME NEW n \in Name, DropTable(th, n) \/ DropView(th, n) \/ DropViewOfTables(th, n)
      PROVE  FALSE
  <2>1. PICK s, t : s = Removal("tables", n) /\ t = Removal("views", n)
      OBVIOUS
  <2>2. Head(<<s>>) = s /\ s.do = "remove" /\ Head(<<t, s>>) = t /\ t.do = "remove" /\ Head(<<t>>) = t
      BY <2>1 DEF Removal, AtPlace
  <2>3. Start(th, <<s>>) \/ Start(th, <<t>>) \/ Start(th, <<t, s>>)
      BY <1>4, <2>1 DEF DropTable, DropView, DropViewOfTables, BothRemovals
  <2> QED BY <1>1, <2>2, <2>3
<1>5. ASSUME NEW e \in DOMAIN elem, NEW to \in Name, RenameTable(th, e, to) \/ RenameView(th, e, to)
      PROVE  FALSE
  <2>1. PICK s, t : /\ s = Renaming("tables", elem[e].name, to)
                    /\ t = Renaming("views", elem[e].name, to)
      OBVIOUS
  <2>2. Head(<<s>>) = s /\ s.do = "rename" /\ Head(<<t>>) = t /\ t.do = "rename"
      BY <2>1 DEF Renaming
  <2>3. Start(th, <<s>>) \/ Start(th, <<t>>)
      BY <1>5, <2>1 DEF RenameTable, RenameView
  <2> QED BY <1>1, <2>2, <2>3
<1>6. ASSUME NEW e \in DOMAIN elem, NEW to \in Name, RenameViewOfTables(th, e, to) PROVE FALSE
  <2>1. PICK old, s, t : /\ Start(th, <<s, t>>)
                         /\ s = Renaming("views", old, to)
                         /\ t = Renaming("tables", elem[e].name, to)
      BY <1>6 DEF RenameViewOfTables
  <2>2. Head(<<s, t>>) = s /\ s.do = "rename"
      BY <2>1 DEF Renaming
  <2> QED BY <1>1, <2>1, <2>2
<1> QED BY <1>2, <1>3, <1>4, <1>5, <1>6 DEF Call

\* What to do is changes, if nothing of it is of a refresh.
LEMMA ChangesOnly ==
    ASSUME NEW k, NEW q \in Seq(Step(k)), \A j \in DOMAIN q : q[j].do \notin {"empty", "refill"}
    PROVE  q \in Seq(Change(k))
<1>1. q \in [1..Len(q) -> Step(k)] /\ Len(q) \in Nat /\ DOMAIN q = 1..Len(q)
    OBVIOUS
<1>2. ASSUME NEW j \in 1..Len(q) PROVE q[j] \in Change(k)
  <2>1. q[j] \in Step(k) /\ q[j].do \notin {"empty", "refill"}
      BY <1>1
  <2> QED BY <2>1 DEF Step
<1>3. q \in [1..Len(q) -> Change(k)]
    BY <1>1, <1>2
<1> QED BY <1>1, <1>3

\* The other calls stay changes of maps when a step is no refresh.
LEMMA CallsStay ==
    ASSUME OnePlace, OnePlace', Calls(Len(elem)), NEW th \in Thread, Call(th) \/ GoOn(th),
           \A c \in Container : ~Refresh(th, c)
    PROVE  Calls(Len(elem))'
<1>1. PICK todo, next, k, l : todo = doing /\ next = doing' /\ k = Len(elem) /\ l = Len(elem')
    OBVIOUS
<1>2. todo \in [Thread -> Seq(Change(k))]
    BY <1>1 DEF Calls
<1>3. next \in [Thread -> Seq(Step(l))]
    BY <1>1 DEF OnePlace, Safe
<1>4. ASSUME NEW o \in Thread, NEW j \in DOMAIN todo[o]
      PROVE  todo[o][j].do \notin {"empty", "refill"}
  <2>1. PICK q : q = todo[o]
      OBVIOUS
  <2>2. q \in Seq(Change(k))
      BY <1>2, <2>1
  <2>3. q[j] \in Change(k)
      BY <2>1, <2>2
  <2> QED BY <2>1, <2>3 DEF Change
<1>5. ASSUME NEW j \in DOMAIN next[th]
      PROVE  next[th][j].do \notin {"empty", "refill"}
  <2>1. PICK q, r : q = todo[th] /\ r = next[th]
      OBVIOUS
  <2>2. q \in Seq(Change(k)) /\ r \in Seq(Step(l)) /\ \A h \in DOMAIN q : q[h].do \notin {"empty", "refill"}
      BY <1>2, <1>3, <1>4, <2>1
  <2>3. CASE Idle(th) /\ Untested(r)
    <3>1. Call(th)
        BY <2>3 DEF GoOn, Create, CreateFails, Throw, TakeOut, Insert, Add, Replace, Relabel,
                    Empty, RefillOne, RefillFails, Doing
    <3>2. ~Renews(r)
        BY <1>1, <2>1, <3>1, RenewsIs
    <3> QED BY <2>1, <2>3, <3>2 DEF Untested
  <2>4. CASE q # <<>> /\ r = Tail(q)
    <3>1. j \in 1..(Len(q) - 1) /\ r[j] = q[j + 1] /\ j + 1 \in DOMAIN q
        BY <2>1, <2>2, <2>4
    <3> QED BY <2>1, <2>2, <3>1
  <2>5. CASE r = <<>>
      BY <2>1, <2>5
  <2>6. CASE \E what \in {"add", "relabel"} : r = [q EXCEPT ![1].do = what]
    <3>1. PICK what \in {"add", "relabel"} : r = [q EXCEPT ![1].do = what]
        BY <2>6
    <3>2. j \in DOMAIN q /\ (j # 1 => r[j] = q[j])
        BY <2>1, <2>2, <3>1
    <3>3. j = 1 => r[j] = [q[1] EXCEPT !.do = what] /\ q[1] \in Change(k)
        BY <2>2, <3>1, <3>2
    <3>4. j = 1 => r[j].do = what
        BY <3>3 DEF Change
    <3> QED BY <2>1, <2>2, <3>2, <3>4
  <2>7. \/ Idle(th) /\ Untested(r)
        \/ q # <<>> /\ r = Tail(q)
        \/ r = <<>>
        \/ \E what \in {"add", "relabel"} : r = [q EXCEPT ![1].do = what]
      BY <1>1, <2>1, Moves DEF Idle
  <2> QED BY <2>3, <2>4, <2>5, <2>6, <2>7
<1>6. ASSUME NEW o \in Thread
      PROVE  next[o] \in Seq(Change(l))
  <2>1. o # th => next[o] = todo[o]
      BY <1>1, Moves
  <2>2. \A j \in DOMAIN next[o] : next[o][j].do \notin {"empty", "refill"}
      BY <1>4, <1>5, <2>1
  <2> QED BY <1>3, <2>2, ChangesOnly
<1>7. next \in [Thread -> Seq(Change(l))]
    BY <1>3, <1>6
<1> QED BY <1>1, <1>7 DEF Calls

\* What a call to refresh has to do, and what is left of it.
LEMMA RefreshingIs ==
    /\ \A c : /\ Refreshing(c) # <<>> /\ Head(Refreshing(c)).do = "empty"
              /\ Head(Refreshing(c)).on = c /\ Tail(Refreshing(c)) = Refilling
    /\ Refilling # <<>> /\ Head(Refilling).do = "refill" /\ Head(Refilling).on = "tables"
    /\ Tail(Refilling) = RefillingViews
    /\ RefillingViews # <<>> /\ Head(RefillingViews).do = "refill" /\ Head(RefillingViews).on = "views"
    /\ Tail(RefillingViews) = <<>>
<1>1. ASSUME NEW x, NEW y, NEW z
      PROVE  /\ <<x, y, z>> # <<>> /\ Head(<<x, y, z>>) = x /\ Tail(<<x, y, z>>) = <<y, z>>
             /\ <<y, z>> # <<>> /\ Head(<<y, z>>) = y /\ Tail(<<y, z>>) = <<z>>
             /\ <<z>> # <<>> /\ Head(<<z>>) = z /\ Tail(<<z>>) = <<>>
    OBVIOUS
<1>2. ASSUME NEW c
      PROVE  /\ Refreshing(c) # <<>> /\ Head(Refreshing(c)).do = "empty"
             /\ Head(Refreshing(c)).on = c /\ Tail(Refreshing(c)) = Refilling
  <2>1. PICK x, y, z : /\ x = [do |-> "empty", on |-> c]
                       /\ y = [do |-> "refill", on |-> "tables"]
                       /\ z = [do |-> "refill", on |-> "views"]
      OBVIOUS
  <2>2. Refreshing(c) = <<x, y, z>> /\ Refilling = <<y, z>> /\ x.do = "empty" /\ x.on = c
      BY <2>1 DEF Refreshing, Refilling
  <2> QED BY <1>1, <2>2
<1>3. PICK y, z : /\ y = [do |-> "refill", on |-> "tables"]
                  /\ z = [do |-> "refill", on |-> "views"]
    OBVIOUS
<1>4. /\ Refilling = <<y, z>> /\ RefillingViews = <<z>>
      /\ y.do = "refill" /\ y.on = "tables" /\ z.do = "refill" /\ z.on = "views"
    BY <1>3 DEF Refilling, RefillingViews
<1> QED BY <1>1, <1>2, <1>4

\* With no call under way there is nothing to come.
LEMMA AllIdle ==
    ASSUME NEW todo, \A o \in Thread : todo[o] = <<>>
    PROVE  Apart(todo) /\ \A c : On(c, todo) = {}
<1>1. \A o \in Thread : DOMAIN todo[o] = {}
    OBVIOUS
<1>2. Apart(todo)
  <2>1. \A o \in Thread : NamesOf(todo[o]) = {}
      BY <1>1 DEF NamesOf
  <2> QED BY <1>1, <2>1 DEF Apart
<1> QED BY <1>1, <1>2 DEF On

(* refresh() starts with no other call under way.                            *)
LEMMA RefreshStarts ==
    ASSUME Good, NEW th \in Thread, NEW c \in Container, Refresh(th, c), Alone(th)
    PROVE  Renewal'
<1>1. Idle(th) /\ doing' = [doing EXCEPT ![th] = Refreshing(c)] /\ UNCHANGED <<db, map, elem, around>>
    BY DEF Refresh, Start
<1>2. doing \in [Thread -> Seq(Change(Len(elem)))]
    BY AtHand DEF Good
<1>3. doing'[th] = Refreshing(c) /\ \A o \in Thread \ {th} : doing'[o] = doing[o]
    BY <1>1, <1>2
<1>4. \A o \in Thread \ {th} : doing[o] = <<>>
  <2>1. Renews(doing'[th])
      BY <1>3, RefreshingIs DEF Renews
  <2> QED BY <2>1 DEF Alone, Overlap, Renews
<1>5. \A d : On(d, doing) = {}
    BY <1>1, <1>4, AllIdle DEF Idle
<1>6. \A d \in Container : Right(d)
    BY <1>5 DEF Good, Coherent, Right
<1>7. \A d \in Container : Right(d)'
    BY <1>1, <1>6 DEF Right
<1>8. Renewing(doing[th])'
    BY <1>3, <1>7 DEF Renewing
<1>9. \A o \in Thread \ {th} : Idle(o)'
    BY <1>3, <1>4 DEF Idle
<1> QED BY <1>8, <1>9 DEF Renewal

\* The whole of a refresh, step by step.
Renewed(th) == Renewing(doing[th]) /\ \A o \in Thread \ {th} : Idle(o)

\* A call that refreshes is under way with its lock.
LEMMA RenewsNow ==
    ASSUME NEW th, Renewed(th)
    PROVE  doing[th] # <<>> /\ Head(doing[th]).do \in {"empty", "refill"}
BY RefreshingIs DEF Renewed, Renewing

\* The step that empties.
LEMMA EmptyRenews ==
    ASSUME OnePlace, around = [c \in Container |-> around[c]], NEW th \in Thread, Renewed(th), Empty(th)
    PROVE  Renewal'
<1>1. PICK c : c = Head(doing[th]).on
    OBVIOUS
<1>2. /\ Head(doing[th]).do = "empty" /\ map' = [map EXCEPT ![c] = EmptyMap]
      /\ around' = [around EXCEPT ![c] = {}]
      /\ doing' = [doing EXCEPT ![th] = Tail(doing[th])] /\ UNCHANGED <<db, elem>>
    BY <1>1 DEF Empty, Doing, Clear, Done
<1>3. doing \in [Thread -> Seq(Step(Len(elem)))] /\ map = [d \in Container |-> map[d]]
    BY Parts DEF Safe
<1>4. c \in Container /\ doing[th] = Refreshing(c) /\ \A d \in Container : Right(d)
    BY <1>1, <1>2, RefreshingIs DEF Renewed, Renewing
<1>5. doing'[th] = Refilling /\ \A o \in Thread \ {th} : doing'[o] = doing[o]
    BY <1>2, <1>3, <1>4, RefreshingIs
<1>6. ASSUME NEW d \in Container PROVE RightOrEmpty(d)'
  <2>1. CASE d = c
      BY <1>2, <1>3, <2>1 DEF RightOrEmpty
  <2>2. CASE d # c
    <3>1. map'[d] = map[d] /\ around'[d] = around[d]
        BY <1>2, <1>3, <2>2
    <3>2. Right(d)'
        BY <1>2, <1>4, <3>1 DEF Right
    <3> QED BY <3>2 DEF RightOrEmpty
  <2> QED BY <2>1, <2>2
<1>7. Renewed(th)'
    BY <1>5, <1>6 DEF Renewed, Renewing, Idle
<1> QED BY <1>7 DEF Renewal, Renewed

\* The step that adds the names of the database makes a container right.
LEMMA RefillsRight ==
    ASSUME OnePlace, AllWhole, NEW c \in Container, RightOrEmpty(c),
           map' = [map EXCEPT ![c] = Refill(map[c], Lists(c, db))], UNCHANGED <<db, elem, around>>
    PROVE  Right(c)' /\ \A d \in Container \ {c} : RightOrEmpty(d) => RightOrEmpty(d)'
<1>1. map = [d \in Container |-> map[d]] /\ Len(elem) \in Nat
    BY Parts DEF Safe
<1>2. map'[c] = Refill(map[c], Lists(c, db)) /\ \A d \in Container \ {c} : map'[d] = map[d]
    BY <1>1
<1>3. Lists(c, db) \in SUBSET Name
    BY DEF Lists
<1>4. Right(c)'
  <2>1. PICK L, A, m, el, k : L = Lists(c, db) /\ A = around[c] /\ m = map[c] /\ el = elem /\ k = Len(elem)
      OBVIOUS
  <2>2. m \in Map(k) /\ k \in Nat /\ L \in SUBSET Name
      BY <1>1, <1>3, <2>1 DEF AllWhole
  <2>3. CASE Right(c)
    <3>1. Fine(m, L, A, el, {})
        BY <2>1, <2>3 DEF Right
    <3>2. Fine(Refill(m, L), L, A, el, {})
        BY <2>2, <3>1, FineRefilled
    <3> QED BY <1>2, <2>1, <3>2 DEF Right
  <2>4. CASE m = EmptyMap
    <3>1. Fine(Refill(EmptyMap, L), L, A, el, {})
        BY <2>2, FineFilled
    <3> QED BY <1>2, <2>1, <2>4, <3>1 DEF Right
  <2> QED BY <2>1, <2>3, <2>4 DEF RightOrEmpty
<1>5. ASSUME NEW d \in Container \ {c}, RightOrEmpty(d) PROVE RightOrEmpty(d)'
    BY <1>2, <1>5 DEF RightOrEmpty, Right
<1> QED BY <1>4, <1>5

\* When all is done, nothing is to come and every container is right.
LEMMA RenewalEnds ==
    ASSUME NEW todo, \A o \in Thread : todo[o] = <<>>, NEW k, todo \in [Thread -> Seq(Step(k))],
           NEW mp, NEW data, NEW behind, NEW el,
           \A d \in Container : Fine(mp[d], Lists(d, data), behind[d], el, {})
    PROVE  /\ todo \in [Thread -> Seq(Change(k))] /\ Apart(todo)
           /\ \A d \in Container : Fine(mp[d], Lists(d, data), behind[d], el, On(d, todo))
<1>1. Apart(todo) /\ \A d : On(d, todo) = {}
    BY AllIdle
<1>2. \A o \in Thread : todo[o] \in Seq(Change(k))
  <2>1. <<>> \in Seq(Change(k))
      OBVIOUS
  <2> QED BY <2>1
<1> QED BY <1>1, <1>2


\* The step that refills a container, the last of a refresh or the one before.
LEMMA RefillOneRenews ==
    ASSUME OnePlace, OnePlace', AllWhole, NEW th \in Thread, Renewed(th), RefillOne(th)
    PROVE  (Calls(Len(elem)) /\ Coherent)' \/ Renewal'
<1>1. PICK c : c = Head(doing[th]).on
    OBVIOUS
<1>2. /\ Head(doing[th]).do = "refill" /\ map' = [map EXCEPT ![c] = Refill(map[c], Lists(c, db))]
      /\ doing' = [doing EXCEPT ![th] = Tail(doing[th])] /\ UNCHANGED <<db, elem, around>>
    BY <1>1 DEF RefillOne, Doing, Done
<1>3. doing \in [Thread -> Seq(Step(Len(elem)))]
    BY Parts DEF Safe
<1>4. doing'[th] = Tail(doing[th]) /\ \A o \in Thread \ {th} : doing'[o] = doing[o] /\ doing[o] = <<>>
    BY <1>2, <1>3 DEF Renewed, Idle
<1>5. "tables" \in Container /\ "views" \in Container /\ \A d \in Container : d \in {"tables", "views"}
    BY DEF Container
<1>6. CASE doing[th] = Refilling /\ \A d \in Container : RightOrEmpty(d)
  <2>1. c = "tables" /\ doing'[th] = RefillingViews
      BY <1>1, <1>4, <1>6, RefreshingIs
  <2>2. Right("tables")' /\ RightOrEmpty("views")'
      BY <1>2, <1>5, <1>6, <2>1, RefillsRight
  <2>3. Renewed(th)'
      BY <1>4, <2>1, <2>2 DEF Renewed, Renewing, Idle
  <2> QED BY <2>3 DEF Renewal, Renewed
<1>7. CASE doing[th] = RefillingViews /\ Right("tables") /\ RightOrEmpty("views")
  <2>1. c = "views" /\ doing'[th] = <<>>
      BY <1>1, <1>4, <1>7, RefreshingIs
  <2>2. Right("views")'
      BY <1>2, <1>5, <1>7, <2>1, RefillsRight
  <2>3. map'["tables"] = map["tables"]
      BY <1>2, <1>5, <2>1, Parts DEF Safe
  <2>4. Right("tables")'
      BY <1>2, <1>7, <2>3 DEF Right
  <2>5. \A d \in Container : Right(d)'
      BY <1>5, <2>2, <2>4
  <2>6. \A o \in Thread : doing'[o] = <<>>
      BY <1>4, <2>1
  <2>7. doing' \in [Thread -> Seq(Step(Len(elem')))]
      BY DEF OnePlace, Safe
  <2> QED BY <2>5, <2>6, <2>7, RenewalEnds DEF Right, Calls, Coherent
<1> QED BY <1>2, <1>6, <1>7, RefreshingIs DEF Renewed, Renewing

\* The names could not be read: what a container is not told of is behind its
\* back.
LEMMA LeftUntold ==
    ASSUME NEW c, RightOrEmpty(c), Lists(c, db) \in SUBSET Name, UNCHANGED <<db, map, elem>>,
           around'[c] = around[c] \union (Lists(c, db) \ map[c].names)
    PROVE  Right(c)'
<1>1. PICK L, A, B, m : L = Lists(c, db) /\ A = around[c] /\ B = around'[c] /\ m = map[c]
    OBVIOUS
<1>2. CASE Right(c)
  <2>1. Fine(m, L, A, elem, {})
      BY <1>1, <1>2 DEF Right
  <2>2. A \subseteq B /\ \A n \in Name \ B : n \in L <=> n \in L
      BY <1>1
  <2>3. Fine(m, L, B, elem, {})
      BY <2>1, <2>2, FineGrows
  <2> QED BY <1>1, <2>3 DEF Right
<1>3. CASE m = EmptyMap
  <2>1. m.names = {} /\ DOMAIN m.index = {}
      BY <1>3 DEF EmptyMap
  <2>2. \A n \in Name \ B : n \notin L
      BY <1>1, <2>1
  <2>3. Tidy(m, B) /\ Named(m, B, elem, {})
      BY <2>1 DEF Tidy, Named
  <2>4. Listed(m, L, B, {})
      BY <2>1, <2>2 DEF Listed, Coming, Leaving
  <2>5. Fine(m, L, B, elem, {})
      BY <2>3, <2>4 DEF Fine, AtPlaces, Relabels, Born
  <2> QED BY <1>1, <2>5 DEF Right
<1> QED BY <1>1, <1>2, <1>3 DEF RightOrEmpty

\* A refresh that fails is over.
LEMMA RefillFailsRenews ==
    ASSUME OnePlace, OnePlace', NEW th \in Thread, Renewed(th), RefillFails(th)
    PROVE  (Calls(Len(elem)) /\ Coherent)'
<1>1. /\ Head(doing[th]).do = "refill" /\ UNCHANGED <<db, map, elem>>
      /\ around' = [c \in Container |-> around[c] \union (Lists(c, db) \ map[c].names)]
      /\ doing' = [doing EXCEPT ![th] = <<>>]
    BY DEF RefillFails, Doing, Ends
<1>2. doing \in [Thread -> Seq(Step(Len(elem)))]
    BY Parts DEF Safe
<1>3. \A o \in Thread : doing'[o] = <<>>
    BY <1>1, <1>2 DEF Renewed, Idle
<1>4. \A d \in Container : RightOrEmpty(d)
  <2>1. doing[th] = Refilling \/ doing[th] = RefillingViews \/ \E c \in Container : doing[th] = Refreshing(c)
      BY DEF Renewed, Renewing
  <2>2. \A c \in Container : doing[th] # Refreshing(c)
      BY <1>1, RefreshingIs
  <2> QED BY <2>2 DEF Renewed, Renewing, RightOrEmpty, Container
<1>5. ASSUME NEW d \in Container PROVE Right(d)'
  <2>1. Lists(d, db) \in SUBSET Name
      BY DEF Lists
  <2>2. around'[d] = around[d] \union (Lists(d, db) \ map[d].names)
      BY <1>1
  <2> QED BY <1>1, <1>4, <2>1, <2>2, LeftUntold
<1>6. doing' \in [Thread -> Seq(Step(Len(elem')))]
    BY DEF OnePlace, Safe
<1> QED BY <1>3, <1>5, <1>6, RenewalEnds DEF Right, Calls, Coherent

\* A call starts from nothing to do.
LEMMA CallIdle ==
    ASSUME NEW th, Call(th)
    PROVE  Idle(th)
<1>1. ASSUME NEW c \in Container, NEW n \in Name, Look(th, c, n) \/ AppendByDescriptor(th, c, n)
      PROVE  Idle(th)
    BY <1>1 DEF Look, AppendByDescriptor, Start
<1>2. ASSUME NEW n \in Name, DropTable(th, n) \/ DropViewOfTables(th, n) \/ DropView(th, n)
      PROVE  Idle(th)
    BY <1>2 DEF DropTable, DropViewOfTables, DropView, Start
<1>3. ASSUME NEW e \in DOMAIN elem, NEW to \in Name, RenameTable(th, e, to) \/ RenameView(th, e, to)
      PROVE  Idle(th)
    BY <1>3 DEF RenameTable, RenameView, Start
<1>4. ASSUME NEW e \in DOMAIN elem, NEW to \in Name, RenameViewOfTables(th, e, to)
      PROVE  Idle(th)
    BY <1>4, Zenon DEF RenameViewOfTables, Start
<1>5. ASSUME NEW c \in Container, Refresh(th, c) PROVE Idle(th)
    BY <1>5 DEF Refresh, Start
<1> QED BY <1>1, <1>2, <1>3, <1>4, <1>5 DEF Call

(* No other call comes in between the steps of a refresh without racing it.  *)
LEMMA RenewalStep ==
    ASSUME OnePlace, OnePlace', AllWhole, around = [c \in Container |-> around[c]],
           NEW th \in Thread, Call(th) \/ GoOn(th), Track(th), ~raced', Renewal
    PROVE  (Calls(Len(elem)) /\ Coherent)' \/ Renewal'
<1>1. PICK o \in Thread : Renewed(o)
    BY DEF Renewal, Renewed
<1>2. CASE th = o
  <2>1. doing[th] # <<>> /\ Head(doing[th]).do \in {"empty", "refill"}
      BY <1>1, <1>2, RenewsNow
  <2>2. GoOn(th)
      BY <2>1, CallIdle DEF Idle
  <2>3. Empty(th) \/ RefillOne(th) \/ RefillFails(th)
      BY <2>1, <2>2 DEF GoOn, Create, CreateFails, Throw, TakeOut, Insert, Add, Replace, Relabel, Doing
  <2> QED BY <1>1, <1>2, <2>3, EmptyRenews, RefillOneRenews, RefillFailsRenews
<1>3. CASE th # o
  <2>1. Idle(th)
      BY <1>1, <1>3 DEF Renewed
  <2>2. Untested(doing'[th])
      BY <2>1, Moves DEF Insert, Replace, Doing
  <2>3. Renews(doing[o]) /\ doing[o] # <<>>
      BY <1>1, RenewsNow DEF Renews
  <2>4. Overlap(doing'[th], doing[o])
      BY <2>2, <2>3 DEF Overlap, Untested
  <2>5. raced'
      BY <1>3, <2>1, <2>4 DEF Track
  <2> QED BY <2>5
<1> QED BY <1>2, <1>3

\* Another session changes the database under a container.
LEMMA OtherSessionFine ==
    ASSUME OnePlace, NEW n \in Name, NEW kind \in {"none", "table", "view"}, OtherSession(n, kind),
           NEW d \in Container, NEW S, Fine(map[d], Lists(d, db), around[d], elem, S)
    PROVE  Fine(map'[d], Lists(d, db'), around'[d], elem', S)
<1>1. /\ db' = [db EXCEPT ![n] = kind] /\ UNCHANGED <<map, elem>>
      /\ around' = [c \in Container |-> around[c] \union {n}]
    BY DEF OtherSession
<1>2. db \in [Name -> {"none", "table", "view"}]
    BY Parts
<1>3. PICK L, M, A, B : /\ L = Lists(d, db) /\ M = Lists(d, db')
                        /\ A = around[d] /\ B = around'[d]
    OBVIOUS
<1>4. Fine(map[d], L, A, elem, S)
    BY <1>3
<1>5. B = A \union {n}
    BY <1>1, <1>3
<1>6. \A x \in Name \ B : x \in M <=> x \in L
    BY <1>1, <1>2, <1>3, <1>5 DEF Lists
<1>7. Fine(map[d], M, B, elem, S)
    BY <1>4, <1>5, <1>6, FineGrows
<1> QED BY <1>1, <1>3, <1>7

(* Another session changes the database behind the containers' back.         *)
LEMMA OtherSessionStep ==
    ASSUME OnePlace, NEW n \in Name, NEW kind \in {"none", "table", "view"}, OtherSession(n, kind),
           (Calls(Len(elem)) /\ Coherent) \/ Renewal
    PROVE  (Calls(Len(elem)) /\ Coherent)' \/ Renewal'
<1>1. UNCHANGED <<map, elem, doing>>
    BY DEF OtherSession
<1>2. CASE Calls(Len(elem)) /\ Coherent
  <2>1. Calls(Len(elem))' /\ Apart(doing)'
    <3>1. Calls(Len(elem)) /\ Apart(doing)
        BY <1>2 DEF Coherent
    <3>2. Calls(Len(elem))'
        BY <1>1, <3>1 DEF Calls
    <3> QED BY <1>1, <3>1, <3>2 DEF Apart
  <2>2. \A d \in Container : Fine(map'[d], Lists(d, db'), around'[d], elem', On(d, doing))
      BY <1>2, OtherSessionFine DEF Coherent
  <2>3. \A d : On(d, doing') = On(d, doing)
      BY <1>1
  <2> QED BY <2>1, <2>2, <2>3 DEF Coherent
<1>3. CASE Renewal
  <2>1. ASSUME NEW d \in Container, Right(d) PROVE Right(d)'
      BY <2>1, OtherSessionFine DEF Right
  <2>2. ASSUME NEW d \in Container, RightOrEmpty(d) PROVE RightOrEmpty(d)'
      BY <1>1, <2>1, <2>2 DEF RightOrEmpty
  <2>3. PICK th \in Thread : Renewed(th)
      BY <1>3 DEF Renewal, Renewed
  <2>4. Renewing(doing[th])'
      BY <1>1, <2>1, <2>2, <2>3 DEF Renewed, Renewing, Container
  <2> QED BY <1>1, <2>3, <2>4 DEF Renewal, Renewed, Idle
<1> QED BY <1>2, <1>3

\* The names changed behind a container's back are of the two containers.
LEMMA AroundType ==
    ASSUME around = [c \in Container |-> around[c]], [Next]_vars
    PROVE  around' = [c \in Container |-> around'[c]]
<1>1. CASE UNCHANGED around
    BY <1>1
<1>2. CASE \E d, B : around' = [around EXCEPT ![d] = B]
    BY <1>2
<1>3. CASE \E n, to : around' = Carried(n, to)
    BY <1>3 DEF Carried
<1>4. CASE \E n, to, d, B : around' = [Carried(n, to) EXCEPT ![d] = B]
    BY <1>4 DEF Carried
<1>5. CASE \E n : around' = [c \in Container |-> around[c] \union {n}]
    BY <1>5
<1>6. ASSUME NEW th \in Thread, Call(th)
      PROVE  \/ UNCHANGED around \/ \E d, B : around' = [around EXCEPT ![d] = B]
             \/ \E n, to : around' = Carried(n, to)
             \/ \E n, to, d, B : around' = [Carried(n, to) EXCEPT ![d] = B]
  <2>1. CASE \E c \in Container, n \in Name : Look(th, c, n) \/ AppendByDescriptor(th, c, n)
      BY <2>1 DEF Look, AppendByDescriptor
  <2>2. CASE \E n \in Name : DropTable(th, n) \/ DropViewOfTables(th, n) \/ DropView(th, n)
      BY <2>2 DEF DropTable, DropViewOfTables, DropView
  <2>3. CASE \E e \in DOMAIN elem, to \in Name : RenameTable(th, e, to) \/ RenameView(th, e, to)
    <3> PICK e \in DOMAIN elem, to \in Name : RenameTable(th, e, to) \/ RenameView(th, e, to)
        BY <2>3
    <3>1. \/ around' = Carried(elem[e].name, to)
          \/ \E B : around' = [Carried(elem[e].name, to) EXCEPT !["tables"] = B]
        BY DEF RenameTable, RenameView
    <3> QED BY <3>1
  <2>4. CASE \E e \in DOMAIN elem, to \in Name : RenameViewOfTables(th, e, to)
      BY <2>4 DEF RenameViewOfTables
  <2>5. CASE \E c \in Container : Refresh(th, c)
      BY <2>5 DEF Refresh
  <2> QED BY <1>6, <2>1, <2>2, <2>3, <2>4, <2>5 DEF Call
<1>7. ASSUME NEW th \in Thread, GoOn(th), ~RefillFails(th)
      PROVE  UNCHANGED around \/ \E d, B : around' = [around EXCEPT ![d] = B]
  <2>1. CASE Create(th) \/ Throw(th) \/ TakeOut(th) \/ Insert(th) \/ Add(th) \/ Replace(th)
              \/ Relabel(th) \/ RefillOne(th)
      BY <2>1 DEF Create, Throw, TakeOut, Insert, Add, Replace, Relabel, RefillOne
  <2>2. CASE CreateFails(th) \/ Empty(th)
      BY <2>2 DEF CreateFails, Empty
  <2> QED BY <1>7, <2>1, <2>2 DEF GoOn
<1>8. ASSUME NEW n \in Name, NEW kind, OtherSession(n, kind)
      PROVE  around' = [c \in Container |-> around[c] \union {n}]
    BY <1>8 DEF OtherSession
<1>9. ASSUME NEW th \in Thread, RefillFails(th)
      PROVE  around' = [c \in Container |-> around'[c]]
    BY <1>9 DEF RefillFails
<1> QED BY <1>1, <1>2, <1>3, <1>4, <1>5, <1>6, <1>7, <1>8, <1>9 DEF Next, vars

----------------------------------------------------------------------------
(* The invariant, and what follows of it. *)

(* A step of a thread that raced nobody leaves the containers coherent.      *)
LEMMA CoherentStep ==
    ASSUME Good, RenamesViews = TRUE, NEW th \in Thread, Call(th) \/ GoOn(th),
           Undisturbed(th), Idle(th) => Alone(th), \A c \in Container : ~Refresh(th, c),
           Relabel(th) => HasByName(map[Head(doing[th]).on], Head(doing[th]).name)
    PROVE  Coherent'
<1>1. ASSUME Call(th) PROVE Alone(th)
    BY <1>1, CallIdle
<1>2. CASE GoOn(th)
  <2>1. ASSUME Empty(th) \/ RefillOne(th) \/ RefillFails(th) PROVE FALSE
    <3>1. doing[th] # <<>> /\ Head(doing[th]).do \in {"empty", "refill"}
        BY <2>1 DEF Empty, RefillOne, RefillFails, Doing, Idle
    <3>2. PICK q : q = doing[th]
        OBVIOUS
    <3>3. q \in Seq(Change(Len(elem))) /\ q # <<>> /\ Head(q).do \in {"empty", "refill"}
        BY <3>1, <3>2, AtHand DEF Good
    <3>4. Head(q) \in Change(Len(elem))
        BY <3>3
    <3> QED BY <3>3, <3>4 DEF Change
  <2> QED BY <1>2, <2>1, CreateCoherent, CreateFailsCoherent, ThrowCoherent, TakeOutCoherent,
             InsertCoherent, AddCoherent, ReplaceCoherent, RelabelCoherent DEF GoOn
<1>3. ASSUME NEW c \in Container, NEW n \in Name, Look(th, c, n) \/ AppendByDescriptor(th, c, n),
             Call(th)
      PROVE  Coherent'
    BY <1>1, <1>3, LookCoherent, AppendCoherent
<1>4. ASSUME NEW n \in Name, DropTable(th, n) \/ DropViewOfTables(th, n) \/ DropView(th, n),
             Call(th)
      PROVE  Coherent'
    BY <1>1, <1>4, DropTableCoherent, DropViewOfTablesCoherent, DropViewCoherent
<1>5. ASSUME NEW e \in DOMAIN elem, NEW to \in Name, Call(th),
             RenameTable(th, e, to) \/ RenameViewOfTables(th, e, to) \/ RenameView(th, e, to)
      PROVE  Coherent'
    BY <1>1, <1>5, RenameTableCoherent, RenameViewOfTablesCoherent, RenameViewCoherent
<1> QED BY <1>2, <1>3, <1>4, <1>5 DEF Call

\* The inductive step.
LEMMA WatchedStep ==
    ASSUME OnePlace, OnePlace', Whole, Watched, RenamesViews = TRUE, [Next]_vars
    PROVE  Watched'
<1>1. around' = [c \in Container |-> around'[c]]
    BY AroundType DEF Watched
<1>2. ASSUME NEW th \in Thread, Call(th) \/ GoOn(th), Track(th)
      PROVE  Watched'
  <2>1. stale' \subseteq Thread /\ \A o \in stale' : doing'[o] # <<>>
      BY <1>2 DEF Track
  <2>2. ASSUME ~raced', stale' = {} PROVE (Calls(Len(elem)) /\ Coherent)' \/ Renewal'
    <3>1. ~raced /\ stale = {} /\ Undisturbed(th) /\ (Idle(th) => Alone(th))
        BY <1>2, <2>2, Quiet
    <3>2. AllWhole /\ Tested /\ around = [c \in Container |-> around[c]]
        BY <3>1 DEF Whole, Watched
    <3>3. CASE Renewal
        BY <1>2, <2>2, <3>2, <3>3, RenewalStep
    <3>4. CASE Calls(Len(elem)) /\ Coherent
      <4>1. Good
          BY <3>2, <3>4 DEF Good, Entire
      <4>2. ASSUME NEW c \in Container, Refresh(th, c) PROVE Renewal'
        <5>1. Alone(th)
            BY <3>1, <4>2 DEF Refresh, Start
        <5> QED BY <4>1, <4>2, <5>1, RefreshStarts
      <4>3. ASSUME \A c \in Container : ~Refresh(th, c)
            PROVE  (Calls(Len(elem)) /\ Coherent)'
        <5>1. Relabel(th) => HasByName(map[Head(doing[th]).on], Head(doing[th]).name)
            BY <3>1, <3>2 DEF Tested, Relabel
        <5>2. Coherent'
            BY <1>2, <3>1, <4>1, <4>3, <5>1, CoherentStep
        <5>3. Calls(Len(elem))'
            BY <1>2, <3>4, <4>3, CallsStay
        <5> QED BY <5>2, <5>3
      <4> QED BY <4>2, <4>3
    <3> QED BY <3>1, <3>3, <3>4 DEF Watched
  <2> QED BY <1>1, <2>1, <2>2 DEF Watched
<1>3. ASSUME NEW n \in Name, NEW kind \in {"none", "table", "view"}, OtherSession(n, kind),
             UNCHANGED <<stale, raced>>
      PROVE  Watched'
  <2>1. UNCHANGED doing
      BY <1>3 DEF OtherSession
  <2>2. ASSUME ~raced, stale = {} PROVE (Calls(Len(elem)) /\ Coherent)' \/ Renewal'
      BY <1>3, <2>2, OtherSessionStep DEF Watched
  <2> QED BY <1>1, <1>3, <2>1, <2>2 DEF Watched
<1>4. CASE UNCHANGED vars
  <2>1. UNCHANGED <<db, map, elem, doing, around, stale, raced>>
      BY <1>4 DEF vars
  <2>2. Coherent => Coherent'
      BY <2>1 DEF Coherent
  <2>3. Renewal => Renewal'
      BY <2>1 DEF Renewal, Renewing, Right, RightOrEmpty, Idle
  <2>4. Calls(Len(elem)) => Calls(Len(elem))'
      BY <2>1 DEF Calls
  <2> QED BY <1>1, <2>1, <2>2, <2>3, <2>4 DEF Watched
<1> QED BY <1>2, <1>3, <1>4 DEF Next

\* At first the containers list the database.
LEMMA InitWatched ==
    ASSUME Init
    PROVE  Watched
<1>1. /\ map = [c \in Container |-> Refill(EmptyMap, Lists(c, db))]
      /\ doing = [th \in Thread |-> <<>>] /\ stale = {} /\ around = [c \in Container |-> {}]
    BY DEF Init
<1>2. \A o \in Thread : doing[o] = <<>>
    BY <1>1
<1>3. \A o \in Thread : doing[o] \in Seq(Step(Len(elem)))
  <2>1. <<>> \in Seq(Step(Len(elem)))
      OBVIOUS
  <2> QED BY <1>2, <2>1
<1>4. doing \in [Thread -> Seq(Step(Len(elem)))]
    BY <1>1, <1>3
<1>5. ASSUME NEW c \in Container PROVE Right(c)
  <2>1. PICK L, A, w : L = Lists(c, db) /\ A = around[c] /\ w = map[c]
      OBVIOUS
  <2>2. L \in SUBSET Name /\ w = Refill(EmptyMap, L)
      BY <1>1, <2>1 DEF Lists
  <2>3. Fine(w, L, A, elem, {})
      BY <2>2, FineFilled
  <2> QED BY <2>1, <2>3 DEF Right
<1>6. Calls(Len(elem)) /\ Coherent
    BY <1>2, <1>4, <1>5, RenewalEnds DEF Right, Calls, Coherent
<1> QED BY <1>1, <1>6 DEF Watched

(* As long as no call works on with what another has made wrong, a container *)
(* lists what the database has but for what the calls under way bring and    *)
(* take, and a place looked up is still the place of its name; a refresh     *)
(* runs alone then, and each container is right or emptied in the middle of  *)
(* it (ContainerMain.java:90).                                               *)
THEOREM WatchedInvariant == (RenamesViews = TRUE) => (Spec => [](OnePlace /\ Whole /\ Watched))
<1> SUFFICES ASSUME RenamesViews = TRUE PROVE Spec => [](OnePlace /\ Whole /\ Watched)
    OBVIOUS
<1>1. Init => OnePlace /\ Whole /\ Watched
    BY InitOnePlace, InitWatched
<1>2. OnePlace /\ Whole /\ Watched /\ [Next]_vars => (OnePlace /\ Whole /\ Watched)'
    BY OnePlaceStep, WatchedStep
<1> QED BY <1>1, <1>2, PTL DEF Spec
\* When nobody is in the middle of a call nothing is to come or to leave.
LEMMA SettledFacts ==
    ASSUME Watched, Settled, NEW c \in Container
    PROVE  /\ Tidy(map[c], around[c])
           /\ \A n \in Name \ around[c] : n \in map[c].names <=> n \in Lists(c, db)
           /\ \A i \in DOMAIN map[c].index : map[c].element[i] # NoElement =>
                \/ elem[map[c].element[i]].name = map[c].index[i]
                \/ map[c].index[i] \in around[c]
<1>1. ~raced /\ stale = {} /\ \A th \in Thread : doing[th] = <<>>
    BY DEF Settled, Watched, Idle
<1>2. On(c, doing) = {}
    BY <1>1, AllIdle
<1>3. Fine(map[c], Lists(c, db), around[c], elem, {})
  <2>1. ~Renewal
    <3> SUFFICES ASSUME NEW th \in Thread, Renewed(th) PROVE FALSE
        BY DEF Renewal, Renewed
    <3> QED BY <1>1, RenewsNow
  <2> QED BY <1>1, <1>2, <2>1 DEF Watched, Coherent
<1>4. \A n \in Name \ around[c] : n \in map[c].names <=> n \in Lists(c, db)
    BY <1>3 DEF Fine, Listed, Coming, Leaving
<1>5. \A i \in DOMAIN map[c].index : map[c].element[i] # NoElement =>
        elem[map[c].element[i]].name = map[c].index[i] \/ map[c].index[i] \in around[c]
    BY <1>3 DEF Fine, Named
<1>6. Tidy(map[c], around[c])
    BY <1>3 DEF Fine
<1> QED BY <1>4, <1>5, <1>6

(* What a container lists is what the database has, the two together, apart  *)
(* from what was done behind its back, when the driver renames views; said   *)
(* when no call is under way and none has raced another.                     *)
THEOREM ListsTheDatabaseInvariant == (RenamesViews = TRUE) => (Spec => []ListsTheDatabase)
<1>1. Watched => ListsTheDatabase
    BY SettledFacts DEF ListsTheDatabase, HasByName
<1> QED BY <1>1, WatchedInvariant, PTL

(* Every loaded element is under its own name, whatever renames went on      *)
(* before, when the driver renames views; said when no call is under way and *)
(* none has raced another.                                                   *)
THEOREM UnderOwnNameInvariant == (RenamesViews = TRUE) => (Spec => []UnderOwnName)
<1>1. OnePlace /\ Watched => UnderOwnName
  <2> SUFFICES ASSUME OnePlace, Watched, Settled, NEW c \in Container,
                      NEW i \in DOMAIN map[c].element, map[c].element[i] # NoElement,
                      map[c].index[i] \notin around[c]
               PROVE  elem[map[c].element[i]].name = map[c].index[i]
      BY DEF UnderOwnName
  <2>1. PICK m : m = map[c]
      OBVIOUS
  <2>2. m \in AnyMap(Len(elem)) /\ Len(elem) \in Nat
      BY <2>1, Parts
  <2>3. DOMAIN m.index = 1..Len(m.index) /\ DOMAIN m.element = 1..Len(m.index)
      BY <2>2, AnyParts
  <2>4. i \in DOMAIN map[c].index
      BY <2>1, <2>3
  <2> QED BY <2>4, SettledFacts
<1> QED BY <1>1, WatchedInvariant, PTL

(* A map whose entries are its names, each once: as many places as names,    *)
(* and the enumeration visits every slot.                                    *)
LEMMA TidyCounts ==
    ASSUME NEW k \in Nat, NEW m \in Map(k), Tidy(m, {})
    PROVE  /\ Cardinality(m.names) = GetCount(m)
           /\ {EnumerationOrder(m)[x] : x \in DOMAIN EnumerationOrder(m)} = 0..(GetCount(m) - 1)
<1>1. PICK N : N = Len(m.index)
    OBVIOUS
<1>2. /\ N \in Nat /\ DOMAIN m.index = 1..N /\ GetCount(m) = N
      /\ \A n \in m.names : \E i \in 1..N : m.index[i] = n
  <2>1. Len(m.index) \in Nat /\ DOMAIN m.index = 1..Len(m.index) /\ Len(m.element) = Len(m.index)
      BY MapParts
  <2>2. \A n \in m.names : \E i \in DOMAIN m.index : m.index[i] = n
      BY MapParts
  <2> QED BY <1>1, <2>1, <2>2 DEF GetCount
<1>3. /\ \A i \in 1..N : m.index[i] \in m.names
      /\ \A i, j \in 1..N : m.index[i] = m.index[j] => i = j
    BY <1>2 DEF Tidy
<1>4. Cardinality(m.names) = N
  <2>1. PICK f : f = [i \in 1..N |-> m.index[i]]
      OBVIOUS
  <2>2. f \in Bijection(1..N, m.names)
      BY <1>2, <1>3, <2>1 DEF Bijection, Injection, Surjection, IsInjective
  <2>3. ExistsBijection(1..N, m.names)
      BY <2>2 DEF ExistsBijection
  <2> QED BY <1>2, <2>3, FS_CountingElements
<1>5. /\ m.names \in SUBSET Nat /\ IsFiniteSet(m.names) /\ Order(m) = Sorted(m.names)
    BY NamesFacts, MapParts DEF Order
<1>6. /\ DOMAIN Order(m) = 1..N /\ \A x \in 1..N : Order(m)[x] \in m.names
      /\ \A n \in m.names : \E x \in 1..N : Order(m)[x] = n
  <2>1. Sorted(m.names) \in [1..N -> m.names]
      BY <1>4, <1>5, SortedFacts
  <2>2. \A n \in m.names : Cardinality(Before(m.names, n)) + 1 \in 1..N
                           /\ Sorted(m.names)[Cardinality(Before(m.names, n)) + 1] = n
      BY <1>4, <1>5, SortedFacts
  <2> QED BY <1>5, <2>1, <2>2
<1>7. \A i \in 1..N : Slot(m, m.index[i]) = i
  <2> SUFFICES ASSUME NEW i \in 1..N PROVE Slot(m, m.index[i]) = i
      OBVIOUS
  <2>1. PICK n : n = m.index[i]
      OBVIOUS
  <2>2. n \in m.names
      BY <1>3, <2>1
  <2>3. Slot(m, n) \in 1..N /\ m.index[Slot(m, n)] = n
      BY <1>1, <2>2, SlotFacts
  <2> QED BY <1>3, <2>1, <2>3
<1>8. \A n \in m.names : Slot(m, n) \in 1..N
    BY <1>1, SlotFacts
<1>9. PICK E : E = EnumerationOrder(m)
    OBVIOUS
<1>10. DOMAIN E = 1..N /\ \A x \in 1..N : E[x] = Slot(m, Order(m)[x]) - 1
    BY <1>6, <1>9 DEF EnumerationOrder
<1>11. \A x \in 1..N : E[x] \in 0..(N - 1)
  <2> SUFFICES ASSUME NEW x \in 1..N PROVE E[x] \in 0..(N - 1)
      OBVIOUS
  <2>1. PICK n : n = Order(m)[x]
      OBVIOUS
  <2>2. n \in m.names
      BY <1>6, <2>1
  <2>3. PICK j : j = Slot(m, n)
      OBVIOUS
  <2>4. j \in 1..N
      BY <1>8, <2>2, <2>3
  <2>5. E[x] = j - 1
      BY <1>10, <2>1, <2>3
  <2>6. j - 1 \in 0..(N - 1)
      BY <1>2, <2>4
  <2> QED BY <2>5, <2>6
<1>12. \A p \in 0..(N - 1) : \E x \in 1..N : E[x] = p
  <2> SUFFICES ASSUME NEW p \in 0..(N - 1) PROVE \E x \in 1..N : E[x] = p
      OBVIOUS
  <2>1. p + 1 \in 1..N
      BY <1>2
  <2>2. PICK x \in 1..N : Order(m)[x] = m.index[p + 1]
      BY <1>3, <1>6, <2>1
  <2>3. E[x] = (p + 1) - 1
      BY <1>7, <1>10, <2>1, <2>2
  <2> QED BY <2>3
<1>13. {E[x] : x \in DOMAIN E} = 0..(N - 1)
    BY <1>10, <1>11, <1>12
<1> QED BY <1>2, <1>4, <1>9, <1>13

(* A container has no name twice as long as nothing was changed behind its   *)
(* back: its count and its places agree and an enumeration visits every      *)
(* slot, when the driver renames views; said when no call is under way and   *)
(* none has raced another.                                                   *)
THEOREM NamesOnceInvariant == (RenamesViews = TRUE) => (Spec => []NamesOnce)
<1>1. OnePlace /\ Whole /\ Watched => NamesOnce
  <2> SUFFICES ASSUME OnePlace, Whole, Watched, Settled, NEW c \in Container, around[c] = {}
               PROVE  /\ Cardinality(map[c].names) = GetCount(map[c])
                      /\ {EnumerationOrder(map[c])[k] : k \in DOMAIN EnumerationOrder(map[c])}
                           = 0..(GetCount(map[c]) - 1)
      BY DEF NamesOnce
  <2>1. map[c] \in Map(Len(elem)) /\ Len(elem) \in Nat
      BY Parts DEF Settled, Whole, AllWhole
  <2>2. Tidy(map[c], {})
      BY SettledFacts
  <2> QED BY <2>1, <2>2, TidyCounts
<1> QED BY <1>1, WatchedInvariant, PTL

----------------------------------------------------------------------------
(* A load and its name. *)

\* A place a call has looked up for an element to load is the place of its name
\* still, and the name has a slot, unless another thread has changed the map
\* since.
HasPlace(m, n, i) == n \in m.listed /\ HasSlot(m, n) /\ i = GetIndex(m, n)
PlaceHolds(mp, s) == HasPlace(mp[s.on], s.name, s.at)
PlacesHold ==
  \A th \in Thread : \A j \in DOMAIN doing[th] :
    doing[th][j].do = "create" => j = 1 /\ (th \notin stale => PlaceHolds(map, doing[th][j]))

\* A map with the same entries has the same places.
LEMMA PlaceStays ==
    ASSUME NEW m, NEW w, SameEntries(m, w), NEW n, NEW i, HasPlace(m, n, i)
    PROVE  HasPlace(w, n, i)
BY DEF SameEntries, HasPlace, HasSlot, GetIndex

\* What a thread has to do after its own step: to load an element only when it
\* has just looked up the place.
LEMMA OwnPlaces ==
    ASSUME OnePlace, Whole, PlacesHold, NEW th \in Thread, Call(th) \/ GoOn(th),
           NEW j \in DOMAIN doing'[th], doing'[th][j].do = "create"
    PROVE  j = 1 /\ PlaceHolds(map', doing'[th][j])
<1>1. doing \in [Thread -> Seq(Step(Len(elem)))] /\ Len(elem) \in Nat
    BY Parts DEF Safe
<1>2. ASSUME NEW steps, Start(th, steps) PROVE doing'[th] = steps
    BY <1>1, <1>2 DEF Start
<1>3. ASSUME NEW c \in Container, NEW n \in Name, Look(th, c, n), ~raced
      PROVE  j = 1 /\ PlaceHolds(map', doing'[th][j])
  <2>1. PICK s : s = AtPlace("create", c, n)
      OBVIOUS
  <2>2. doing'[th] = <<s>> /\ UNCHANGED map /\ n \in map[c].names
      BY <1>2, <1>3, <2>1 DEF Look, HasByName
  <2>3. s.on = c /\ s.name = n /\ s.at = GetIndex(map[c], n)
      BY <2>1 DEF AtPlace
  <2>4. j = 1 /\ doing'[th][j] = s
      BY <2>2
  <2>5. map[c].listed = map[c].names /\ HasSlot(map[c], n)
      BY <1>3, <2>2 DEF Whole, AllWhole, Map
  <2>6. HasPlace(map[c], n, s.at)
      BY <2>2, <2>3, <2>5 DEF HasPlace
  <2> QED BY <2>2, <2>3, <2>4, <2>6 DEF PlaceHolds
<1>4. ASSUME NEW c \in Container, Refresh(th, c) PROVE FALSE
  <2>1. PICK x, y, z : /\ x = [do |-> "empty", on |-> c]
                       /\ y = [do |-> "refill", on |-> "tables"]
                       /\ z = [do |-> "refill", on |-> "views"]
      OBVIOUS
  <2>2. x.do = "empty" /\ y.do = "refill" /\ z.do = "refill"
      BY <2>1
  <2>3. doing'[th] = <<x, y, z>>
      BY <1>2, <1>4, <2>1 DEF Refresh, Refreshing
  <2> QED BY <2>2, <2>3
<1>5. ASSUME \/ \E c \in Container, n \in Name : AppendByDescriptor(th, c, n)
             \/ \E n \in Name : DropTable(th, n) \/ DropViewOfTables(th, n) \/ DropView(th, n)
      PROVE  FALSE
  <2>1. \/ \E c \in Container, n \in Name : doing'[th] = Additions(c, n)
        \/ \E n \in Name : \/ doing'[th] = <<Removal("tables", n)>>
                           \/ doing'[th] = <<Removal("views", n)>>
                           \/ doing'[th] = <<Removal("views", n), Removal("tables", n)>>
      BY <1>2, <1>5 DEF AppendByDescriptor, DropTable, DropViewOfTables, DropView, BothRemovals
  <2>2. ASSUME NEW c \in Container, NEW n \in Name, doing'[th] = Additions(c, n)
        PROVE  FALSE
      BY <2>2 DEF Additions, Addition, WithElement
  <2>3. ASSUME NEW n \in Name,
               \/ doing'[th] = <<Removal("tables", n)>>
               \/ doing'[th] = <<Removal("views", n)>>
               \/ doing'[th] = <<Removal("views", n), Removal("tables", n)>>
        PROVE  FALSE
      BY <2>3 DEF Removal, AtPlace
  <2> QED BY <1>5, <2>1, <2>2, <2>3
<1>6. ASSUME NEW e \in DOMAIN elem, NEW to \in Name,
             RenameTable(th, e, to) \/ RenameViewOfTables(th, e, to) \/ RenameView(th, e, to)
      PROVE  FALSE
  <2>1. \E c, d, m, n, z : \/ doing'[th] = <<Renaming(c, n, z)>>
                           \/ doing'[th] = <<Renaming(c, m, z), Renaming(d, n, z)>>
    <3>1. CASE RenameTable(th, e, to)
      <4>1. Start(th, <<Renaming("tables", elem[e].name, to)>>)
          BY <3>1 DEF RenameTable
      <4> QED BY <1>2, <4>1
    <3>2. CASE RenameView(th, e, to)
      <4>1. Start(th, <<Renaming("views", elem[e].name, to)>>)
          BY <3>2 DEF RenameView
      <4> QED BY <1>2, <4>1
    <3>3. CASE RenameViewOfTables(th, e, to)
      <4>1. \E m : Start(th, <<Renaming("views", m, to), Renaming("tables", elem[e].name, to)>>)
          BY <3>3 DEF RenameViewOfTables
      <4> QED BY <1>2, <4>1
    <3> QED BY <1>6, <3>1, <3>2, <3>3
  <2>2. ASSUME NEW c, NEW d, NEW m, NEW n, NEW z,
               \/ doing'[th] = <<Renaming(c, n, z)>>
               \/ doing'[th] = <<Renaming(c, m, z), Renaming(d, n, z)>>
        PROVE  FALSE
      BY <2>2 DEF Renaming
  <2> QED BY <2>1, <2>2
<1>7. CASE GoOn(th)
  <2>1. PICK S, d, t : S = Step(Len(elem)) /\ d = doing[th] /\ t = doing'[th]
      OBVIOUS
  <2>2. d \in Seq(S) /\ d # <<>>
      BY <1>1, <1>7, <2>1 DEF GoOn, Create, CreateFails, Throw, TakeOut, Insert, Add, Replace,
                              Relabel, Empty, RefillOne, RefillFails, Doing, Idle
  <2>3. /\ Len(d) \in Nat /\ Len(Tail(d)) = Len(d) - 1 /\ Tail(d) \in Seq(S)
        /\ \A i \in 1..Len(Tail(d)) : Tail(d)[i] = d[i + 1]
      BY <2>2, HeadTailProperties
  <2>4. CASE t = Tail(d)
    <3>1. j \in 1..Len(t) /\ t[j].do = "create"
        BY <2>1, <2>3, <2>4
    <3>2. j + 1 \in DOMAIN d /\ d[j + 1].do = "create" /\ j + 1 # 1
        BY <2>2, <2>3, <2>4, <3>1
    <3> QED BY <2>1, <3>2 DEF PlacesHold
  <2>5. CASE t = <<>>
      BY <2>1, <2>5
  <2>6. CASE \E what \in {"add", "relabel"} : t = [d EXCEPT ![1].do = what] /\ d[1].do # "create"
    <3>1. PICK what \in {"add", "relabel"} : t = [d EXCEPT ![1].do = what] /\ d[1].do # "create"
        BY <2>6
    <3>2. j \in DOMAIN d /\ (j # 1 => t[j] = d[j])
        BY <2>1, <3>1
    <3>3. j = 1 => t[j] = [d[1] EXCEPT !.do = what] /\ d[1] \in S
        BY <2>2, <3>1, <3>2
    <3>4. j = 1 => t[j].do = what
        BY <2>1, <3>3 DEF Step, Change
    <3>5. j # 1 => FALSE
        BY <2>1, <3>2 DEF PlacesHold
    <3> QED BY <2>1, <3>1, <3>4, <3>5
  <2>7. \/ t = Tail(d) \/ t = <<>>
        \/ \E what \in {"add", "relabel"} : t = [d EXCEPT ![1].do = what] /\ d[1].do # "create"
    <3>1. Insert(th) => Head(d).do = "insert"
        BY <2>1 DEF Insert, Doing
    <3>2. Replace(th) => Head(d).do = "rename"
        BY <2>1 DEF Replace, Doing
    <3>3. Head(d) = d[1]
        BY <2>2
    <3>4. Insert(th) \/ Replace(th) => d[1].do # "create"
        BY <3>1, <3>2, <3>3
    <3>5. ~Idle(th)
        BY <2>1, <2>2 DEF Idle
    <3> QED BY <1>7, <2>1, <3>4, <3>5, Moves
  <2> QED BY <2>4, <2>5, <2>6, <2>7
<1> QED BY <1>3, <1>4, <1>5, <1>6, <1>7 DEF Call

\* A step of one thread leaves the places of the others, or makes them stale.
LEMMA PlacesStep ==
    ASSUME OnePlace, Whole, PlacesHold, [Next]_vars
    PROVE  PlacesHold'
<1>1. ASSUME NEW th \in Thread, Call(th) \/ GoOn(th), Track(th)
      PROVE  PlacesHold'
  <2> SUFFICES ASSUME NEW o \in Thread, NEW j \in DOMAIN doing'[o], doing'[o][j].do = "create"
               PROVE  j = 1 /\ (o \notin stale' => PlaceHolds(map', doing'[o][j]))
      BY DEF PlacesHold, PlaceHolds
  <2>2. CASE o = th
      BY <1>1, <2>2, OwnPlaces
  <2>3. CASE o # th
    <3>1. doing'[o] = doing[o]
        BY <1>1, <2>3, Moves
    <3>2. PICK s : s = doing[o][j]
        OBVIOUS
    <3>3. j = 1 /\ (o \notin stale => PlaceHolds(map, s)) /\ j \in DOMAIN doing[o] /\ doing[o] # <<>>
        BY <3>1, <3>2 DEF PlacesHold
    <3>4. ASSUME o \notin stale' PROVE PlaceHolds(map', s)
      <4>1. o \notin stale /\ SameEntries(map[s.on], map'[s.on])
          BY <1>1, <2>3, <3>1, <3>2, <3>3, <3>4 DEF Track
      <4> QED BY <3>3, <4>1, PlaceStays DEF PlaceHolds
    <3> QED BY <3>1, <3>2, <3>3, <3>4 DEF PlaceHolds
  <2> QED BY <2>2, <2>3
<1>2. ASSUME UNCHANGED <<doing, map, stale>> PROVE PlacesHold'
    BY <1>2 DEF PlacesHold, PlaceHolds
<1>3. CASE \E n \in Name, kind \in {"none", "table", "view"} : OtherSession(n, kind)
           /\ UNCHANGED <<stale, raced>>
    BY <1>2, <1>3 DEF OtherSession
<1>4. CASE UNCHANGED vars
    BY <1>2, <1>4 DEF vars
<1> QED BY <1>1, <1>3, <1>4 DEF Next

\* The place the thread has looked up for the element it loads now.
LEMMA LookedUp ==
    ASSUME OnePlace, PlacesHold, NEW th \in Thread, th \notin stale, doing[th] # <<>>,
           NEW s, s = Head(doing[th]), s.do = "create"
    PROVE  s.on \in Container /\ PlaceHolds(map, s)
<1>1. doing[th] \in Seq(Step(Len(elem))) /\ Len(elem) \in Nat
    BY Parts DEF Safe
<1>2. PICK S, d : S = Step(Len(elem)) /\ d = doing[th]
    OBVIOUS
<1>3. d \in Seq(S) /\ d # <<>>
    BY <1>1, <1>2
<1>4. Head(d) \in S /\ 1 \in DOMAIN d /\ d[1] = Head(d)
    BY <1>3
<1>5. PlaceHolds(map, s)
    BY <1>2, <1>4 DEF PlacesHold
<1>6. s.on \in Container
    BY <1>2, <1>4 DEF Step, Change
<1> QED BY <1>5, <1>6

\* A name with its place is reached there.
LEMMA PlaceReached ==
    ASSUME NEW k \in Nat, NEW m \in AnyMap(k), NEW n, NEW i, HasPlace(m, n, i)
    PROVE  i \in Int /\ Reaches(m, i) /\ GetName(m, i) = n
<1>1. n \in m.listed /\ HasSlot(m, n) /\ i = GetIndex(m, n)
    BY DEF HasPlace
<1>2. GetIndex(m, n) \in Int /\ InOrder(m, GetIndex(m, n)) /\ GetName(m, GetIndex(m, n)) = n
    BY <1>1, AnyOrderFacts
<1> QED BY <1>1, <1>2 DEF Reaches

\* An element put at the place of a name is got at the place of that name.
LEMMA SetThenGet ==
    ASSUME NEW k \in Nat, NEW m \in AnyMap(k), NEW n, NEW i, HasPlace(m, n, i),
           NEW e \in (1..k) \union {NoElement}, NEW w, w = SetElement(m, i, e)
    PROVE  GetByIndex(w, GetIndex(w, n)) = e
<1>1. i \in Int /\ Reaches(m, i) /\ GetName(m, i) = n
    BY PlaceReached
<1>2. PICK j : j = Slot(m, GetName(m, i))
    OBVIOUS
<1>3. /\ w \in AnyMap(k) /\ w.names = m.names /\ w.listed = m.listed /\ w.index = m.index
      /\ j \in 1..Len(m.index)
      /\ \A y \in 1..Len(m.index) : w.element[y] = IF y = j THEN e ELSE m.element[y]
    BY <1>1, <1>2, AnySetElementIs
<1>4. n \in w.listed
    BY <1>3 DEF HasPlace
<1>5. GetName(w, GetIndex(w, n)) = n
    BY <1>3, <1>4, AnyOrderFacts
<1>6. Slot(w, n) = j
    BY <1>1, <1>2, <1>3 DEF Slot
<1> QED BY <1>3, <1>5, <1>6 DEF GetByIndex

\* What a thread gets when it loads the element of a name.
LEMMA CreateGets ==
    ASSUME OnePlace, PlacesHold, NEW th \in Thread, th \notin stale, Create(th)
    PROVE  LET s == Head(doing[th])
               e == GetByIndex(map'[s.on], GetIndex(map'[s.on], s.name)) IN
           HasByName(map'[s.on], s.name) /\ e # NoElement => elem'[e].name = s.name
<1>1. PICK s : s = Head(doing[th])
    OBVIOUS
<1>2. doing[th] # <<>> /\ s.do = "create"
    BY <1>1 DEF Create, Doing, Idle
<1>3. s.on \in Container /\ PlaceHolds(map, s)
    BY <1>1, <1>2, LookedUp
<1>4. PICK m, n, i, k : m = map[s.on] /\ n = s.name /\ i = s.at /\ k = Len(elem)
    OBVIOUS
<1>5. HasPlace(m, n, i)
    BY <1>3, <1>4 DEF PlaceHolds
<1>7. /\ m \in AnyMap(k) /\ k \in Nat /\ elem \in Seq(Object)
      /\ map = [c \in Container |-> map[c]]
    BY <1>3, <1>4, Parts
<1>8. NameNow(s) = n
  <2>1. GetName(m, i) = n
      BY <1>5, <1>7, PlaceReached
  <2> QED BY <1>4, <2>1 DEF NameNow
<1>9. PICK x, p : /\ p = k + 1 /\ x \in {p, NoElement}
                  /\ map' = [map EXCEPT ![s.on] = SetElement(m, i, x)]
                  /\ x # NoElement => elem' = Append(elem, Loaded(s.on, n))
  <2>1. PICK p : p = k + 1
      OBVIOUS
  <2> QED BY <1>1, <1>4, <1>8, <2>1 DEF Create, NextElement
<1>10. PICK w : w = SetElement(m, i, x)
    OBVIOUS
<1>11. m \in AnyMap(p) /\ p \in Nat /\ x \in (1..p) \union {NoElement}
    BY <1>7, <1>9, MapGrows
<1>12. map'[s.on] = w /\ GetByIndex(w, GetIndex(w, n)) = x
    BY <1>3, <1>5, <1>7, <1>9, <1>10, <1>11, SetThenGet
<1>13. ASSUME x # NoElement PROVE elem'[x].name = n
  <2>1. PICK o : o = Loaded(s.on, n)
      OBVIOUS
  <2>2. elem' = Append(elem, o) /\ x = k + 1 /\ o.name = n
      BY <1>9, <1>13, <2>1 DEF Loaded
  <2>3. elem'[x] = o
      BY <1>4, <1>7, <2>2
  <2> QED BY <2>2, <2>3
<1> QED BY <1>1, <1>4, <1>12, <1>13

\* A load that fails takes the name out.
LEMMA CreateFailsGets ==
    ASSUME OnePlace, PlacesHold, NEW th \in Thread, th \notin stale, CreateFails(th)
    PROVE  LET s == Head(doing[th]) IN ~HasByName(map'[s.on], s.name)
<1>1. PICK s : s = Head(doing[th])
    OBVIOUS
<1>2. doing[th] # <<>> /\ s.do = "create"
    BY <1>1 DEF CreateFails, Doing, Idle
<1>3. s.on \in Container /\ PlaceHolds(map, s)
    BY <1>1, <1>2, LookedUp
<1>4. PICK m, i, k : m = map[s.on] /\ i = s.at /\ k = Len(elem)
    OBVIOUS
<1>5. m \in AnyMap(k) /\ k \in Nat /\ map = [c \in Container |-> map[c]]
    BY <1>3, <1>4, Parts
<1>6. i \in Int /\ Reaches(m, i) /\ GetName(m, i) = s.name
    BY <1>3, <1>4, <1>5, PlaceReached DEF PlaceHolds
<1>7. map' = [map EXCEPT ![s.on] = RemoveElement(m, i)]
    BY <1>1, <1>4 DEF CreateFails, TakenOut
<1>8. RemoveElement(m, i).names = m.names \ {s.name}
    BY <1>5, <1>6, AnyRemoveElementIs
<1> QED BY <1>1, <1>3, <1>5, <1>7, <1>8 DEF HasByName

\* A call whose place holds does not end in an exception.
LEMMA ThrowNever ==
    ASSUME OnePlace, PlacesHold, NEW th \in Thread, th \notin stale, Throw(th),
           Doing(th, {"create"})
    PROVE  FALSE
<1>1. PICK s : s = Head(doing[th])
    OBVIOUS
<1>2. doing[th] # <<>> /\ s.do = "create" /\ ~Reaches(map[s.on], s.at)
    BY <1>1 DEF Throw, Doing, Idle
<1>3. s.on \in Container /\ PlaceHolds(map, s)
    BY <1>1, <1>2, LookedUp
<1>4. PICK m, k : m = map[s.on] /\ k = Len(elem)
    OBVIOUS
<1>5. m \in AnyMap(k) /\ k \in Nat /\ HasPlace(m, s.name, s.at)
    BY <1>3, <1>4, Parts DEF PlaceHolds
<1> QED BY <1>2, <1>4, <1>5, PlaceReached

(* A thread that asked for a name whose place nobody moved since gets the    *)
(* element of that name, or none: in races of the others too, and with the   *)
(* lock taken after the place was looked up (ContainerBase.java:314).        *)
THEOREM GetsWhatItAskedHolds == Spec => GetsWhatItAsked
<1> DEFINE Asked == \A th \in Thread :
       Doing(th, {"create"}) /\ doing'[th] # doing[th] /\ th \notin stale =>
         LET s == Head(doing[th])
             e == GetByIndex(map'[s.on], GetIndex(map'[s.on], s.name)) IN
         HasByName(map'[s.on], s.name) /\ e # NoElement
           => elem'[e].name = s.name
<1>1. Init => OnePlace /\ Whole /\ PlacesHold
  <2>1. Init => \A th \in Thread : DOMAIN doing[th] = {}
      BY DEF Init
  <2> QED BY <2>1, InitOnePlace DEF PlacesHold
<1>2. OnePlace /\ Whole /\ PlacesHold /\ [Next]_vars => OnePlace' /\ Whole' /\ PlacesHold'
    BY OnePlaceStep, PlacesStep
<1>3. OnePlace /\ Whole /\ PlacesHold /\ [Next]_vars => [Asked]_vars
  <2> SUFFICES ASSUME OnePlace, Whole, PlacesHold, [Next]_vars, NEW th \in Thread,
                      Doing(th, {"create"}), doing'[th] # doing[th], th \notin stale
               PROVE  LET s == Head(doing[th])
                          e == GetByIndex(map'[s.on], GetIndex(map'[s.on], s.name)) IN
                      HasByName(map'[s.on], s.name) /\ e # NoElement => elem'[e].name = s.name
      OBVIOUS
  <2>1. GoOn(th)
    <3>1. PICK o \in Thread : Call(o) \/ GoOn(o)
        BY DEF Next, OtherSession, vars
    <3>2. o = th
        BY <3>1, Moves
    <3>3. ~Idle(th)
        BY DEF Doing
    <3> QED BY <3>1, <3>2, <3>3, CallIdle
  <2>2. CASE Create(th)
      BY <2>2, CreateGets
  <2>3. CASE CreateFails(th)
      BY <2>3, CreateFailsGets
  <2>4. CASE Throw(th)
      BY <2>4, ThrowNever
  <2>5. /\ ~TakeOut(th) /\ ~Insert(th) /\ ~Add(th) /\ ~Replace(th) /\ ~Relabel(th)
        /\ ~Empty(th) /\ ~RefillOne(th) /\ ~RefillFails(th)
      BY DEF TakeOut, Insert, Add, Replace, Relabel, Empty, RefillOne, RefillFails, Doing
  <2> QED BY <2>1, <2>2, <2>3, <2>4, <2>5 DEF GoOn
<1> QED BY <1>1, <1>2, <1>3, PTL DEF Spec, GetsWhatItAsked
================================================================================
