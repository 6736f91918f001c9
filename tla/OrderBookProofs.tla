-------------------------- MODULE OrderBookProofs --------------------------
(***************************************************************************)
(* Theorems about OrderBookStore for any number of orders, prices,         *)
(* quantities and times: the Map and the arrays stay one book, and that    *)
(* book is the PriceTimeBook.                                              *)
(***************************************************************************)
EXTENDS OrderBookStore, DataProofs

-----------------------------------------------------------------------------
(* The two edits of an array.                                              *)

LEMMA FilteredKeeps ==
    ASSUME NEW S, NEW s \in Seq(S), NEW id
    PROVE  /\ Filtered(s, id) \in Seq(S)
           /\ Elements(Filtered(s, id)) = Elements(s) \ {id}
           /\ \A i, j \in DOMAIN Filtered(s, id) : i < j =>
                 \E k, l \in DOMAIN s : k < l /\ s[k] = Filtered(s, id)[i] /\ s[l] = Filtered(s, id)[j]
<1> DEFINE D == {i \in DOMAIN s : s[i] # id}
<1>1. Filtered(s, id) = Kept(s, D)
  BY DEF Filtered
<1>2. {s[i] : i \in D} = Elements(s) \ {id}
  BY DEF Elements
<1>3. D \in SUBSET DOMAIN s
  OBVIOUS
<1> HIDE DEF D
<1>4. /\ Kept(s, D) \in Seq(S) /\ Elements(Kept(s, D)) = {s[i] : i \in D}
      /\ \A i, j \in DOMAIN Kept(s, D) : i < j =>
            \E k, l \in D : k < l /\ s[k] = Kept(s, D)[i] /\ s[l] = Kept(s, D)[j]
  BY <1>3, KeptInOrder
<1>5. QED
  BY <1>1, <1>2, <1>3, <1>4

\* One order goes before another: as the comparators have it, and when they do
\* not care, by which was placed first.
Prior(obj, x, y) ==
    \/ SortsBefore(obj, x, y)
    \/ ~SortsBefore(obj, y, x) /\ x < y

\* Orders the comparators can compare.
Comparable(obj, ids, side) ==
    \A x \in ids : x \in Nat /\ obj[x].side = side /\ obj[x].price \in Nat /\ obj[x].createdAt \in Nat

LEMMA SortsBeforeIsWeak ==
    ASSUME NEW obj, NEW ids, NEW side \in Sides, Comparable(obj, ids, side),
           NEW x \in ids, NEW y \in ids, NEW z \in ids
    PROVE  /\ ~(SortsBefore(obj, x, y) /\ SortsBefore(obj, y, x))
           /\ SortsBefore(obj, x, y) /\ SortsBefore(obj, y, z) => SortsBefore(obj, x, z)
           /\ ~SortsBefore(obj, x, y) /\ ~SortsBefore(obj, y, z) => ~SortsBefore(obj, x, z)
BY DEF Comparable, SortsBefore, Precedes, Sides

\* Nothing goes before itself, of two orders one goes first, and so on.
LEMMA PriorIsLinear ==
    ASSUME NEW obj, NEW ids, NEW side \in Sides, Comparable(obj, ids, side),
           NEW x \in ids, NEW y \in ids
    PROVE  ~(Prior(obj, x, y) /\ Prior(obj, y, x)) /\ (x # y => Prior(obj, x, y) \/ Prior(obj, y, x))
<1>1. ~(SortsBefore(obj, x, y) /\ SortsBefore(obj, y, x))
  BY SortsBeforeIsWeak
<1>2. x \in Nat /\ y \in Nat
  BY DEF Comparable
<1>3. ~(x < y /\ y < x) /\ (x # y => x < y \/ y < x)
  BY <1>2
<1>4. QED
  BY <1>1, <1>3, Zenon DEF Prior

\* A sort of an array whose equal elements are in the order of their placing.
LEMMA SortedIsSorted ==
    ASSUME NEW obj, NEW S, NEW s \in Seq(S), NEW side \in Sides, Comparable(obj, Elements(s), side),
           \A i, j \in DOMAIN s : i < j =>
              SortsBefore(obj, s[i], s[j]) \/ SortsBefore(obj, s[j], s[i]) \/ s[i] < s[j]
    PROVE  /\ Sorted(obj, s) \in Seq(S) /\ Elements(Sorted(obj, s)) = Elements(s)
           /\ \A i, j \in DOMAIN Sorted(obj, s) : i < j => Prior(obj, Sorted(obj, s)[i], Sorted(obj, s)[j])
<1> DEFINE D == DOMAIN s
           R == SortedBefore(obj, s)
           B == {p \in D \X D : SortsBefore(obj, s[p[1]], s[p[2]])}
<1>1. IsFiniteSet(D) /\ Cardinality(D) \in Nat /\ D \subseteq Nat
  BY PositionsAreFinite
<1>0. \A i, j \in D : <<i, j>> \in B <=> SortsBefore(obj, s[i], s[j])
  OBVIOUS
<1>2. \A i, j \in D : <<i, j>> \in R <=> <<i, j>> \in B \/ (<<j, i>> \notin B /\ i <= j)
  BY <1>0 DEF SortedBefore
<1>3. \A i \in D : s[i] \in Elements(s)
  BY DEF Elements
<1>4. \A i, j, k \in D : /\ (<<i, j>> \in B => <<j, i>> \notin B)
                         /\ <<i, j>> \in B /\ <<j, k>> \in B => <<i, k>> \in B
                         /\ <<i, j>> \notin B /\ <<j, k>> \notin B => <<i, k>> \notin B
  <2> SUFFICES ASSUME NEW i \in D, NEW j \in D, NEW k \in D
               PROVE  /\ (<<i, j>> \in B => <<j, i>> \notin B)
                      /\ <<i, j>> \in B /\ <<j, k>> \in B => <<i, k>> \in B
                      /\ <<i, j>> \notin B /\ <<j, k>> \notin B => <<i, k>> \notin B
    OBVIOUS
  <2>1. PICK x \in Elements(s), y \in Elements(s), z \in Elements(s) : x = s[i] /\ y = s[j] /\ z = s[k]
    BY <1>3
  <2>2. /\ ~(SortsBefore(obj, x, y) /\ SortsBefore(obj, y, x))
        /\ SortsBefore(obj, x, y) /\ SortsBefore(obj, y, z) => SortsBefore(obj, x, z)
        /\ ~SortsBefore(obj, x, y) /\ ~SortsBefore(obj, y, z) => ~SortsBefore(obj, x, z)
    BY SortsBeforeIsWeak
  <2>3. /\ <<i, j>> \in B <=> SortsBefore(obj, x, y)
        /\ <<j, i>> \in B <=> SortsBefore(obj, y, x)
        /\ <<j, k>> \in B <=> SortsBefore(obj, y, z)
        /\ <<i, k>> \in B <=> SortsBefore(obj, x, z)
    BY <1>0, <2>1
  <2>4. QED
    BY <2>2, <2>3, Zenon
<1>5. \A i, j \in D : i < j => <<i, j>> \in B \/ <<j, i>> \in B \/ s[i] < s[j]
  BY <1>0
<1> HIDE DEF R, B
<1>6. Linear(R, D)
  <2>1. \A i, j \in D : <<i, j>> \in R \/ <<j, i>> \in R
    <3> SUFFICES ASSUME NEW i \in D, NEW j \in D PROVE <<i, j>> \in R \/ <<j, i>> \in R
      OBVIOUS
    <3>1. i <= j \/ j <= i
      BY <1>1
    <3>2. QED
      BY <1>2, <3>1, Zenon
  <2>2. \A i, j \in D : <<i, j>> \in R /\ <<j, i>> \in R => i = j
    <3> SUFFICES ASSUME NEW i \in D, NEW j \in D, <<i, j>> \in R, <<j, i>> \in R PROVE i = j
      OBVIOUS
    <3>1. i <= j /\ j <= i
      BY <1>2, <1>4, Zenon
    <3>2. QED
      BY <1>1, <3>1
  <2>3. \A i, j, k \in D : <<i, j>> \in R /\ <<j, k>> \in R => <<i, k>> \in R
    <3> SUFFICES ASSUME NEW i \in D, NEW j \in D, NEW k \in D, <<i, j>> \in R, <<j, k>> \in R
                 PROVE  <<i, k>> \in B \/ (<<k, i>> \notin B /\ i <= k)
      BY <1>2
    <3>1. <<j, i>> \notin B /\ <<k, j>> \notin B
      BY <1>2, <1>4
    <3>2. <<k, i>> \notin B
      BY <1>4, <3>1
    <3>3. <<i, k>> \in B \/ i <= k
      <4>1. CASE <<i, j>> \in B /\ <<i, k>> \notin B
        <5>1. <<k, j>> \in B
          BY <1>4, <4>1
        <5>2. QED
          BY <3>1, <5>1
      <4>2. CASE <<j, k>> \in B /\ <<i, k>> \notin B
        <5>1. <<j, i>> \in B
          BY <1>4, <4>2
        <5>2. QED
          BY <3>1, <5>1
      <4>3. CASE i <= j /\ j <= k
        BY <1>1, <4>3
      <4>4. QED
        BY <1>2, <4>1, <4>2, <4>3
    <3>4. QED
      BY <3>2, <3>3
  <2>4. QED
    BY <2>1, <2>2, <2>3 DEF Linear
<1>7. Sorted(obj, s) = Arranged(s, D, R)
  BY DEF Sorted, R
<1>8. /\ Arranged(s, D, R) \in Seq(S) /\ DOMAIN Arranged(s, D, R) = 1..Cardinality(D)
      /\ Elements(Arranged(s, D, R)) = Elements(s)
  <2>1. {s[i] : i \in D} = Elements(s)
    BY DEF Elements
  <2>2. D \in SUBSET DOMAIN s
    OBVIOUS
  <2> HIDE DEF D
  <2>3. QED
    BY <1>6, <2>1, <2>2, ArrangedElements
<1>9. /\ \A k \in 1..Cardinality(D) : Position(k, D, R) \in D
      /\ \A k, l \in 1..Cardinality(D) :
            k < l => <<Position(k, D, R), Position(l, D, R)>> \in R /\ Position(k, D, R) # Position(l, D, R)
  BY <1>1, <1>6, PositionsAreOrdered
<1>10. ASSUME NEW k \in 1..Cardinality(D), NEW l \in 1..Cardinality(D), k < l
       PROVE  Prior(obj, Arranged(s, D, R)[k], Arranged(s, D, R)[l])
  <2>1. PICK i \in D, j \in D : i = Position(k, D, R) /\ j = Position(l, D, R)
    BY <1>9
  <2>2. i # j /\ (<<i, j>> \in B \/ (<<j, i>> \notin B /\ i <= j))
    BY <1>2, <1>9, <1>10, <2>1
  <2>3. <<i, j>> \in B \/ (<<j, i>> \notin B /\ s[i] < s[j])
    BY <1>1, <1>5, <2>2
  <2>4. Arranged(s, D, R)[k] = s[i] /\ Arranged(s, D, R)[l] = s[j]
    BY <2>1 DEF Arranged
  <2>5. QED
    <3>1. SortsBefore(obj, s[i], s[j]) \/ (~SortsBefore(obj, s[j], s[i]) /\ s[i] < s[j])
      BY <1>0, <2>3, Zenon
    <3>2. Prior(obj, s[i], s[j])
      BY <3>1, Zenon DEF Prior
    <3>3. QED
      BY <2>4, <3>2, Zenon
<1>11. QED
  BY <1>7, <1>8, <1>10

-----------------------------------------------------------------------------
(* The book: what the Map and the arrays are between two calls.  Orders of *)
(* one price and time sort as the Map has them, whose ids rise: it is that *)
(* which a stable sort keeps, and which makes the head of an array one     *)
(* order and no other.                                                     *)

Rising(s)          == \A i, j \in DOMAIN s : i < j => s[i] < s[j]
Lined(obj, s)      == \A i, j \in DOMAIN s : i < j => Prior(obj, s[i], s[j])
Side(obj, s, side) == {id \in Elements(s) : obj[id].side = side}

\* The Map has orders under their ids, which rise.
Keyed(obj, map) ==
    /\ map \in Seq(OrderIds) /\ Rising(map)
    /\ \A id \in Elements(map) : obj[id] \in Order /\ obj[id].id = id

\* An array has the Map's orders of its side, lined up.
Mirrors(obj, map, array, side) ==
    array \in Seq(OrderIds) /\ Elements(array) = Side(obj, map, side) /\ Lined(obj, array)

\* The same to the comparators, on these orders.
Alike(obj1, obj2, ids) ==
    \A x \in ids : /\ obj2[x].side = obj1[x].side
                    /\ obj2[x].price = obj1[x].price
                    /\ obj2[x].createdAt = obj1[x].createdAt

LEMMA AlikeSortsAlike ==
    ASSUME NEW obj1, NEW obj2, NEW ids, Alike(obj1, obj2, ids), NEW x \in ids, NEW y \in ids
    PROVE  /\ SortsBefore(obj2, x, y) <=> SortsBefore(obj1, x, y)
           /\ Prior(obj2, x, y) <=> Prior(obj1, x, y)
<1>1. SortsBefore(obj2, x, y) <=> SortsBefore(obj1, x, y)
  BY DEF Alike, SortsBefore, Precedes
<1>2. SortsBefore(obj2, y, x) <=> SortsBefore(obj1, y, x)
  BY DEF Alike, SortsBefore, Precedes
<1>3. QED
  BY <1>1, <1>2, Zenon DEF Prior

LEMMA SideIsComparable ==
    ASSUME NEW obj, NEW s, Keyed(obj, s), NEW side
    PROVE  Comparable(obj, Side(obj, s, side), side)
<1>1. Elements(s) \subseteq OrderIds
  BY DEF Elements, Keyed
<1>2. QED
  BY <1>1, IdsAssumption, AmountsAssumption DEF Comparable, Side, Keyed, Order

\* An array that is lined up can be sorted again, by objects alike.
LEMMA LinedIsSortable ==
    ASSUME NEW obj1, NEW obj2, NEW s, Lined(obj1, s), Alike(obj1, obj2, Elements(s))
    PROVE  \A i, j \in DOMAIN s : i < j =>
              SortsBefore(obj2, s[i], s[j]) \/ SortsBefore(obj2, s[j], s[i]) \/ s[i] < s[j]
<1> SUFFICES ASSUME NEW i \in DOMAIN s, NEW j \in DOMAIN s, i < j
             PROVE  SortsBefore(obj2, s[i], s[j]) \/ SortsBefore(obj2, s[j], s[i]) \/ s[i] < s[j]
  OBVIOUS
<1>1. s[i] \in Elements(s) /\ s[j] \in Elements(s)
  BY DEF Elements
<1>2. Prior(obj1, s[i], s[j])
  BY DEF Lined
<1>3. Prior(obj2, s[i], s[j])
  BY <1>1, <1>2, AlikeSortsAlike
<1>4. QED
  BY <1>3, Zenon DEF Prior

\* placeOrder appends the order to the Map and to its side.
LEMMA AppendedElements ==
    ASSUME NEW S, NEW s \in Seq(S), NEW n \in S
    PROVE  /\ Append(s, n) \in Seq(S) /\ Len(s) \in Nat
           /\ DOMAIN Append(s, n) = 1..(Len(s) + 1) /\ DOMAIN s = 1..Len(s)
           /\ \A i \in 1..Len(s) : Append(s, n)[i] = s[i]
           /\ Append(s, n)[Len(s) + 1] = n
           /\ Elements(Append(s, n)) = Elements(s) \cup {n}
<1>1. /\ Append(s, n) \in Seq(S) /\ Len(s) \in Nat
      /\ DOMAIN Append(s, n) = 1..(Len(s) + 1) /\ DOMAIN s = 1..Len(s)
      /\ \A i \in 1..Len(s) : Append(s, n)[i] = s[i]
      /\ Append(s, n)[Len(s) + 1] = n
  OBVIOUS
<1>2. \A i \in 1..(Len(s) + 1) : i \in 1..Len(s) \/ i = Len(s) + 1
  BY <1>1
<1>3. 1..Len(s) \subseteq 1..(Len(s) + 1) /\ Len(s) + 1 \in 1..(Len(s) + 1)
  BY <1>1
<1>4. Elements(Append(s, n)) = Elements(s) \cup {n}
  BY <1>1, <1>2, <1>3 DEF Elements
<1>5. QED
  BY <1>1, <1>4

\* One object was written: the others are as they were.
OnlyWrites(obj1, obj2, id) == \A x \in OrderIds \ {id} : obj2[x] = obj1[x]

LEMMA PlacedInMap ==
    ASSUME NEW obj1, NEW obj2, NEW map, Keyed(obj1, map), NEW r \in Resting,
           obj2[r.id] = r, OnlyWrites(obj1, obj2, r.id), \A id \in Elements(map) : id < r.id
    PROVE  Keyed(obj2, Append(map, r.id))
<1>1. r.id \in OrderIds /\ r \in Order
  BY AmountsAssumption DEF Resting, Order
<1>2. map \in Seq(OrderIds) /\ Elements(map) \subseteq OrderIds
  BY DEF Keyed, Elements
<1>3. PICK n \in OrderIds : n = r.id
  BY <1>1
<1>4. /\ Append(map, n) \in Seq(OrderIds) /\ Len(map) \in Nat
      /\ DOMAIN Append(map, n) = 1..(Len(map) + 1) /\ DOMAIN map = 1..Len(map)
      /\ \A i \in 1..Len(map) : Append(map, n)[i] = map[i]
      /\ Append(map, n)[Len(map) + 1] = n
      /\ Elements(Append(map, n)) = Elements(map) \cup {n}
  BY <1>2, AppendedElements
<1>5. Rising(Append(map, n))
  <2> SUFFICES ASSUME NEW i \in 1..(Len(map) + 1), NEW j \in 1..(Len(map) + 1), i < j
               PROVE  Append(map, n)[i] < Append(map, n)[j]
    BY <1>4 DEF Rising
  <2>1. i \in 1..Len(map) /\ (j \in 1..Len(map) \/ j = Len(map) + 1)
    BY <1>4
  <2>2. map[i] < n
    BY <1>3, <1>4, <2>1 DEF Elements
  <2>3. j \in 1..Len(map) => map[i] < map[j]
    BY <1>4, <2>1 DEF Keyed, Rising
  <2>4. QED
    BY <1>4, <2>1, <2>2, <2>3
<1>6. \A id \in Elements(map) : obj2[id] \in Order /\ obj2[id].id = id
  <2> SUFFICES ASSUME NEW id \in Elements(map) PROVE obj2[id] \in Order /\ obj2[id].id = id
    OBVIOUS
  <2>1. id \in Nat /\ id < n
    BY <1>2, <1>3, IdsAssumption
  <2>2. id # r.id
    BY <1>3, <2>1
  <2>3. QED
    BY <1>2, <2>2 DEF OnlyWrites, Keyed
<1>7. QED
  BY <1>1, <1>3, <1>4, <1>5, <1>6 DEF Keyed

\* A new order is after the others in the array it is pushed to, and the sort
\* puts it in its place; the other array has nothing to do with it.
LEMMA PlacedInArrays ==
    ASSUME NEW obj1, NEW obj2, NEW map, Keyed(obj1, map), NEW r \in Resting,
           obj2[r.id] = r, OnlyWrites(obj1, obj2, r.id), \A id \in Elements(map) : id < r.id,
           NEW side \in Sides, NEW array, Mirrors(obj1, map, array, side)
    PROVE  /\ r.side = side => Mirrors(obj2, Append(map, r.id), Sorted(obj2, Append(array, r.id)), side)
           /\ r.side # side => Mirrors(obj2, Append(map, r.id), array, side)
<1>1. PICK n \in OrderIds : n = r.id
  BY DEF Resting
<1>2. map \in Seq(OrderIds) /\ array \in Seq(OrderIds) /\ Elements(array) = Side(obj1, map, side)
      /\ Lined(obj1, array) /\ Elements(map) \subseteq OrderIds /\ Elements(array) \subseteq Elements(map)
  <2>1. map \in Seq(OrderIds) /\ array \in Seq(OrderIds)
    BY DEF Keyed, Mirrors
  <2>2. Elements(array) = Side(obj1, map, side) /\ Lined(obj1, array)
    BY DEF Mirrors
  <2>3. Elements(map) \subseteq OrderIds
    BY <2>1 DEF Elements
  <2>4. Elements(array) \subseteq Elements(map)
    BY <2>2 DEF Side
  <2>5. QED
    BY <2>1, <2>2, <2>3, <2>4
<1>3. Elements(Append(map, n)) = Elements(map) \cup {n} /\ n \notin Elements(map)
  <2>1. n \in Nat /\ (n \in Elements(map) => n < n)
    BY <1>1, IdsAssumption
  <2>2. Elements(Append(map, n)) = Elements(map) \cup {n}
    BY <1>2, AppendedElements
  <2>3. QED
    BY <2>1, <2>2
<1>4. \A x \in Elements(map) : obj2[x] = obj1[x]
  BY <1>1, <1>2, <1>3 DEF OnlyWrites
<1>5. Alike(obj1, obj2, Elements(array))
  BY <1>2, <1>4 DEF Alike
<1>6. Side(obj2, Append(map, n), side) = Elements(array) \cup {x \in {n} : r.side = side}
  BY <1>1, <1>2, <1>3, <1>4 DEF Side
<1>7. CASE r.side # side
  <2>1. Lined(obj2, array)
    <3> SUFFICES ASSUME NEW i \in DOMAIN array, NEW j \in DOMAIN array, i < j
                 PROVE  Prior(obj2, array[i], array[j])
      BY DEF Lined
    <3>1. array[i] \in Elements(array) /\ array[j] \in Elements(array) /\ Prior(obj1, array[i], array[j])
      BY <1>2 DEF Elements, Lined
    <3>2. QED
      BY <1>5, <3>1, AlikeSortsAlike
  <2>2. QED
    BY <1>1, <1>2, <1>6, <1>7, <2>1 DEF Mirrors
<1>8. CASE r.side = side
  <2> DEFINE pushed == Append(array, n)
  <2>1. /\ pushed \in Seq(OrderIds) /\ Len(array) \in Nat
        /\ DOMAIN pushed = 1..(Len(array) + 1) /\ DOMAIN array = 1..Len(array)
        /\ \A i \in 1..Len(array) : pushed[i] = array[i]
        /\ pushed[Len(array) + 1] = n
        /\ Elements(pushed) = Elements(array) \cup {n}
    BY <1>2, AppendedElements
  <2>2. Elements(pushed) = Side(obj2, Append(map, n), side)
    BY <1>6, <1>8, <2>1
  <2>3. Comparable(obj2, Elements(pushed), side)
    <3>1. Keyed(obj2, Append(map, n))
      BY <1>1, PlacedInMap
    <3>2. QED
      BY <2>2, <3>1, SideIsComparable
  <2>4. \A i, j \in DOMAIN array : i < j =>
           SortsBefore(obj2, array[i], array[j]) \/ SortsBefore(obj2, array[j], array[i]) \/ array[i] < array[j]
    BY <1>2, <1>5, LinedIsSortable
  <2>5. \A i \in DOMAIN array : array[i] < n
    BY <1>1, <1>2 DEF Elements
  <2> HIDE DEF pushed
  <2>6. ASSUME NEW i \in DOMAIN pushed, NEW j \in DOMAIN pushed, i < j
        PROVE  SortsBefore(obj2, pushed[i], pushed[j]) \/ SortsBefore(obj2, pushed[j], pushed[i])
               \/ pushed[i] < pushed[j]
    <3>1. i \in DOMAIN array /\ (j \in DOMAIN array \/ j = Len(array) + 1)
      BY <2>1, <2>6
    <3>2. CASE j = Len(array) + 1
      BY <2>1, <2>5, <3>1, <3>2
    <3>3. CASE j \in DOMAIN array
      <4>1. pushed[i] = array[i] /\ pushed[j] = array[j]
        BY <2>1, <3>1, <3>3
      <4>2. QED
        BY <2>4, <2>6, <3>1, <3>3, <4>1, Zenon
    <3>4. QED
      BY <3>1, <3>2, <3>3
  <2>7. /\ Sorted(obj2, pushed) \in Seq(OrderIds) /\ Elements(Sorted(obj2, pushed)) = Elements(pushed)
        /\ Lined(obj2, Sorted(obj2, pushed))
    BY <2>1, <2>3, <2>6, SortedIsSorted DEF Lined
  <2>8. QED
    BY <1>1, <1>8, <2>2, <2>7 DEF Mirrors, pushed
<1>9. QED
  BY <1>7, <1>8

\* What a filter leaves is in the order it was in.
LEMMA FilteredMap ==
    ASSUME NEW obj1, NEW obj2, NEW map, Keyed(obj1, map), NEW id, OnlyWrites(obj1, obj2, id)
    PROVE  Keyed(obj2, Filtered(map, id)) /\ Elements(Filtered(map, id)) = Elements(map) \ {id}
<1> DEFINE left == Filtered(map, id)
<1>1. map \in Seq(OrderIds) /\ Rising(map) /\ \A x \in Elements(map) : obj1[x] \in Order /\ obj1[x].id = x
  BY DEF Keyed
<1>2. Elements(map) \subseteq OrderIds
  BY <1>1 DEF Elements
<1>3. /\ left \in Seq(OrderIds) /\ Elements(left) = Elements(map) \ {id}
      /\ \A i, j \in DOMAIN left : i < j =>
            \E k, l \in DOMAIN map : k < l /\ map[k] = left[i] /\ map[l] = left[j]
  BY <1>1, FilteredKeeps
<1> HIDE DEF left
<1>4. Rising(left)
  BY <1>1, <1>3 DEF Rising
<1>5. \A x \in Elements(left) : obj2[x] \in Order /\ obj2[x].id = x
  BY <1>1, <1>2, <1>3 DEF OnlyWrites
<1>6. QED
  BY <1>3, <1>4, <1>5 DEF Keyed, left

LEMMA FilteredArrays ==
    ASSUME NEW obj1, NEW obj2, NEW map, Keyed(obj1, map), NEW id, OnlyWrites(obj1, obj2, id),
           NEW side, NEW array, Mirrors(obj1, map, array, side)
    PROVE  Mirrors(obj2, Filtered(map, id), Filtered(array, id), side)
<1> DEFINE left == Filtered(array, id)
<1>1. array \in Seq(OrderIds) /\ Elements(array) = Side(obj1, map, side) /\ Lined(obj1, array)
  BY DEF Mirrors
<1>2. map \in Seq(OrderIds)
  BY DEF Keyed
<1>3. Elements(map) \subseteq OrderIds
  BY <1>2 DEF Elements
<1>4. Keyed(obj2, Filtered(map, id)) /\ Elements(Filtered(map, id)) = Elements(map) \ {id}
  BY FilteredMap
<1>5. /\ left \in Seq(OrderIds) /\ Elements(left) = Elements(array) \ {id}
      /\ \A i, j \in DOMAIN left : i < j =>
            \E k, l \in DOMAIN array : k < l /\ array[k] = left[i] /\ array[l] = left[j]
  BY <1>1, FilteredKeeps
<1>6. \A x \in Elements(map) \ {id} : obj2[x] = obj1[x]
  BY <1>3 DEF OnlyWrites
<1>7. Elements(left) = Side(obj2, Filtered(map, id), side)
  BY <1>1, <1>4, <1>5, <1>6 DEF Side
<1>8. Alike(obj1, obj2, Elements(left))
  BY <1>1, <1>5, <1>6 DEF Alike, Side
<1> HIDE DEF left
<1>9. Lined(obj2, left)
  <2> SUFFICES ASSUME NEW i \in DOMAIN left, NEW j \in DOMAIN left, i < j
               PROVE  Prior(obj2, left[i], left[j])
    BY DEF Lined
  <2>1. PICK k \in DOMAIN array, l \in DOMAIN array : k < l /\ array[k] = left[i] /\ array[l] = left[j]
    BY <1>5
  <2>2. Prior(obj1, left[i], left[j])
    BY <1>1, <2>1 DEF Lined
  <2>3. left[i] \in Elements(left) /\ left[j] \in Elements(left)
    BY DEF Elements
  <2>4. QED
    BY <1>8, <2>2, <2>3, AlikeSortsAlike
<1>10. QED
  BY <1>5, <1>7, <1>9 DEF Mirrors, left

\* Another quantity changes no order's place, so that the sort finds the array
\* as it leaves it.
Reduces(obj1, obj2, id, q) ==
    OnlyWrites(obj1, obj2, id) /\ obj2[id] = [obj1[id] EXCEPT !.quantity = q]

LEMMA ReducedMap ==
    ASSUME NEW obj1, NEW obj2, NEW map, Keyed(obj1, map), NEW id \in Elements(map),
           NEW q \in Nat \ {0}, Reduces(obj1, obj2, id, q)
    PROVE  Keyed(obj2, map) /\ Alike(obj1, obj2, Elements(map))
<1>1. map \in Seq(OrderIds) /\ Rising(map) /\ \A x \in Elements(map) : obj1[x] \in Order /\ obj1[x].id = x
  BY DEF Keyed
<1>2. Elements(map) \subseteq OrderIds
  BY <1>1 DEF Elements
<1>3. \A x \in Elements(map) \ {id} : obj2[x] = obj1[x]
  BY <1>2 DEF Reduces, OnlyWrites
<1>4. /\ obj2[id] \in Order /\ obj2[id].id = obj1[id].id /\ obj2[id].side = obj1[id].side
      /\ obj2[id].price = obj1[id].price /\ obj2[id].createdAt = obj1[id].createdAt
  BY <1>1 DEF Reduces, Order
<1>5. \A x \in Elements(map) : obj2[x] \in Order /\ obj2[x].id = x
  BY <1>1, <1>3, <1>4
<1>6. Alike(obj1, obj2, Elements(map))
  BY <1>3, <1>4 DEF Alike
<1>7. QED
  BY <1>1, <1>5, <1>6 DEF Keyed

LEMMA ReducedArrays ==
    ASSUME NEW obj1, NEW obj2, NEW map, Keyed(obj1, map), NEW id \in Elements(map),
           NEW q \in Nat \ {0}, Reduces(obj1, obj2, id, q),
           NEW side \in Sides, NEW array, Mirrors(obj1, map, array, side)
    PROVE  Mirrors(obj2, map, Sorted(obj2, array), side)
<1>1. array \in Seq(OrderIds) /\ Elements(array) = Side(obj1, map, side) /\ Lined(obj1, array)
  BY DEF Mirrors
<1>2. Keyed(obj2, map) /\ Alike(obj1, obj2, Elements(map))
  BY ReducedMap
<1>3. Elements(array) = Side(obj2, map, side)
  BY <1>1, <1>2 DEF Side, Alike
<1>4. Alike(obj1, obj2, Elements(array))
  BY <1>1, <1>2 DEF Side, Alike
<1>5. Comparable(obj2, Elements(array), side)
  BY <1>2, <1>3, SideIsComparable
<1>6. \A i, j \in DOMAIN array : i < j =>
         SortsBefore(obj2, array[i], array[j]) \/ SortsBefore(obj2, array[j], array[i]) \/ array[i] < array[j]
  BY <1>1, <1>4, LinedIsSortable
<1>7. /\ Sorted(obj2, array) \in Seq(OrderIds) /\ Elements(Sorted(obj2, array)) = Elements(array)
      /\ Lined(obj2, Sorted(obj2, array))
  BY <1>1, <1>5, <1>6, SortedIsSorted DEF Lined
<1>8. QED
  BY <1>3, <1>7 DEF Mirrors

-----------------------------------------------------------------------------
(* The invariant.                                                          *)

Objects == [id : OrderIds, side : Sides, price : Nat, createdAt : Nat, quantity : Nat]
Calls   == [side : Sides, price : Prices, quantity : Quantities, best : OrderIds \cup {NoOrder}]
Answers == [id : OrderIds \cup {NoOrder}, price : Nat, quantity : Nat]

WholeBook ==
    /\ Keyed(object, orders)
    /\ Mirrors(object, orders, bids, "buy")
    /\ Mirrors(object, orders, asks, "sell")

BInv ==
    /\ object \in [OrderIds -> Objects]
    /\ placed \in Nat /\ \A id \in Keys : id <= placed
    /\ WholeBook
    /\ match \in Calls \cup {NoMatch}
    /\ answer \in Answers

LEMMA KeysAreElements == Keys = Elements(orders)
BY DEF Keys, Elements

LEMMA KeysAreIds == ASSUME BInv PROVE Keys \subseteq OrderIds /\ \A id \in Keys : object[id] \in Order
<1>1. orders \in Seq(OrderIds)
  BY DEF BInv, WholeBook, Keyed
<1>2. QED
  BY <1>1, KeysAreElements DEF BInv, WholeBook, Keyed, Keys

\* The two edits the operations share: one order goes, one order is reduced.
LEMMA BookIsFiltered ==
    ASSUME BInv, NEW id, Removed(id), OnlyWrites(object, object', id)
    PROVE  WholeBook' /\ Keys' \subseteq Keys
<1>0. Keyed(object, orders) /\ orders' = Filtered(orders, id)
  BY DEF BInv, WholeBook, Removed
<1>1. Keyed(object', Filtered(orders, id)) /\ Elements(Filtered(orders, id)) = Elements(orders) \ {id}
  BY <1>0, FilteredMap
<1>2. Mirrors(object', orders', bids', "buy")
  BY FilteredArrays DEF BInv, WholeBook, Removed
<1>3. Mirrors(object', orders', asks', "sell")
  BY FilteredArrays DEF BInv, WholeBook, Removed
<1>4. Keys' \subseteq Keys
  BY <1>0, <1>1 DEF Keys, Elements
<1>5. QED
  BY <1>0, <1>1, <1>2, <1>3, <1>4 DEF WholeBook

LEMMA BookIsReduced ==
    ASSUME BInv, NEW id \in Keys, NEW q \in Nat \ {0}, object' = [object EXCEPT ![id].quantity = q],
           bids' = Sorted(object', bids), asks' = Sorted(object', asks), UNCHANGED orders
    PROVE  WholeBook' /\ Keys' = Keys /\ object' \in [OrderIds -> Objects] /\ Reduces(object, object', id, q)
<1>1. id \in OrderIds /\ id \in Elements(orders) /\ object \in [OrderIds -> Objects]
  BY KeysAreElements, KeysAreIds DEF BInv
<1>2. Reduces(object, object', id, q)
  BY <1>1 DEF Reduces, OnlyWrites
<1>3. object' \in [OrderIds -> Objects]
  BY <1>1 DEF Objects
<1>4. Keyed(object', orders)
  BY <1>1, <1>2, ReducedMap DEF BInv, WholeBook
<1>5. Mirrors(object', orders, bids', "buy")
  BY <1>1, <1>2, ReducedArrays DEF BInv, WholeBook, Sides
<1>6. Mirrors(object', orders, asks', "sell")
  BY <1>1, <1>2, ReducedArrays DEF BInv, WholeBook, Sides
<1>7. QED
  BY <1>2, <1>3, <1>4, <1>5, <1>6 DEF WholeBook, Keys

LEMMA CollectedIsTyped ==
    ASSUME BInv, NEW id \in OrderIds, NEW held, Collected(id, held)
    PROVE  object' \in [OrderIds -> Objects] /\ OnlyWrites(object, object', id)
<1>1. Blank(id) \in Objects
  BY DEF Blank, Objects, Sides
<1>2. PICK o : o = IF id = held THEN object[id] ELSE Blank(id)
  OBVIOUS
<1>3. o \in Objects
  BY <1>1, <1>2 DEF BInv
<1>4. object' = [object EXCEPT ![id] = o]
  BY <1>2 DEF Collected
<1>5. QED
  BY <1>3, <1>4 DEF OnlyWrites, BInv

LEMMA BInit == ASSUME Init PROVE BInv
<1>1. object \in [OrderIds -> Objects]
  BY DEF Init, Blank, Objects, Sides
<1>2. DOMAIN <<>> = {} /\ <<>> \in Seq(OrderIds)
  OBVIOUS
<1>3. WholeBook
  BY <1>2 DEF Init, WholeBook, Keyed, Mirrors, Rising, Lined, Elements, Side
<1>4. answer \in Answers /\ match \in Calls \cup {NoMatch} /\ placed \in Nat
  BY DEF Init, NoAnswer, Answers
<1>5. QED
  BY <1>1, <1>2, <1>3, <1>4 DEF BInv, Keys, Init

LEMMA BPlace == ASSUME BInv, NEW r \in Resting, Place(r) PROVE BInv'
<1>1. r.id \in OrderIds /\ r \in Objects /\ r.side \in Sides
  BY AmountsAssumption DEF Resting, Objects
<1>2. object' \in [OrderIds -> Objects] /\ object'[r.id] = r /\ OnlyWrites(object, object', r.id)
  BY <1>1 DEF Place, BInv, OnlyWrites
<1>3. \A id \in Elements(orders) : id < r.id
  <2>1. placed \in Nat /\ r.id = placed + 1
    BY DEF BInv, Place
  <2>2. \A id \in Elements(orders) : id \in Nat /\ id <= placed
    BY KeysAreIds, KeysAreElements, IdsAssumption DEF BInv
  <2>3. QED
    BY <2>1, <2>2
<1>4. Keyed(object', Append(orders, r.id))
  BY <1>2, <1>3, PlacedInMap DEF BInv, WholeBook
<1>5. /\ r.side = "buy" => Mirrors(object', Append(orders, r.id), Sorted(object', Append(bids, r.id)), "buy")
      /\ r.side # "buy" => Mirrors(object', Append(orders, r.id), bids, "buy")
  BY <1>2, <1>3, PlacedInArrays DEF BInv, WholeBook, Sides
<1>6. /\ r.side = "sell" => Mirrors(object', Append(orders, r.id), Sorted(object', Append(asks, r.id)), "sell")
      /\ r.side # "sell" => Mirrors(object', Append(orders, r.id), asks, "sell")
  BY <1>2, <1>3, PlacedInArrays DEF BInv, WholeBook, Sides
<1>7. WholeBook'
  BY <1>4, <1>5, <1>6 DEF Place, WholeBook
<1>8. \A id \in Keys' : id <= placed'
  <2>1. orders \in Seq(OrderIds)
    BY DEF BInv, WholeBook, Keyed
  <2>2. Elements(orders') = Elements(orders) \cup {r.id}
    BY <1>1, <2>1, AppendedElements DEF Place
  <2>3. Keys' = Elements(orders')
    BY DEF Keys, Elements
  <2>4. placed' = r.id /\ r.id \in Nat /\ Elements(orders) \subseteq Nat
    BY <1>1, KeysAreIds, KeysAreElements, IdsAssumption DEF Place
  <2>5. QED
    BY <1>3, <2>2, <2>3, <2>4
<1>9. QED
  BY <1>1, <1>2, <1>7, <1>8, IdsAssumption DEF BInv, Place, NoAnswer, Answers

LEMMA BCancel == ASSUME BInv, NEW id \in OrderIds, Cancel(id) PROVE BInv'
<1>1. object' \in [OrderIds -> Objects] /\ OnlyWrites(object, object', id)
  BY CollectedIsTyped DEF Cancel
<1>2. WholeBook' /\ Keys' \subseteq Keys
  BY <1>1, BookIsFiltered DEF Cancel
<1>3. QED
  BY <1>1, <1>2 DEF BInv, Cancel, NoAnswer, Answers

LEMMA BUpdate ==
    ASSUME BInv, NEW id \in Amended, NEW q \in Quantities \cup {0}, Update(id, q) PROVE BInv'
<1>1. id \in OrderIds /\ id \in Keys /\ q \in Nat
  BY AmendedAssumption, AmountsAssumption DEF Update
<1>2. CASE q = 0
  <2>1. Removed(id) /\ Collected(id, match.best)
    BY <1>2 DEF Update
  <2>2. object' \in [OrderIds -> Objects] /\ OnlyWrites(object, object', id)
    BY <1>1, <2>1, CollectedIsTyped
  <2>3. WholeBook' /\ Keys' \subseteq Keys
    BY <2>1, <2>2, BookIsFiltered
  <2>4. QED
    BY <2>2, <2>3 DEF BInv, Update, NoAnswer, Answers
<1>3. CASE q # 0
  <2>1. /\ object' = [object EXCEPT ![id].quantity = q] /\ UNCHANGED orders
        /\ bids' = Sorted(object', bids) /\ asks' = Sorted(object', asks)
    BY <1>1, <1>3 DEF Update
  <2>2. WholeBook' /\ Keys' = Keys /\ object' \in [OrderIds -> Objects]
    BY <1>1, <1>3, <2>1, BookIsReduced
  <2>3. QED
    BY <2>2 DEF BInv, Update, NoAnswer, Answers
<1>4. QED
  BY <1>2, <1>3

LEMMA HeadIsAnId ==
    ASSUME NEW s \in Seq(OrderIds)
    PROVE  /\ Head0(s) \in OrderIds \cup {NoOrder}
           /\ s # <<>> => 1 \in DOMAIN s /\ Head0(s) = s[1]
BY DEF Head0

LEMMA BMatchPeek ==
    ASSUME BInv, NEW s \in Sides, NEW p \in Prices, NEW q \in Quantities, MatchPeek(s, p, q) PROVE BInv'
<1>1. BestOpposite(s) \in OrderIds \cup {NoOrder}
  BY HeadIsAnId DEF BestOpposite, BInv, WholeBook, Mirrors
<1>2. match' \in Calls
  BY <1>1 DEF MatchPeek, Calls
<1>3. QED
  BY <1>2 DEF BInv, WholeBook, MatchPeek, Keys

LEMMA NoMatchHasNoOrder == ASSUME BInv PROVE match.best \in OrderIds \cup {NoOrder}
BY DEF BInv, Calls, NoMatch

\* Only an order out of the Map is collected when nothing matches.
LEMMA BMatchNothing == ASSUME BInv, MatchNothing PROVE BInv'
<1>1. UNCHANGED <<orders, bids, asks, placed>> /\ match' = NoMatch /\ answer' = NoAnswer
  BY DEF MatchNothing
<1>2. CASE UNCHANGED object
  BY <1>1, <1>2 DEF BInv, WholeBook, Keys, NoAnswer, Answers
<1>3. CASE match.best \notin Keys \cup {NoOrder} /\ Collected(match.best, NoOrder)
  <2>1. PICK id \in OrderIds : id = match.best
    BY <1>3, NoMatchHasNoOrder
  <2>2. id \notin Elements(orders) /\ Collected(id, NoOrder)
    BY <1>3, <2>1, KeysAreElements
  <2>3. object' \in [OrderIds -> Objects] /\ OnlyWrites(object, object', id)
    BY <2>2, CollectedIsTyped
  <2>4. \A x \in Elements(orders) : object'[x] = object[x]
    BY <2>2, <2>3, KeysAreElements, KeysAreIds DEF OnlyWrites
  <2>5. Keyed(object', orders)
    BY <2>4 DEF BInv, WholeBook, Keyed
  <2>6. ASSUME NEW side, NEW array, Mirrors(object, orders, array, side)
        PROVE  Mirrors(object', orders, array, side)
    <3>1. array \in Seq(OrderIds) /\ Elements(array) = Side(object, orders, side) /\ Lined(object, array)
      BY <2>6 DEF Mirrors
    <3>2. Elements(array) = Side(object', orders, side)
      BY <2>4, <3>1 DEF Side
    <3>3. Alike(object, object', Elements(array))
      BY <2>4, <3>1 DEF Alike, Side
    <3>4. Lined(object', array)
      <4> SUFFICES ASSUME NEW i \in DOMAIN array, NEW j \in DOMAIN array, i < j
                   PROVE  Prior(object', array[i], array[j])
        BY DEF Lined
      <4>1. array[i] \in Elements(array) /\ array[j] \in Elements(array) /\ Prior(object, array[i], array[j])
        BY <3>1 DEF Elements, Lined
      <4>2. QED
        BY <3>3, <4>1, AlikeSortsAlike
    <3>5. QED
      BY <3>1, <3>2, <3>4 DEF Mirrors
  <2>7. WholeBook'
    BY <1>1, <2>5, <2>6 DEF BInv, WholeBook
  <2>8. QED
    BY <1>1, <2>3, <2>7 DEF BInv, Keys, NoAnswer, Answers
<1>4. QED
  BY <1>2, <1>3 DEF MatchNothing

\* What is taken is no more than what the order has, or the taker wants.
LEMMA TakenIsTyped ==
    ASSUME NEW m \in Nat \ {0}, NEW n \in Nat \ {0}
    PROVE  /\ LesserOf(m, n) \in Nat \ {0}
           /\ ~(n <= LesserOf(m, n)) => n - LesserOf(m, n) \in Nat \ {0}
           /\ n <= LesserOf(m, n) <=> ~(n > LesserOf(m, n))
BY DEF LesserOf

LEMMA BMatchTake == ASSUME BInv, MatchTake PROVE BInv'
<1>1. match # NoMatch /\ Takes(match) /\ match' = NoMatch /\ UNCHANGED placed
  BY DEF MatchTake
<1>2. PICK id \in Keys : id = match.best
  BY <1>1 DEF Takes
<1>3. id \in OrderIds /\ object[id] \in Order /\ object \in [OrderIds -> Objects]
  BY KeysAreIds DEF BInv
<1>4. match.quantity \in Nat \ {0} /\ object[id].quantity \in Nat \ {0} /\ object[id].price \in Nat
  BY <1>1, <1>3, AmountsAssumption DEF BInv, Calls, Order
<1>5. PICK taken : taken = LesserOf(match.quantity, object[id].quantity)
  OBVIOUS
<1>6. /\ taken \in Nat \ {0}
      /\ ~WhollyTaken(id, taken) => object[id].quantity - taken \in Nat \ {0}
  BY <1>4, <1>5, TakenIsTyped DEF WhollyTaken
<1>7. answer' = [id |-> id, price |-> object[id].price, quantity |-> taken]
  BY <1>2, <1>5 DEF MatchTake
<1>8. answer' \in Answers
  BY <1>3, <1>4, <1>6, <1>7 DEF Answers
<1>9. CASE /\ ~WhollyTaken(id, taken)
           /\ object' = [object EXCEPT ![id].quantity = @ - taken]
           /\ bids' = Sorted(object', bids) /\ asks' = Sorted(object', asks)
           /\ UNCHANGED orders
  <2>1. object' = [object EXCEPT ![id].quantity = object[id].quantity - taken]
    BY <1>9
  <2>2. PICK q \in Nat \ {0} : q = object[id].quantity - taken
    BY <1>6, <1>9
  <2>3. object' = [object EXCEPT ![id].quantity = q]
    BY <2>1, <2>2
  <2>4. WholeBook' /\ Keys' = Keys /\ object' \in [OrderIds -> Objects]
    BY <1>9, <2>3, BookIsReduced
  <2>5. QED
    BY <1>1, <1>8, <2>4 DEF BInv
<1>10. CASE WhollyTaken(id, taken) /\ Removed(id) /\ Collected(id, NoOrder)
  <2>1. object' \in [OrderIds -> Objects] /\ OnlyWrites(object, object', id)
    BY <1>3, <1>10, CollectedIsTyped
  <2>2. WholeBook' /\ Keys' \subseteq Keys
    BY <1>10, <2>1, BookIsFiltered
  <2>3. QED
    BY <1>1, <1>8, <2>1, <2>2 DEF BInv
<1>11. QED
  BY <1>2, <1>5, <1>9, <1>10 DEF MatchTake

LEMMA BNext == ASSUME BInv, [Next]_storeVars PROVE BInv'
<1>1. CASE UNCHANGED storeVars
  BY <1>1 DEF storeVars, BInv, WholeBook, Keys
<1>2. CASE Next
  BY <1>2, BPlace, BCancel, BUpdate, BMatchPeek, BMatchNothing, BMatchTake DEF Next
<1>3. QED
  BY <1>1, <1>2

LEMMA BookIsWhole == Spec => []BInv
<1>1. BInv /\ [Next]_storeVars => BInv'
  BY BNext
<1>2. Init => BInv
  BY BInit
<1>3. QED
  BY <1>1, <1>2, PTL DEF Spec

-----------------------------------------------------------------------------
(* What it gives.                                                          *)

LEMMA BTypes == BInv => TypeOK
<1> SUFFICES ASSUME BInv PROVE TypeOK
  OBVIOUS
<1>1. orders \in Seq(OrderIds) /\ bids \in Seq(OrderIds) /\ asks \in Seq(OrderIds)
  BY DEF BInv, WholeBook, Keyed, Mirrors
<1>2. QED
  BY <1>1, KeysAreIds, NoMatchHasNoOrder DEF BInv, TypeOK, Answers

\* Every resting order has something left to trade, and the answer of a match
\* is an amount (TypeOK), for any number of orders.
THEOREM StoreIsWellTyped == Spec => []TypeOK
BY BookIsWhole, BTypes, PTL

\* A mirror of a side has what the Map has of it, once, and in order.
LEMMA MirrorAgrees ==
    ASSUME BInv, NEW side \in Sides, NEW array, Mirrors(object, orders, array, side)
    PROVE  /\ \A id : id \in Keys /\ object[id].side = side <=> \E i \in DOMAIN array : array[i] = id
           /\ NoRepeats(array) /\ InOrder(array)
<1>1. array \in Seq(OrderIds) /\ Elements(array) = Side(object, orders, side) /\ Lined(object, array)
  BY DEF Mirrors
<1>2. \A id : id \in Keys /\ object[id].side = side <=> \E i \in DOMAIN array : array[i] = id
  BY <1>1, KeysAreElements DEF Side, Elements
<1>3. Comparable(object, Elements(array), side)
  BY <1>1, SideIsComparable DEF BInv, WholeBook
<1>4. DOMAIN array \subseteq Nat
  BY <1>1
<1>5. ASSUME NEW i \in DOMAIN array, NEW j \in DOMAIN array, i < j
      PROVE  array[i] # array[j] /\ ~SortsBefore(object, array[j], array[i])
  <2>1. array[i] \in Elements(array) /\ array[j] \in Elements(array) /\ Prior(object, array[i], array[j])
    BY <1>1, <1>5 DEF Elements, Lined
  <2>2. ~Prior(object, array[j], array[i])
    BY <1>3, <2>1, PriorIsLinear
  <2>3. array[i] # array[j]
    BY <2>1, <2>2
  <2>4. ~SortsBefore(object, array[j], array[i])
    BY <2>2, Zenon DEF Prior
  <2>5. QED
    BY <2>3, <2>4
<1>6. NoRepeats(array)
  BY <1>4, <1>5 DEF NoRepeats
<1>7. QED
  BY <1>2, <1>5, <1>6 DEF InOrder

LEMMA BAgrees == BInv => MapAndArraysAgree
<1> SUFFICES ASSUME BInv PROVE MapAndArraysAgree
  OBVIOUS
<1>1. /\ \A id : id \in Keys /\ object[id].side = "buy" <=> \E i \in DOMAIN bids : bids[i] = id
      /\ NoRepeats(bids) /\ InOrder(bids)
  BY MirrorAgrees DEF BInv, WholeBook, Sides
<1>2. /\ \A id : id \in Keys /\ object[id].side = "sell" <=> \E i \in DOMAIN asks : asks[i] = id
      /\ NoRepeats(asks) /\ InOrder(asks)
  BY MirrorAgrees DEF BInv, WholeBook, Sides
<1>3. NoRepeats(orders)
  <2>1. orders \in Seq(OrderIds) /\ Rising(orders)
    BY DEF BInv, WholeBook, Keyed
  <2>2. SUFFICES ASSUME NEW i \in DOMAIN orders, NEW j \in DOMAIN orders, orders[i] = orders[j], i # j
                 PROVE  FALSE
    BY DEF NoRepeats
  <2>3. i \in Nat /\ j \in Nat /\ orders[i] \in Nat
    <3>1. orders[i] \in OrderIds /\ i \in Nat /\ j \in Nat
      BY <2>1
    <3>2. QED
      BY <3>1, IdsAssumption
  <2>4. i < j \/ j < i
    BY <2>2, <2>3
  <2>5. QED
    BY <2>1, <2>2, <2>3, <2>4 DEF Rising
<1>4. QED
  BY <1>1, <1>2, <1>3 DEF MapAndArraysAgree

\* The Map and the two arrays hold the same orders, each once, on its side and
\* in price-time order (MapAndArraysAgree), for any number of orders, prices
\* and times, whatever runs during the await of an atomicMatch.
THEOREM MapAndArraysStayOneBook == Spec => []MapAndArraysAgree
BY BookIsWhole, BAgrees, PTL

-----------------------------------------------------------------------------
(* The snapshot of getOrderBook, made from the Map, against the arrays.    *)

LEMMA RisingOnce ==
    ASSUME NEW s \in Seq(OrderIds), Rising(s)
    PROVE  NoRepeats(s)
<1> SUFFICES ASSUME NEW i \in DOMAIN s, NEW j \in DOMAIN s, s[i] = s[j], i # j PROVE FALSE
  BY DEF NoRepeats
<1>1. s[i] \in OrderIds /\ i \in Nat /\ j \in Nat
  OBVIOUS
<1>2. s[i] \in Nat
  BY <1>1, IdsAssumption
<1>3. i < j \/ j < i
  BY <1>1
<1>4. QED
  BY <1>2, <1>3 DEF Rising

\* The filter of getOrderBook has the Map's orders of its side, each once.
LEMMA OnSideIsSide ==
    ASSUME BInv, NEW side
    PROVE  /\ OnSide(side) \in Seq(OrderIds) /\ NoRepeats(OnSide(side))
           /\ Elements(OnSide(side)) = Side(object, orders, side)
<1> DEFINE D == {i \in DOMAIN orders : object[orders[i]].side = side}
<1>1. orders \in Seq(OrderIds) /\ Rising(orders)
  BY DEF BInv, WholeBook, Keyed
<1>2. OnSide(side) = Kept(orders, D)
  BY DEF OnSide
<1>3. {orders[i] : i \in D} = Side(object, orders, side)
  BY DEF Side, Elements
<1>4. D \in SUBSET DOMAIN orders
  OBVIOUS
<1> HIDE DEF D
<1>5. /\ Kept(orders, D) \in Seq(OrderIds) /\ Elements(Kept(orders, D)) = {orders[i] : i \in D}
      /\ \A i, j \in DOMAIN Kept(orders, D) : i < j =>
            \E k, l \in D : k < l /\ orders[k] = Kept(orders, D)[i] /\ orders[l] = Kept(orders, D)[j]
  BY <1>1, <1>4, KeptInOrder
<1>6. Rising(Kept(orders, D))
  BY <1>1, <1>4, <1>5 DEF Rising
<1>7. QED
  BY <1>2, <1>3, <1>5, <1>6, RisingOnce

\* Two arrays of the same orders add up to the same amounts.
LEMMA SameAmounts ==
    ASSUME NEW s \in Seq(OrderIds), NEW r \in Seq(OrderIds), NoRepeats(s), NoRepeats(r),
           Elements(s) = Elements(r), \A id \in Elements(s) : object[id] \in Order
    PROVE  /\ Total(Amounts(s)) = Total(Amounts(r))
           /\ \A p : Total(AmountsAt(s, p)) = Total(AmountsAt(r, p))
<1>1. Once(s) /\ Once(r)
  BY DEF NoRepeats, Once
<1>2. PICK b : Renames(b, s, r)
  BY <1>1, SameElementsLineUp
<1>3. IsFiniteSet(DOMAIN s) /\ IsFiniteSet(DOMAIN r)
  BY PositionsAreFinite
<1>4. /\ \A i \in DOMAIN s : object[s[i]].quantity \in Nat
      /\ \A k \in DOMAIN r : object[r[k]].quantity \in Nat
  BY DEF Elements, Order
<1>5. Total(Amounts(s)) = Total(Amounts(r))
  <2>1. Amounts(s) \in [DOMAIN s -> Nat] /\ Amounts(r) \in [DOMAIN r -> Nat]
    BY <1>4 DEF Amounts
  <2>2. PICK f \in [DOMAIN s -> Nat], g \in [DOMAIN r -> Nat] : f = Amounts(s) /\ g = Amounts(r)
    BY <2>1
  <2>2a. Counts(f) /\ Counts(g)
    BY <1>3, <2>2 DEF Counts
  <2>3. Renames(b, f, g)
    BY <1>2, <2>2 DEF Amounts, Renames
  <2>4. Total(f) = Total(g)
    BY <2>2a, <2>3, TotalRenamed
  <2>5. QED
    BY <2>2, <2>4
<1>6. ASSUME NEW p PROVE Total(AmountsAt(s, p)) = Total(AmountsAt(r, p))
  <2>1. AmountsAt(s, p) \in [DOMAIN s -> Nat] /\ AmountsAt(r, p) \in [DOMAIN r -> Nat]
    BY <1>4 DEF AmountsAt
  <2>2. PICK f \in [DOMAIN s -> Nat], g \in [DOMAIN r -> Nat] : f = AmountsAt(s, p) /\ g = AmountsAt(r, p)
    BY <2>1
  <2>2a. Counts(f) /\ Counts(g)
    BY <1>3, <2>2 DEF Counts
  <2>3. Renames(b, f, g)
    BY <1>2, <2>2 DEF AmountsAt, Renames
  <2>4. Total(f) = Total(g)
    BY <2>2a, <2>3, TotalRenamed
  <2>5. QED
    BY <2>2, <2>4
<1>7. QED
  BY <1>5, <1>6

\* The levels of a side: every price of its orders once, dearest first.
LEMMA LevelsOfSide ==
    ASSUME BInv, NEW side
    PROVE  \E n \in Nat :
              /\ DOMAIN Levels(side) = 1..n /\ Len(Levels(side)) = n
              /\ \A k \in 1..n : /\ Levels(side)[k].price \in Nat
                                 /\ Levels(side)[k].quantity = Total(AmountsAt(OnSide(side), Levels(side)[k].price))
                                 /\ \E i \in DOMAIN OnSide(side) : Levels(side)[k].price = object[OnSide(side)[i]].price
              /\ \A k, l \in 1..n : k < l => Levels(side)[k].price > Levels(side)[l].price
              /\ \A i \in DOMAIN OnSide(side) :
                    \E k \in 1..n : Levels(side)[k].price = object[OnSide(side)[i]].price
<1>1. PICK array \in Seq(OrderIds) : array = OnSide(side) /\ \A id \in Elements(array) : object[id].price \in Nat
  <2>1. Elements(OnSide(side)) \subseteq Elements(orders)
    BY OnSideIsSide DEF Side
  <2>2. \A id \in Elements(orders) : object[id].price \in Nat
    BY AmountsAssumption DEF BInv, WholeBook, Keyed, Order
  <2>3. QED
    BY <2>1, <2>2, OnSideIsSide
<1> DEFINE P == {object[array[i]].price : i \in DOMAIN array}
           R == Dearer(P)
           price == [i \in DOMAIN array |-> object[array[i]].price]
<1>2. P \subseteq Nat
  BY <1>1 DEF Elements
<1>3. IsFiniteSet(P)
  <2>1. price \in Surjection(DOMAIN array, P)
    BY DEF Surjection
  <2>2. IsFiniteSet(DOMAIN array)
    BY PositionsAreFinite
  <2>3. QED
    BY <2>1, <2>2, FS_Surjection
<1>4. \A p, q \in P : <<p, q>> \in R <=> p >= q
  BY DEF Dearer
<1>5. \A p \in P : \E i \in DOMAIN array : p = object[array[i]].price
  OBVIOUS
<1>6. \A i \in DOMAIN array : object[array[i]].price \in P
  OBVIOUS
<1>7. Levels(side) = [k \in 1..Cardinality(P) |->
                        [price |-> Position(k, P, R), quantity |-> Counted(array, Position(k, P, R))]]
  BY <1>1 DEF Levels
<1> HIDE DEF P, R, price
<1>8. Linear(R, P)
  BY <1>2, <1>4 DEF Linear
<1>9. /\ Cardinality(P) \in Nat
      /\ \A k \in 1..Cardinality(P) : Position(k, P, R) \in P
      /\ \A p \in P : \E k \in 1..Cardinality(P) : Position(k, P, R) = p
      /\ \A k, l \in 1..Cardinality(P) :
            k < l => <<Position(k, P, R), Position(l, P, R)>> \in R /\ Position(k, P, R) # Position(l, P, R)
  BY <1>3, <1>8, PositionsAreOrdered
<1>10. PICK n \in Nat : n = Cardinality(P)
  BY <1>9
<1>11. \A k \in 1..n : /\ Levels(side)[k].price = Position(k, P, R)
                       /\ Levels(side)[k].quantity = Total(AmountsAt(array, Position(k, P, R)))
  BY <1>7, <1>10 DEF Counted
<1>12. DOMAIN Levels(side) = 1..n /\ Len(Levels(side)) = n
  BY <1>7, <1>10
<1>13. \A k, l \in 1..n : k < l => Levels(side)[k].price > Levels(side)[l].price
  <2> SUFFICES ASSUME NEW k \in 1..n, NEW l \in 1..n, k < l PROVE Levels(side)[k].price > Levels(side)[l].price
    OBVIOUS
  <2>1. PICK p \in P, q \in P : p = Position(k, P, R) /\ q = Position(l, P, R)
    BY <1>9, <1>10
  <2>2. p >= q /\ p # q
    BY <1>4, <1>9, <1>10, <2>1
  <2>3. p > q
    BY <1>2, <2>2
  <2>4. QED
    BY <1>11, <2>1, <2>3
<1>14. \A k \in 1..n : Levels(side)[k].price \in P
  BY <1>9, <1>10, <1>11
<1>15. \A i \in DOMAIN array : \E k \in 1..n : Levels(side)[k].price = object[array[i]].price
  BY <1>6, <1>9, <1>10, <1>11
<1>16. \A k \in 1..n : Levels(side)[k].quantity = Total(AmountsAt(array, Levels(side)[k].price))
  BY <1>11
<1>17. \A k \in 1..n : \E i \in DOMAIN array : Levels(side)[k].price = object[array[i]].price
  BY <1>5, <1>14
<1>18. \A k \in 1..n : Levels(side)[k].price \in Nat
  BY <1>2, <1>14
<1>19. QED
  BY <1>1, <1>12, <1>13, <1>15, <1>16, <1>17, <1>18

\* The levels of a side add up to what rests on it.
LEMMA LevelsAddUp ==
    ASSUME BInv, NEW side
    PROVE  TotalQuantity(Levels(side)) = Total(Amounts(OnSide(side)))
<1>1. PICK array \in Seq(OrderIds) : array = OnSide(side) /\ \A id \in Elements(array) : object[id] \in Order
  BY OnSideIsSide DEF Side, BInv, WholeBook, Keyed
<1>2. PICK levels : levels = Levels(side)
  OBVIOUS
<1>3. PICK n \in Nat :
        /\ DOMAIN levels = 1..n
        /\ \A k \in 1..n : levels[k].price \in Nat /\ levels[k].quantity = Total(AmountsAt(array, levels[k].price))
        /\ \A k, l \in 1..n : k < l => levels[k].price > levels[l].price
        /\ \A i \in DOMAIN array : \E k \in 1..n : levels[k].price = object[array[i]].price
  BY <1>1, <1>2, LevelsOfSide
<1> DEFINE K == 1..n
           part == [i \in DOMAIN array |-> CHOOSE k \in K : levels[k].price = object[array[i]].price]
           t == [k \in K |-> levels[k].quantity]
<1>4. ASSUME NEW i \in DOMAIN array PROVE part[i] \in K /\ levels[part[i]].price = object[array[i]].price
  BY <1>3
<1>5. part \in [DOMAIN array -> K]
  BY <1>4
<1> HIDE DEF part
<1>6. ASSUME NEW i \in DOMAIN array, NEW k \in K PROVE part[i] = k <=> object[array[i]].price = levels[k].price
  <2>1. PICK l \in K : l = part[i] /\ levels[l].price = object[array[i]].price
    BY <1>4
  <2>2. l # k => levels[l].price # levels[k].price
    <3>1. l # k => l < k \/ k < l
      OBVIOUS
    <3>2. levels[l].price \in Nat /\ levels[k].price \in Nat
      BY <1>3
    <3>3. QED
      BY <1>3, <3>1, <3>2
  <2>3. QED
    BY <2>1, <2>2
<1>7. \A i \in DOMAIN array : object[array[i]].quantity \in Nat
  BY <1>1 DEF Elements, Order
<1>8. IsFiniteSet(DOMAIN array) /\ IsFiniteSet(K)
  BY PositionsAreFinite, FS_Interval
<1>9. Amounts(array) \in [DOMAIN array -> Nat]
  BY <1>7 DEF Amounts
<1> DEFINE share == [k \in K |-> AmountsAt(array, levels[k].price)]
<1>10. ASSUME NEW k \in K
       PROVE  /\ share[k] \in [DOMAIN array -> Nat]
              /\ \A i \in DOMAIN array : share[k][i] = IF part[i] = k THEN Amounts(array)[i] ELSE 0
              /\ t[k] = Total(share[k]) /\ t[k] \in Nat
  <2>1. \A i \in DOMAIN array : AmountsAt(array, levels[k].price)[i] = IF part[i] = k THEN Amounts(array)[i] ELSE 0
    BY <1>6 DEF AmountsAt, Amounts
  <2>2. AmountsAt(array, levels[k].price) \in [DOMAIN array -> Nat]
    BY <1>7 DEF AmountsAt
  <2>3. Total(AmountsAt(array, levels[k].price)) \in Nat
    BY <1>8, <2>2, TotalIsNat
  <2>4. t[k] = Total(AmountsAt(array, levels[k].price))
    BY <1>3
  <2>5. share[k] = AmountsAt(array, levels[k].price)
    OBVIOUS
  <2> HIDE DEF share
  <2>6. QED
    BY <2>1, <2>2, <2>3, <2>4, <2>5
<1>11. share \in [K -> [DOMAIN array -> Nat]]
  <2>1. \A k \in K : AmountsAt(array, levels[k].price) \in [DOMAIN array -> Nat]
    BY <1>7 DEF AmountsAt
  <2>2. QED
    BY <2>1
<1>12. t \in [K -> Nat]
  BY <1>10
<1>13. TotalQuantity(levels) = Total(t)
  BY <1>3 DEF TotalQuantity
<1> HIDE DEF t, K, share
<1>14. /\ \A k \in K, i \in DOMAIN array : share[k][i] = IF part[i] = k THEN Amounts(array)[i] ELSE 0
       /\ \A k \in K : t[k] = Total(share[k])
  BY <1>10
<1>15. Total(t) = Total(Amounts(array))
  <2>1. PICK f, D : f = Amounts(array) /\ D = DOMAIN array /\ f \in [D -> Nat]
    BY <1>9
  <2>2. Counts(f)
    BY <1>8, <2>1 DEF Counts
  <2>3. Counts(t)
    BY <1>8, <1>12 DEF Counts
  <2>4. /\ part \in [D -> K] /\ share \in [K -> [D -> Nat]]
        /\ \A k \in K, i \in D : share[k][i] = IF part[i] = k THEN f[i] ELSE 0
    BY <1>5, <1>11, <1>14, <2>1
  <2>5. SharesOut(share, part, t, f)
    <3>1. DOMAIN f = D /\ DOMAIN t = K
      BY <1>12, <2>1
    <3>2. QED
      BY <1>14, <2>4, <3>1 DEF SharesOut
  <2>6. Total(t) = Total(f)
    BY <2>2, <2>3, <2>5, TotalByParts
  <2>7. QED
    BY <2>1, <2>6
<1>16. QED
  BY <1>1, <1>2, <1>13, <1>15

\* The first of an array is at the best of its side's prices.
LEMMA FirstIsBestPriced ==
    ASSUME BInv, NEW side \in Sides, NEW array, Mirrors(object, orders, array, side), array # <<>>
    PROVE  /\ 1 \in DOMAIN array
           /\ \A i \in DOMAIN array :
                 /\ object[array[i]].price \in Nat
                 /\ side = "buy"  => object[array[i]].price <= object[array[1]].price
                 /\ side = "sell" => object[array[i]].price >= object[array[1]].price
<1>1. array \in Seq(OrderIds) /\ InOrder(array)
  BY MirrorAgrees DEF Mirrors
<1>2. Comparable(object, Elements(array), side)
  BY SideIsComparable DEF Mirrors, BInv, WholeBook
<1>3. 1 \in DOMAIN array /\ DOMAIN array \subseteq Nat \ {0}
  BY <1>1
<1>4. \A i \in DOMAIN array : object[array[i]].price \in Nat /\ object[array[i]].side = side
  BY <1>2 DEF Comparable, Elements
<1>5. ASSUME NEW i \in DOMAIN array, i # 1 PROVE ~SortsBefore(object, array[i], array[1])
  <2>1. 1 < i
    BY <1>3, <1>5
  <2>2. QED
    BY <1>1, <1>3, <2>1 DEF InOrder
<1>6. QED
  BY <1>3, <1>4, <1>5 DEF SortsBefore, Precedes

LEMMA SnapshotOfSide ==
    ASSUME BInv, NEW side \in Sides, NEW array, Mirrors(object, orders, array, side)
    PROVE  LET levels == Levels(side)
               best   == IF side = "buy" THEN 1 ELSE Len(levels)
           IN  /\ \A i, j \in DOMAIN levels : i < j => levels[i].price > levels[j].price
               /\ \A i \in DOMAIN levels : levels[i].quantity = Total(AmountsAt(array, levels[i].price))
               /\ TotalQuantity(levels) = Total(Amounts(array))
               /\ array # <<>> => levels[best].price = object[array[1]].price
<1>1. PICK onside \in Seq(OrderIds) :
        onside = OnSide(side) /\ NoRepeats(onside) /\ Elements(onside) = Side(object, orders, side)
  BY OnSideIsSide
<1>2. array \in Seq(OrderIds) /\ NoRepeats(array) /\ Elements(array) = Elements(onside)
  BY <1>1, MirrorAgrees DEF Mirrors
<1>3. \A id \in Elements(onside) : object[id] \in Order
  BY <1>1 DEF Side, BInv, WholeBook, Keyed
<1>4. /\ Total(Amounts(onside)) = Total(Amounts(array))
      /\ \A p : Total(AmountsAt(onside, p)) = Total(AmountsAt(array, p))
  BY <1>1, <1>2, <1>3, SameAmounts
<1>5. PICK levels : levels = Levels(side)
  OBVIOUS
<1>6. PICK n \in Nat :
        /\ DOMAIN levels = 1..n /\ Len(levels) = n
        /\ \A k \in 1..n : /\ levels[k].price \in Nat
                           /\ levels[k].quantity = Total(AmountsAt(onside, levels[k].price))
                           /\ \E i \in DOMAIN onside : levels[k].price = object[onside[i]].price
        /\ \A k, l \in 1..n : k < l => levels[k].price > levels[l].price
        /\ \A i \in DOMAIN onside : \E k \in 1..n : levels[k].price = object[onside[i]].price
  BY <1>1, <1>5, LevelsOfSide
<1>7. TotalQuantity(levels) = Total(Amounts(array))
  BY <1>1, <1>4, <1>5, LevelsAddUp
<1>8. \A k \in 1..n : levels[k].quantity = Total(AmountsAt(array, levels[k].price))
  BY <1>4, <1>6
<1>9. ASSUME array # <<>>
      PROVE  levels[IF side = "buy" THEN 1 ELSE Len(levels)].price = object[array[1]].price
  <2>1. /\ 1 \in DOMAIN array
        /\ \A i \in DOMAIN array :
              /\ object[array[i]].price \in Nat
              /\ side = "buy"  => object[array[i]].price <= object[array[1]].price
              /\ side = "sell" => object[array[i]].price >= object[array[1]].price
    BY <1>9, FirstIsBestPriced
  <2>2. ASSUME NEW k \in 1..n PROVE \E i \in DOMAIN array : levels[k].price = object[array[i]].price
    <3>1. PICK i \in DOMAIN onside : levels[k].price = object[onside[i]].price
      BY <1>6
    <3>2. onside[i] \in Elements(array)
      BY <1>2 DEF Elements
    <3>3. QED
      BY <3>1, <3>2 DEF Elements
  <2>3. PICK p \in Nat : p = object[array[1]].price
    BY <2>1
  <2>4. PICK k \in 1..n : levels[k].price = p
    <3>1. array[1] \in Elements(onside)
      BY <1>2, <2>1 DEF Elements
    <3>2. PICK i \in DOMAIN onside : onside[i] = array[1]
      BY <3>1 DEF Elements
    <3>3. PICK k \in 1..n : levels[k].price = object[onside[i]].price
      BY <1>6
    <3>4. QED
      BY <2>3, <3>2, <3>3
  <2>5. /\ side = "buy"  => \A l \in 1..n : levels[l].price <= p
        /\ side = "sell" => \A l \in 1..n : levels[l].price >= p
    BY <2>1, <2>2, <2>3
  <2>6. 1 \in 1..n /\ n \in 1..n /\ levels[1].price \in Nat /\ levels[n].price \in Nat
    BY <1>6, <2>4
  <2>7. CASE side = "buy"
    <3>1. ASSUME 1 < k PROVE FALSE
      <4>1. levels[1].price > levels[k].price
        BY <1>6, <2>6, <3>1
      <4>2. levels[1].price <= p
        BY <2>5, <2>6, <2>7
      <4>3. QED
        BY <2>4, <2>6, <4>1, <4>2
    <3>2. k = 1
      BY <3>1
    <3>3. QED
      BY <2>3, <2>4, <2>7, <3>2
  <2>8. CASE side = "sell"
    <3>1. ASSUME k < n PROVE FALSE
      <4>1. levels[k].price > levels[n].price
        BY <1>6, <2>6, <3>1
      <4>2. levels[n].price >= p
        BY <2>5, <2>6, <2>8
      <4>3. QED
        BY <2>4, <2>6, <4>1, <4>2
    <3>2. k = n
      BY <3>1
    <3>3. QED
      BY <1>6, <2>3, <2>4, <2>8, <3>2
  <2>9. QED
    BY <2>7, <2>8 DEF Sides
<1>10. QED
  BY <1>5, <1>6, <1>7, <1>8, <1>9

\* The snapshot shows the book that is traded against (SnapshotShowsTheBook),
\* for any number of orders, prices and times, in every state between calls.
THEOREM SnapshotIsTheBook == Spec => []SnapshotShowsTheBook
<1>1. BInv => SnapshotShowsTheBook
  <2> SUFFICES ASSUME BInv PROVE SnapshotShowsTheBook
    OBVIOUS
  <2>1. Mirrors(object, orders, bids, "buy") /\ Mirrors(object, orders, asks, "sell")
    BY DEF BInv, WholeBook
  <2>2. QED
    BY <2>1, SnapshotOfSide DEF SnapshotShowsTheBook, Sides
<1>2. QED
  BY <1>1, BookIsWhole, PTL

-----------------------------------------------------------------------------
(* The refinement: the Map, in its order, is the abstract book.            *)

Arrivals == [i \in DOMAIN orders |-> object[orders[i]]]

LEMMA ArrivalsAreOrders ==
    ASSUME BInv
    PROVE  /\ orders \in Seq(OrderIds) /\ Len(orders) \in Nat /\ DOMAIN orders = 1..Len(orders)
           /\ Arrivals \in Seq(Order) /\ DOMAIN Arrivals = DOMAIN orders /\ Len(Arrivals) = Len(orders)
           /\ \A i \in DOMAIN orders : Arrivals[i] = object[orders[i]] /\ Arrivals[i].id = orders[i]
<1>1. orders \in Seq(OrderIds) /\ \A id \in Elements(orders) : object[id] \in Order /\ object[id].id = id
  BY DEF BInv, WholeBook, Keyed
<1>2. \A i \in DOMAIN orders : orders[i] \in Elements(orders)
  BY DEF Elements
<1>3. Len(orders) \in Nat /\ DOMAIN orders = 1..Len(orders)
  BY <1>1
<1>4. Arrivals \in [1..Len(orders) -> Order]
  BY <1>1, <1>2, <1>3 DEF Arrivals
<1>5. Arrivals \in Seq(Order) /\ Len(Arrivals) = Len(orders)
  BY <1>3, <1>4
<1>6. QED
  BY <1>1, <1>2, <1>3, <1>4, <1>5 DEF Arrivals

LEMMA BookInitIs == ASSUME Init PROVE Book!BookInit
<1>1. orders = <<>> /\ answer = NoAnswer
  BY DEF Init
<1>2. Arrivals = <<>>
  BY <1>1 DEF Arrivals
<1>3. QED
  BY <1>1, <1>2 DEF Book!BookInit, Book!NoAnswer, NoAnswer, NoOrder, Arrivals

LEMMA SequencesAreFunctions ==
    ASSUME NEW S, NEW s \in Seq(S) PROVE s \in [1..Len(s) -> S] /\ DOMAIN s = 1..Len(s)
OBVIOUS

LEMMA FunctionsAreEqual ==
    ASSUME NEW S, NEW T, NEW f \in [S -> T], NEW g \in [S -> T], \A i \in S : f[i] = g[i]
    PROVE  f = g
OBVIOUS

LEMMA RPlace == ASSUME BInv, NEW r \in Resting, Place(r) PROVE Book!Place(r) /\ r \in Book!Resting
<1>1. BInv' /\ r.id \in OrderIds
  BY BPlace DEF Resting
<1>2. orders' = Append(orders, r.id) /\ object' = [object EXCEPT ![r.id] = r] /\ answer' = NoAnswer
  BY DEF Place
<1>3. \A i \in DOMAIN orders : orders[i] \in OrderIds /\ orders[i] # r.id
  <2> SUFFICES ASSUME NEW i \in DOMAIN orders PROVE orders[i] \in OrderIds /\ orders[i] # r.id
    OBVIOUS
  <2>1. orders[i] \in Keys /\ orders[i] \in Nat
    BY KeysAreIds, IdsAssumption DEF Keys
  <2>2. orders[i] <= placed /\ placed \in Nat /\ r.id = placed + 1
    BY <2>1 DEF BInv, Place
  <2>3. QED
    BY <2>1, <2>2, KeysAreIds
<1>4. \A i \in DOMAIN Arrivals : Arrivals[i].id # r.id
  BY <1>3, ArrivalsAreOrders
<1>5. Arrivals' = Append(Arrivals, r)
  <2>1. r \in Order
    BY AmountsAssumption DEF Resting, Order
  <2>2. PICK n \in Nat : n = Len(orders) /\ DOMAIN orders = 1..n
    BY ArrivalsAreOrders
  <2>3. PICK a \in Seq(Order) : a = Arrivals /\ DOMAIN a = 1..n /\ Len(a) = n
    BY <2>2, ArrivalsAreOrders
  <2>4. PICK G : G = Append(a, r) /\ G \in Seq(Order) /\ DOMAIN G = 1..(n + 1)
                /\ (\A i \in 1..n : G[i] = a[i]) /\ G[n + 1] = r
    <3>1. /\ Append(a, r) \in Seq(Order) /\ DOMAIN Append(a, r) = 1..(n + 1)
          /\ \A i \in 1..n : Append(a, r)[i] = a[i]
          /\ Append(a, r)[n + 1] = r
      BY <2>1, <2>3, AppendedElements
    <3>2. QED
      BY <3>1
  <2>5. /\ orders' = Append(orders, r.id) /\ DOMAIN orders' = 1..(n + 1)
        /\ \A i \in 1..n : orders'[i] = orders[i]
        /\ orders'[n + 1] = r.id
    BY <1>1, <1>2, <2>2, ArrivalsAreOrders, AppendedElements
  <2>6. Arrivals' = [i \in 1..(n + 1) |-> object'[orders'[i]]]
    BY <2>5 DEF Arrivals
  <2>7. \A i \in 1..n : object'[orders'[i]] = a[i]
    BY <1>1, <1>2, <1>3, <2>2, <2>3, <2>5, ArrivalsAreOrders DEF BInv
  <2>8. object'[orders'[n + 1]] = r
    BY <1>1, <1>2, <2>5 DEF BInv
  <2>9. \A i \in 1..(n + 1) : object'[orders'[i]] = G[i]
    BY <2>4, <2>7, <2>8
  <2>10. Arrivals' = G
    <3>1. G \in [1..(n + 1) -> Order]
      <4>1. G \in [1..Len(G) -> Order] /\ DOMAIN G = 1..Len(G)
        BY <2>4, SequencesAreFunctions
      <4>2. QED
        BY <2>4, <4>1
    <3>2. PICK F : F = Arrivals' /\ F \in [1..(n + 1) -> Order] /\ \A i \in 1..(n + 1) : F[i] = G[i]
      BY <2>4, <2>6, <2>9
    <3>3. QED
      BY <3>1, <3>2, FunctionsAreEqual
  <2>11. QED
    BY <2>3, <2>4, <2>10
<1>6. r \in Book!Resting
  BY DEF Resting, Book!Resting, Sides, Book!Sides
<1>7. QED
  BY <1>2, <1>4, <1>5, <1>6 DEF Book!Place, Book!Ids, Book!NoAnswer, NoAnswer, NoOrder, Arrivals

\* Filtering the ids is filtering the orders.
LEMMA RemovedIsWithout ==
    ASSUME BInv, NEW id, orders' = Filtered(orders, id), OnlyWrites(object, object', id)
    PROVE  Arrivals' = Book!Without(id)
<1> DEFINE D == {i \in DOMAIN orders : orders[i] # id}
           R == AsTheyAre(D)
<1>1. /\ orders \in Seq(OrderIds) /\ DOMAIN Arrivals = DOMAIN orders
      /\ \A i \in DOMAIN orders : Arrivals[i] = object[orders[i]] /\ Arrivals[i].id = orders[i]
  BY ArrivalsAreOrders
<1>2. D \in SUBSET DOMAIN orders /\ IsFiniteSet(D) /\ D \subseteq Nat
  BY <1>1, PositionsAreFinite
<1>3. \A k \in 1..Cardinality(D) : Position(k, D, R) \in D
  BY <1>2, AsTheyAreIsLinear, PositionsAreOrdered
<1>4. orders' = [k \in 1..Cardinality(D) |-> orders[Position(k, D, R)]]
  BY DEF Filtered, Kept, Arranged
<1>5. {i \in DOMAIN Arrivals : Arrivals[i].id # id} = D
  BY <1>1
<1>6. Book!Without(id) = [k \in 1..Cardinality(D) |-> Arrivals[Position(k, D, R)]]
  <2>1. Book!Without(id) = Book!Kept(Arrivals, {i \in DOMAIN Arrivals : Arrivals[i].id # id})
    BY DEF Book!Without, Arrivals
  <2>2. Book!Without(id) = Book!Kept(Arrivals, D)
    BY <1>5, <2>1
  <2> HIDE DEF D
  <2>3. QED
    BY <2>2 DEF Book!Kept, Book!Arranged, Book!AsTheyAre, Book!Position, Book!Rank, Book!Cardinality,
                 AsTheyAre, Position, Rank, Cardinality
<1> HIDE DEF R
<1>7. \A i \in D : orders[i] \in OrderIds \ {id}
  BY <1>1
<1>8. \A k \in 1..Cardinality(D) : object'[orders'[k]] = Arrivals[Position(k, D, R)]
  BY <1>1, <1>2, <1>3, <1>4, <1>7 DEF OnlyWrites
<1>9. Arrivals' = [k \in 1..Cardinality(D) |-> object'[orders'[k]]]
  BY <1>4 DEF Arrivals
<1>10. QED
  BY <1>6, <1>8, <1>9, Zenon

LEMMA RCancel == ASSUME BInv, NEW id \in OrderIds, Cancel(id) PROVE Book!Cancel(id)
<1>1. OnlyWrites(object, object', id) /\ orders' = Filtered(orders, id) /\ id \in Keys /\ answer' = NoAnswer
  BY CollectedIsTyped DEF Cancel, Removed
<1>2. Arrivals' = Book!Without(id)
  BY <1>1, RemovedIsWithout
<1>3. \E i \in DOMAIN Arrivals : Arrivals[i].id = id
  BY <1>1, ArrivalsAreOrders DEF Keys
<1>4. QED
  BY <1>1, <1>2, <1>3 DEF Book!Cancel, Book!Ids, Book!NoAnswer, NoAnswer, NoOrder, Arrivals

\* The object that is written is the one arrival of that id.
LEMMA ReducedArrivals ==
    ASSUME BInv, NEW id \in Keys, NEW q, Reduces(object, object', id, q), UNCHANGED orders
    PROVE  /\ Arrivals' = [i \in DOMAIN Arrivals |->
                              IF Arrivals[i].id = id THEN [Arrivals[i] EXCEPT !.quantity = q] ELSE Arrivals[i]]
           /\ \A i \in DOMAIN orders : orders[i] = id =>
                  Arrivals' = [Arrivals EXCEPT ![i].quantity = q]
<1>1. /\ orders \in Seq(OrderIds) /\ DOMAIN Arrivals = DOMAIN orders
      /\ \A i \in DOMAIN orders : Arrivals[i] = object[orders[i]] /\ Arrivals[i].id = orders[i]
  BY ArrivalsAreOrders
<1>2. Arrivals' = [i \in DOMAIN orders |-> object'[orders[i]]]
  BY DEF Arrivals
<1>3. \A i \in DOMAIN orders :
         object'[orders[i]] = IF Arrivals[i].id = id THEN [Arrivals[i] EXCEPT !.quantity = q] ELSE Arrivals[i]
  <2> SUFFICES ASSUME NEW i \in DOMAIN orders
               PROVE  object'[orders[i]] = IF Arrivals[i].id = id THEN [Arrivals[i] EXCEPT !.quantity = q]
                                                                  ELSE Arrivals[i]
    OBVIOUS
  <2>1. orders[i] \in OrderIds
    BY <1>1
  <2>2. CASE orders[i] = id
    BY <1>1, <2>2 DEF Reduces
  <2>3. CASE orders[i] # id
    BY <1>1, <2>1, <2>3 DEF Reduces, OnlyWrites
  <2>4. QED
    BY <2>2, <2>3
<1>4. Arrivals' = [i \in DOMAIN Arrivals |->
                     IF Arrivals[i].id = id THEN [Arrivals[i] EXCEPT !.quantity = q] ELSE Arrivals[i]]
  BY <1>1, <1>2, <1>3
<1>5. ASSUME NEW i \in DOMAIN orders, orders[i] = id
      PROVE  Arrivals' = [Arrivals EXCEPT ![i].quantity = q]
  <2>1. \A j \in DOMAIN orders : Arrivals[j].id = id <=> j = i
    BY <1>1, <1>5, BAgrees DEF MapAndArraysAgree, NoRepeats
  <2>2. [Arrivals EXCEPT ![i].quantity = q]
          = [j \in DOMAIN Arrivals |-> IF j = i THEN [Arrivals[i] EXCEPT !.quantity = q] ELSE Arrivals[j]]
    BY <1>1 DEF Arrivals
  <2>3. QED
    BY <1>1, <1>4, <2>1, <2>2
<1>6. QED
  BY <1>4, <1>5

LEMMA RUpdate ==
    ASSUME BInv, NEW id \in Amended, NEW q \in Quantities \cup {0}, Update(id, q) PROVE Book!Update(id, q)
<1>1. id \in OrderIds /\ id \in Keys /\ q \in Nat /\ answer' = NoAnswer
  BY AmendedAssumption, AmountsAssumption DEF Update
<1>2. \E i \in DOMAIN Arrivals : Arrivals[i].id = id
  BY <1>1, ArrivalsAreOrders DEF Keys
<1>3. CASE q = 0
  <2>1. Removed(id) /\ Collected(id, match.best)
    BY <1>3 DEF Update
  <2>2. Arrivals' = Book!Without(id)
    BY <1>1, <2>1, CollectedIsTyped, RemovedIsWithout DEF Removed
  <2>3. QED
    BY <1>1, <1>2, <1>3, <2>2 DEF Book!Update, Book!Ids, Book!NoAnswer, NoAnswer, NoOrder, Arrivals
<1>4. CASE q # 0
  <2>1. /\ object' = [object EXCEPT ![id].quantity = q] /\ UNCHANGED orders
        /\ bids' = Sorted(object', bids) /\ asks' = Sorted(object', asks)
    BY <1>1, <1>4 DEF Update
  <2>2. Reduces(object, object', id, q)
    BY <1>1, <1>4, <2>1, BookIsReduced
  <2>3. Arrivals' = [i \in DOMAIN Arrivals |->
                       IF Arrivals[i].id = id THEN [Arrivals[i] EXCEPT !.quantity = q] ELSE Arrivals[i]]
    BY <1>1, <2>1, <2>2, ReducedArrivals
  <2>4. QED
    BY <1>1, <1>2, <1>4, <2>3 DEF Book!Update, Book!Ids, Book!NoAnswer, NoAnswer, NoOrder, Arrivals
<1>5. QED
  BY <1>3, <1>4

-----------------------------------------------------------------------------
(* The head of an array is what the abstract book puts first.              *)

LEMMA AheadIsPrior ==
    ASSUME BInv, NEW i \in DOMAIN orders, NEW j \in DOMAIN orders, i # j
    PROVE  Book!Ahead(i, j) <=> Prior(object, orders[i], orders[j])
<1>1. orders \in Seq(OrderIds) /\ Rising(orders)
  BY DEF BInv, WholeBook, Keyed
<1>2. i \in Nat /\ j \in Nat /\ orders[i] \in OrderIds /\ orders[j] \in OrderIds
  BY <1>1
<1>3. i < j <=> orders[i] < orders[j]
  <2>1. orders[i] \in Nat /\ orders[j] \in Nat
    BY <1>2, IdsAssumption
  <2>2. i < j \/ j < i
    BY <1>2
  <2>3. /\ i < j => orders[i] < orders[j]
        /\ j < i => orders[j] < orders[i]
    BY <1>1 DEF Rising
  <2>4. QED
    BY <1>2, <2>1, <2>2, <2>3
<1>4. /\ Book!Precedes(Arrivals[i], Arrivals[j]) <=> SortsBefore(object, orders[i], orders[j])
      /\ Book!Precedes(Arrivals[j], Arrivals[i]) <=> SortsBefore(object, orders[j], orders[i])
  <2>1. Arrivals[i] = object[orders[i]] /\ Arrivals[j] = object[orders[j]]
    BY ArrivalsAreOrders
  <2>2. QED
    BY <2>1 DEF Book!Precedes, Precedes, SortsBefore
<1>5. Book!Ahead(i, j) <=> \/ Book!Precedes(Arrivals[i], Arrivals[j])
                           \/ ~Book!Precedes(Arrivals[j], Arrivals[i]) /\ i < j
  BY DEF Book!Ahead, Arrivals
<1>6. QED
  BY <1>3, <1>4, <1>5, Zenon DEF Prior

LEMMA HeadIsFirst ==
    ASSUME BInv, NEW side \in Sides, NEW array, Mirrors(object, orders, array, side), NEW i \in DOMAIN orders
    PROVE  i \in Book!First(side) <=> array # <<>> /\ orders[i] = array[1]
<1>1. /\ orders \in Seq(OrderIds) /\ DOMAIN Arrivals = DOMAIN orders
      /\ \A j \in DOMAIN orders : Arrivals[j] = object[orders[j]] /\ Arrivals[j].id = orders[j]
  BY ArrivalsAreOrders
<1>2. array \in Seq(OrderIds) /\ Elements(array) = Side(object, orders, side) /\ Lined(object, array)
  BY DEF Mirrors
<1>3. /\ Len(array) \in Nat /\ DOMAIN array = 1..Len(array)
      /\ array # <<>> => 1 \in DOMAIN array
  BY <1>2
<1>4. /\ \A j \in DOMAIN orders : Arrivals[j].side = side <=> \E k \in DOMAIN array : array[k] = orders[j]
      /\ \A k \in DOMAIN array : \E j \in DOMAIN orders : array[k] = orders[j] /\ Arrivals[j].side = side
  <2>1. \A id : (\E k \in DOMAIN array : array[k] = id)
                  <=> (\E j \in DOMAIN orders : orders[j] = id /\ object[id].side = side)
    BY <1>2 DEF Elements, Side
  <2>2. \A j \in DOMAIN orders : Arrivals[j].side = object[orders[j]].side
    BY <1>1
  <2>3. \A j \in DOMAIN orders : Arrivals[j].side = side <=> \E k \in DOMAIN array : array[k] = orders[j]
    BY <2>1, <2>2
  <2>4. \A k \in DOMAIN array : \E j \in DOMAIN orders : array[k] = orders[j] /\ Arrivals[j].side = side
    BY <2>1, <2>2
  <2>5. QED
    BY <2>3, <2>4
<1>5. Comparable(object, Elements(array), side)
  BY <1>2, SideIsComparable DEF BInv, WholeBook
<1>6. \A j, k \in DOMAIN orders : orders[j] = orders[k] => j = k
  BY BAgrees DEF MapAndArraysAgree, NoRepeats
<1>7. i \in Book!First(side) <=> /\ Arrivals[i].side = side
                                 /\ \A j \in DOMAIN orders \ {i} : Arrivals[j].side = side => Book!Ahead(i, j)
  BY <1>1 DEF Book!First, Arrivals
<1>8. ASSUME i \in Book!First(side) PROVE array # <<>> /\ orders[i] = array[1]
  <2>1. PICK k \in DOMAIN array : array[k] = orders[i]
    BY <1>4, <1>7, <1>8
  <2>2. 1 \in DOMAIN array /\ array # <<>> /\ k \in Nat /\ 1 <= k
    BY <1>3, <2>1
  <2>3. ASSUME k # 1 PROVE FALSE
    <3>1. PICK j \in DOMAIN orders : array[1] = orders[j] /\ Arrivals[j].side = side
      BY <1>4, <2>2
    <3>2. Prior(object, array[1], array[k]) /\ array[1] \in Elements(array) /\ array[k] \in Elements(array)
      BY <1>2, <2>2, <2>3 DEF Lined, Elements
    <3>3. ~Prior(object, array[k], array[1])
      BY <1>5, <3>2, PriorIsLinear
    <3>4. j # i
      BY <2>1, <3>1, <3>2, <3>3
    <3>5. Prior(object, orders[i], orders[j])
      BY <1>7, <1>8, <3>1, <3>4, AheadIsPrior
    <3>6. QED
      BY <2>1, <3>1, <3>3, <3>5
  <2>4. QED
    BY <2>1, <2>2, <2>3
<1>9. ASSUME array # <<>>, orders[i] = array[1] PROVE i \in Book!First(side)
  <2>1. 1 \in DOMAIN array /\ Arrivals[i].side = side
    BY <1>3, <1>4, <1>9
  <2>2. ASSUME NEW j \in DOMAIN orders \ {i}, Arrivals[j].side = side PROVE Book!Ahead(i, j)
    <3>1. PICK k \in DOMAIN array : array[k] = orders[j]
      BY <1>4, <2>2
    <3>2. k # 1
      BY <1>6, <1>9, <2>2, <3>1
    <3>3. 1 < k
      BY <1>3, <3>1, <3>2
    <3>4. Prior(object, orders[i], orders[j])
      BY <1>2, <1>9, <2>1, <3>1, <3>3 DEF Lined
    <3>5. QED
      BY <2>2, <3>4, AheadIsPrior
  <2>3. QED
    BY <1>7, <2>1, <2>2
<1>10. QED
  BY <1>8, <1>9

LEMMA FirstIsBest ==
    ASSUME BInv, NEW side \in Sides
    PROVE  /\ \A i \in DOMAIN orders :
                 i \in Book!First(Book!Opposite(side)) <=> orders[i] = BestOpposite(side)
           /\ BestOpposite(side) \in Keys \cup {NoOrder}
           /\ Book!First(Book!Opposite(side)) \subseteq DOMAIN orders
<1>1. PICK array \in Seq(OrderIds), other \in Sides :
        /\ Mirrors(object, orders, array, other)
        /\ BestOpposite(side) = Head0(array)
        /\ Book!Opposite(side) = other
  <2>1. CASE side = "buy"
    <3>1. Mirrors(object, orders, asks, "sell") /\ BestOpposite(side) = Head0(asks)
          /\ Book!Opposite(side) = "sell" /\ "sell" \in Sides /\ asks \in Seq(OrderIds)
      BY <2>1 DEF BInv, WholeBook, Mirrors, BestOpposite, Book!Opposite, Sides
    <3>2. QED
      BY <3>1
  <2>2. CASE side = "sell"
    <3>1. Mirrors(object, orders, bids, "buy") /\ BestOpposite(side) = Head0(bids)
          /\ Book!Opposite(side) = "buy" /\ "buy" \in Sides /\ bids \in Seq(OrderIds)
      BY <2>2 DEF BInv, WholeBook, Mirrors, BestOpposite, Book!Opposite, Sides
    <3>2. QED
      BY <3>1
  <2>3. QED
    BY <2>1, <2>2 DEF Sides
<1>2. array \in Seq(OrderIds) /\ Elements(array) = Side(object, orders, other)
  BY <1>1 DEF Mirrors
<1>3. \A i \in DOMAIN orders : i \in Book!First(other) <=> array # <<>> /\ orders[i] = array[1]
  BY <1>1, HeadIsFirst
<1>4. \A i \in DOMAIN orders : orders[i] # NoOrder
  <2>1. \A i \in DOMAIN orders : orders[i] \in OrderIds
    BY ArrivalsAreOrders
  <2>2. QED
    BY <2>1, IdsAssumption DEF NoOrder
<1>5. /\ array = <<>> => Head0(array) = NoOrder
      /\ array # <<>> => Head0(array) = array[1] /\ array[1] \in Keys
  <2>1. array # <<>> => 1 \in DOMAIN array /\ Head0(array) = array[1]
    BY <1>2, HeadIsAnId
  <2>2. QED
    BY <1>2, <2>1, KeysAreElements DEF Head0, Elements, Side
<1>6. Book!First(other) \subseteq DOMAIN orders
  BY ArrivalsAreOrders DEF Book!First, Arrivals
<1>7. QED
  BY <1>1, <1>3, <1>4, <1>5, <1>6

\* A match whose head of the book is still its head finds the abstract book's.
LEMMA RMatchNothing ==
    ASSUME BInv, MatchNothing, match.best = BestOpposite(match.side)
    PROVE  \E s \in Book!Sides, p \in Prices, q \in Quantities : Book!Match(s, p, q)
<1>1. /\ match.side \in Sides /\ match.price \in Prices /\ match.quantity \in Quantities
      /\ UNCHANGED orders /\ answer' = NoAnswer /\ ~Takes(match)
  BY DEF MatchNothing, BInv, Calls
<1>2. UNCHANGED object
  BY <1>1, FirstIsBest DEF MatchNothing
<1>3. Arrivals' = Arrivals
  BY <1>1, <1>2 DEF Arrivals
<1> DEFINE taker == [side |-> match.side, price |-> match.price]
           Crossing == {i \in Book!First(Book!Opposite(match.side)) : Book!PricesCross(taker, Arrivals[i])}
<1>4. Crossing = {}
  <2> SUFFICES ASSUME NEW i \in Book!First(Book!Opposite(match.side)), Book!PricesCross(taker, Arrivals[i])
               PROVE  FALSE
    OBVIOUS
  <2>1. i \in DOMAIN orders /\ orders[i] = match.best
    BY <1>1, FirstIsBest
  <2>2. Arrivals[i] = object[match.best] /\ match.best \in Keys
    BY <2>1, ArrivalsAreOrders DEF Keys
  <2>3. match.best # NoOrder
    BY <2>2, KeysAreIds, IdsAssumption DEF NoOrder
  <2>4. PricesCross(match, object[match.best])
    BY <2>2 DEF PricesCross, Book!PricesCross
  <2>5. QED
    BY <1>1, <2>2, <2>3, <2>4 DEF Takes
<1>5. PICK s \in Book!Sides, p \in Prices, q \in Quantities :
         s = match.side /\ p = match.price /\ q = match.quantity
  BY <1>1 DEF Sides, Book!Sides
<1>6. Book!Match(s, p, q)
  BY <1>1, <1>3, <1>4, <1>5 DEF Book!Match, Book!NoAnswer, NoAnswer, NoOrder, Arrivals
<1>7. QED
  BY <1>6

LEMMA RMatchTake ==
    ASSUME BInv, MatchTake, match.best = BestOpposite(match.side)
    PROVE  \E s \in Book!Sides, p \in Prices, q \in Quantities : Book!Match(s, p, q)
<1>1. match # NoMatch /\ Takes(match)
  BY DEF MatchTake
<1>2. match.side \in Sides /\ match.price \in Prices /\ match.quantity \in Quantities
  BY <1>1 DEF BInv, Calls
<1>3. PICK id \in Keys : id = match.best /\ PricesCross(match, object[id])
  BY <1>1 DEF Takes
<1>4. PICK i \in DOMAIN orders : orders[i] = id
  BY DEF Keys
<1>5. i \in Book!First(Book!Opposite(match.side))
  BY <1>2, <1>3, <1>4, FirstIsBest
<1>6. Arrivals[i] = object[id] /\ Arrivals[i].id = id /\ i \in DOMAIN Arrivals
  BY <1>4, ArrivalsAreOrders
<1> DEFINE taker == [side |-> match.side, price |-> match.price]
<1>7. Book!PricesCross(taker, Arrivals[i])
  BY <1>3, <1>6 DEF PricesCross, Book!PricesCross
<1>8. id \in OrderIds /\ match.quantity \in Nat \ {0} /\ object[id].quantity \in Nat \ {0}
  BY <1>2, <1>3, KeysAreIds, AmountsAssumption DEF Order
<1>9. PICK taken : taken = LesserOf(match.quantity, object[id].quantity)
  OBVIOUS
<1>10. taken = Book!LesserOf(match.quantity, Arrivals[i].quantity)
  BY <1>6, <1>9 DEF LesserOf, Book!LesserOf
<1>11. /\ taken \in Nat \ {0}
       /\ ~WhollyTaken(id, taken) => object[id].quantity - taken \in Nat \ {0}
       /\ WhollyTaken(id, taken) <=> ~(object[id].quantity > taken)
  BY <1>8, <1>9, TakenIsTyped DEF WhollyTaken
<1>12. answer' = [id |-> Arrivals[i].id, price |-> Arrivals[i].price, quantity |-> taken]
  BY <1>3, <1>6, <1>9 DEF MatchTake
<1>13. Arrivals' = IF Arrivals[i].quantity > taken
                   THEN [Arrivals EXCEPT ![i].quantity = Arrivals[i].quantity - taken]
                   ELSE Book!Without(Arrivals[i].id)
  <2>1. CASE /\ ~WhollyTaken(id, taken)
             /\ object' = [object EXCEPT ![id].quantity = @ - taken]
             /\ bids' = Sorted(object', bids) /\ asks' = Sorted(object', asks)
             /\ UNCHANGED orders
    <3>1. PICK q \in Nat \ {0} : q = object[id].quantity - taken
      BY <1>11, <2>1
    <3>2. object' = [object EXCEPT ![id].quantity = q]
      BY <2>1, <3>1
    <3>3. Reduces(object, object', id, q)
      BY <2>1, <3>2, BookIsReduced
    <3>4. Arrivals' = [Arrivals EXCEPT ![i].quantity = q]
      BY <1>4, <2>1, <3>3, ReducedArrivals
    <3>5. Arrivals[i].quantity > taken /\ q = Arrivals[i].quantity - taken
      BY <1>6, <1>11, <2>1, <3>1
    <3>6. QED
      BY <3>4, <3>5
  <2>2. CASE WhollyTaken(id, taken) /\ Removed(id) /\ Collected(id, NoOrder)
    <3>1. OnlyWrites(object, object', id) /\ orders' = Filtered(orders, id)
      BY <1>8, <2>2, CollectedIsTyped DEF Removed
    <3>2. Arrivals' = Book!Without(id)
      BY <3>1, RemovedIsWithout
    <3>3. ~(Arrivals[i].quantity > taken)
      BY <1>6, <1>11, <2>2
    <3>4. QED
      BY <1>6, <3>2, <3>3
  <2>3. QED
    BY <1>3, <1>9, <2>1, <2>2 DEF MatchTake
<1>14. PICK s \in Book!Sides, p \in Prices, q \in Quantities :
         s = match.side /\ p = match.price /\ q = match.quantity
  BY <1>2 DEF Sides, Book!Sides
<1>15. Book!Match(s, p, q)
  BY <1>5, <1>7, <1>10, <1>12, <1>13, <1>14 DEF Book!Match, Arrivals
<1>16. QED
  BY <1>15

\* Every step of the store is a step of the abstract book, or the end of a
\* match whose head of the book has changed.
LEMMA RNext ==
    ASSUME BInv, [Next]_storeVars
    PROVE  [Book!BookNext \/ HeadHasChanged]_(Book!bookVars)
<1>1. CASE \E r \in Resting : Place(r)
  BY <1>1, RPlace DEF Book!BookNext
<1>2. CASE \E id \in OrderIds : Cancel(id)
  BY <1>2, RCancel DEF Book!BookNext
<1>3. CASE \E id \in Amended, q \in Quantities \cup {0} : Update(id, q)
  BY <1>3, RUpdate, AmendedAssumption DEF Book!BookNext
<1>4. CASE \E s \in Sides, p \in Prices, q \in Quantities : MatchPeek(s, p, q)
  <2>1. UNCHANGED <<orders, object, answer>>
    BY <1>4 DEF MatchPeek
  <2>2. QED
    BY <2>1 DEF Book!bookVars
<1>5. CASE MatchNothing
  <2>1. match # NoMatch /\ match' = NoMatch
    BY <1>5 DEF MatchNothing
  <2>2. CASE match.best = BestOpposite(match.side)
    BY <1>5, <2>2, RMatchNothing DEF Book!BookNext
  <2>3. QED
    BY <2>1, <2>2 DEF HeadHasChanged
<1>6. CASE MatchTake
  <2>1. match # NoMatch /\ match' = NoMatch
    BY <1>6 DEF MatchTake
  <2>2. CASE match.best = BestOpposite(match.side)
    BY <1>6, <2>2, RMatchTake DEF Book!BookNext
  <2>3. QED
    BY <2>1, <2>2 DEF HeadHasChanged
<1>7. CASE UNCHANGED storeVars
  BY <1>7 DEF storeVars, Book!bookVars
<1>8. QED
  BY <1>1, <1>2, <1>3, <1>4, <1>5, <1>6, <1>7 DEF Next

\* The in-memory store is the price-time book, for any number of orders, prices
\* and times: every call changes and answers what the abstract book does, save
\* an atomicMatch whose head of the book changed during its await.
THEOREM StoreImplementsTheBook == Spec => PriceTimePriority
<1>1. Init => Book!BookInit
  BY BookInitIs
<1>2. BInv /\ [Next]_storeVars => [Book!BookNext \/ HeadHasChanged]_(Book!bookVars)
  BY RNext
<1>3. QED
  BY <1>1, <1>2, BookIsWhole, PTL DEF Spec, PriceTimePriority
=============================================================================
