----------------------------- MODULE ERDProofs ------------------------------
(***************************************************************************)
(* Theorems of the whole system, for any owners, collaterals, prices,      *)
(* amounts and bounds: the books of the open troves (TroveOwners,          *)
(* arrayIndex, status, the sorted list, the GasPool) always agree, and the *)
(* last trove is never closed.  First, what the operations on a sorted     *)
(* list of owners preserve, and from that the invariant of the abstract    *)
(* list on its own.                                                        *)
(***************************************************************************)
EXTENDS ERDProperties, FiniteSetTheorems, Induction, TLAPS

-----------------------------------------------------------------------------
(* The sorted list.                                                        *)

\* Removing an owner closes the gap it leaves.
LEMMA WithoutElements ==
  ASSUME NEW l \in Seq(Ids), NEW id \in ToSet(l)
  PROVE  \E k \in 1..Len(l) :
           /\ l[k] = id
           /\ Without(l, id) \in Seq(Ids)
           /\ Len(Without(l, id)) = Len(l) - 1
           /\ \A i \in 1..(Len(l) - 1) :
                Without(l, id)[i] = IF i < k THEN l[i] ELSE l[i + 1]
<1>1. Len(l) \in Nat /\ DOMAIN l = 1..Len(l) /\ \A i \in 1..Len(l) : l[i] \in Ids
  BY LenProperties
<1>2. PICK k \in 1..Len(l) : l[k] = id /\ Without(l, id) = RemoveAt(l, k)
  BY <1>1 DEF ToSet, Without
<1> DEFINE m == Without(l, id)
<1>3. m = SubSeq(l, 1, k - 1) \o SubSeq(l, k + 1, Len(l))
  BY <1>2 DEF RemoveAt
<1> HIDE DEF m
<1>4. /\ m \in Seq(Ids)
      /\ Len(m) = Len(l) - 1
      /\ \A i \in 1..(Len(l) - 1) : m[i] = IF i < k THEN l[i] ELSE l[i + 1]
  BY <1>1, <1>2, <1>3, CutOut
<1> QED BY <1>2, <1>4 DEF m

\* Removing an owner from a list without repetitions keeps the others, each
\* once, in the same order.
LEMMA WithoutKeepsOrder ==
  ASSUME NEW l \in Seq(Ids), IsInjective(l), NEW id \in ToSet(l)
  PROVE  /\ Without(l, id) \in Seq(Ids)
         /\ Len(Without(l, id)) = Len(l) - 1
         /\ IsInjective(Without(l, id))
         /\ ToSet(Without(l, id)) = ToSet(l) \ {id}
         /\ \A r : IsSortedBy(l, r) => IsSortedBy(Without(l, id), r)
<1> DEFINE m == Without(l, id)
<1>1. PICK k \in 1..Len(l) :
        /\ l[k] = id
        /\ m \in Seq(Ids)
        /\ Len(m) = Len(l) - 1
        /\ \A i \in 1..(Len(l) - 1) : m[i] = IF i < k THEN l[i] ELSE l[i + 1]
  BY WithoutElements
<1> HIDE DEF m
<1>2. Len(l) \in Nat /\ DOMAIN l = 1..Len(l) /\ DOMAIN m = 1..(Len(l) - 1)
  BY <1>1, LenProperties
<1>3. IsInjective(m)
  BY <1>1, <1>2 DEF IsInjective
<1>4. ToSet(m) \subseteq ToSet(l) \ {id}
  BY <1>1, <1>2 DEF ToSet, IsInjective
<1>5. ASSUME NEW x \in ToSet(l) \ {id}
      PROVE  x \in ToSet(m)
  <2>1. PICK i \in 1..Len(l) : l[i] = x
    BY <1>2 DEF ToSet
  <2>2. i # k
    BY <1>1, <2>1
  <2>3. CASE i < k
    BY <1>1, <1>2, <2>1, <2>3 DEF ToSet
  <2>4. CASE i > k
    <3>1. i - 1 \in 1..(Len(l) - 1) /\ m[i - 1] = x
      BY <1>1, <1>2, <2>1, <2>4
    <3> QED BY <1>2, <3>1 DEF ToSet
  <2> QED BY <1>2, <2>2, <2>3, <2>4
<1>6. ASSUME NEW r, IsSortedBy(l, r)
      PROVE  IsSortedBy(m, r)
  BY <1>1, <1>2, <1>6 DEF IsSortedBy
<1> QED BY <1>1, <1>3, <1>4, <1>5, <1>6 DEF m

\* Inserting an owner at a position shifts the ones from there on.
LEMMA InsertAtElements ==
  ASSUME NEW l \in Seq(Ids), NEW id \in Ids, NEW k \in 1..(Len(l) + 1)
  PROVE  /\ InsertAt(l, k, id) \in Seq(Ids)
         /\ Len(InsertAt(l, k, id)) = Len(l) + 1
         /\ \A i \in 1..(Len(l) + 1) :
              InsertAt(l, k, id)[i] = IF i < k THEN l[i]
                                      ELSE IF i = k THEN id
                                      ELSE l[i - 1]
<1> DEFINE m == InsertAt(l, k, id)
<1>1. m = SubSeq(l, 1, k - 1) \o <<id>> \o SubSeq(l, k, Len(l))
  BY DEF InsertAt
<1> HIDE DEF m
<1>2. m \in Seq(Ids) /\ IsPutIn(m, l, k, id)
  <2>1. PICK S : S = Ids
    OBVIOUS
  <2>2. l \in Seq(S) /\ id \in S
    BY <2>1
  <2>3. m \in Seq(S) /\ IsPutIn(m, l, k, id)
    BY <1>1, <2>2, PutIn
  <2> QED BY <2>1, <2>3
<1> QED BY <1>2 DEF IsPutIn, m

\* A new owner placed where its ICR fits leaves the list ordered by the ICRs
\* that record it.
LEMMA PlacementKeepsOrder ==
  ASSUME NEW l, NEW r, OrderedBy(l, r),
         NEW id \in Ids, id \notin ToSet(l), NEW icr, icr # 0,
         NEW m \in Placements(l, r, id, icr)
  PROVE  OrderedBy(m, [r EXCEPT ![id] = icr]) /\ ToSet(m) = ToSet(l) \cup {id}
<1> l \in Seq(Ids) /\ IsInjective(l) /\ DOMAIN r = Ids /\ IsSortedBy(l, r)
  BY DEF OrderedBy
<1>1. PICK k \in 1..(Len(l) + 1) : m = InsertAt(l, k, id) /\ Fits(l, r, icr, k)
  BY DEF Placements
<1>2. /\ Len(l) \in Nat /\ DOMAIN l = 1..Len(l)
      /\ \A i \in 1..Len(l) : l[i] \in Ids /\ l[i] # id
  BY LenProperties DEF ToSet
<1>3. /\ m \in Seq(Ids)
      /\ Len(m) = Len(l) + 1
      /\ \A i \in 1..(Len(l) + 1) :
           /\ i < k => i \in 1..Len(l) /\ m[i] = l[i]
           /\ i = k => m[i] = id
           /\ i > k => i - 1 \in 1..Len(l) /\ m[i] = l[i - 1]
  <2>1. /\ InsertAt(l, k, id) \in Seq(Ids)
        /\ Len(InsertAt(l, k, id)) = Len(l) + 1
        /\ \A i \in 1..(Len(l) + 1) :
             InsertAt(l, k, id)[i] = IF i < k THEN l[i] ELSE IF i = k THEN id ELSE l[i - 1]
    BY InsertAtElements, SMTT(30)
  <2> HIDE DEF Placements
  <2> QED BY <1>1, <1>2, <2>1
<1>4. DOMAIN m = 1..(Len(l) + 1)
  BY <1>3, LenProperties
<1>5. IsInjective(m)
  <2>1. \A i, j \in 1..Len(l) : l[i] = l[j] => i = j
    BY <1>2 DEF IsInjective
  <2>2. ASSUME NEW i \in 1..(Len(l) + 1), NEW j \in 1..(Len(l) + 1), m[i] = m[j]
        PROVE  i = j
    <3>1. (i < k \/ i = k \/ i > k) /\ (j < k \/ j = k \/ j > k)
      BY <1>2
    <3> QED BY <1>2, <1>3, <2>1, <2>2, <3>1
  <2> QED BY <1>4, <2>2 DEF IsInjective
<1>6. ASSUME NEW i \in 1..(Len(l) + 1)
      PROVE  m[i] \in ToSet(l) \cup {id}
  <2>1. i < k \/ i = k \/ i > k
    BY <1>2
  <2> QED BY <1>2, <1>3, <2>1 DEF ToSet
<1>7. id \in ToSet(m)
  BY <1>2, <1>3, <1>4 DEF ToSet
<1>8. ASSUME NEW x \in ToSet(l)
      PROVE  x \in ToSet(m)
  <2>1. PICK i \in 1..Len(l) : l[i] = x
    BY <1>2 DEF ToSet
  <2>2. CASE i < k
    <3>1. i \in 1..(Len(l) + 1) /\ m[i] = x
      BY <1>2, <1>3, <2>1, <2>2
    <3> QED BY <1>4, <3>1 DEF ToSet
  <2>3. CASE i >= k
    <3>1. i + 1 \in 1..(Len(l) + 1) /\ m[i + 1] = x
      BY <1>2, <1>3, <2>1, <2>3
    <3> QED BY <1>4, <3>1 DEF ToSet
  <2> QED BY <1>2, <2>2, <2>3
<1>9. IsSortedBy(m, [r EXCEPT ![id] = icr])
  <2> DEFINE q == [r EXCEPT ![id] = icr]
  <2>1. q[id] = icr /\ \A i \in 1..Len(l) : q[l[i]] = r[l[i]]
    BY <1>2
  <2> HIDE DEF q
  <2>2. \A i, j \in 1..Len(l) : i < j => r[l[i]] >= r[l[j]]
    BY DEF IsSortedBy
  <2>3. /\ \A i \in 1..(k - 1) : r[l[i]] >= icr
        /\ \A i \in k..Len(l) : icr >= r[l[i]]
    BY <1>1 DEF Fits
  <2>4. ASSUME NEW i \in 1..Len(m), NEW j \in 1..Len(m), i < j
        PROVE  q[m[i]] >= q[m[j]]
    <3>1. CASE j < k
      BY <1>2, <1>3, <2>1, <2>2, <2>4, <3>1
    <3>2. CASE j = k
      BY <1>2, <1>3, <2>1, <2>3, <2>4, <3>2
    <3>3. CASE j > k /\ i = k
      <4>1. m[i] = id /\ m[j] = l[j - 1] /\ j - 1 \in 1..Len(l) /\ j - 1 \in k..Len(l)
        BY <1>2, <1>3, <2>4, <3>3
      <4> QED BY <2>1, <2>3, <4>1
    <3>4. CASE j > k /\ i < k
      <4>1. m[i] = l[i] /\ m[j] = l[j - 1] /\ i < j /\ i \in 1..Len(l) /\ j - 1 \in 1..Len(l)
        BY <1>2, <1>3, <2>4, <3>4
      <4>2. i < j - 1
        BY <1>2, <3>4, <4>1
      <4> QED BY <2>1, <2>2, <4>1, <4>2
    <3>5. CASE i > k
      <4>1. /\ m[i] = l[i - 1] /\ m[j] = l[j - 1] /\ i - 1 < j - 1
            /\ i - 1 \in 1..Len(l) /\ j - 1 \in 1..Len(l)
        BY <1>2, <1>3, <2>4, <3>5
      <4> QED BY <2>1, <2>2, <4>1
    <3> QED BY <1>3, <3>1, <3>2, <3>3, <3>4, <3>5
  <2> QED BY <2>4 DEF IsSortedBy, q
<1>10. ToSet(m) = ToSet(l) \cup {id}
  BY <1>4, <1>6, <1>7, <1>8 DEF ToSet
<1>11. \A x \in Ids : [r EXCEPT ![id] = icr][x] # 0 <=> x \in ToSet(m)
  BY <1>10 DEF OrderedBy
<1> QED BY <1>3, <1>5, <1>9, <1>10, <1>11 DEF OrderedBy

\* Whether a list is sorted depends on the ICRs of its owners only.
LEMMA SortedBySameICRs ==
  ASSUME NEW l \in Seq(Ids), NEW r, IsSortedBy(l, r),
         NEW q, \A id \in ToSet(l) : q[id] = r[id]
  PROVE  IsSortedBy(l, q)
<1>1. \A i \in 1..Len(l) : q[l[i]] = r[l[i]]
  BY LenProperties DEF ToSet
<1> QED BY <1>1 DEF IsSortedBy

-----------------------------------------------------------------------------
(* The steps of the abstract list, in terms of the invariant of the list.  *)

LEMMA ContainsIsIn ==
  ASSUME NEW l \in Seq(Ids), NEW id
  PROVE  Contains(l, id) <=> id \in ToSet(l)
BY LenProperties DEF Contains, ToSet

LEMMA ListedAreIds ==
  ASSUME NEW l \in Seq(Ids)
  PROVE  ToSet(l) \subseteq Ids /\ \A i \in 1..Len(l) : l[i] \in ToSet(l)
BY LenProperties DEF ToSet

LEMMA InsertKeepsOrder ==
  ASSUME OrderedList, NEW id \in Ids, NEW icr, InsertSorted(id, icr)
  PROVE  OrderedList' /\ ToSet(list') = ToSet(list) \cup {id}
<1>1. /\ id \notin ToSet(list)
      /\ icr # 0
      /\ list' \in Placements(list, recorded, id, icr)
      /\ recorded' = [recorded EXCEPT ![id] = icr]
  BY ContainsIsIn DEF OrderedList, OrderedBy, InsertSorted
<1>2. OrderedBy(list, recorded)
  BY DEF OrderedList
<1>3. OrderedBy(list', recorded')
  BY <1>1, <1>2, PlacementKeepsOrder
<1>4. ToSet(list') = ToSet(list) \cup {id}
  BY <1>1, <1>2, PlacementKeepsOrder
<1> QED BY <1>3, <1>4 DEF OrderedList

LEMMA RemovalKeepsOrder ==
  ASSUME NEW l, NEW r, OrderedBy(l, r), NEW id \in ToSet(l)
  PROVE  OrderedBy(Without(l, id), [r EXCEPT ![id] = 0])
<1> DEFINE m == Without(l, id)
           q == [r EXCEPT ![id] = 0]
<1>1. /\ l \in Seq(Ids) /\ IsInjective(l) /\ DOMAIN r = Ids /\ IsSortedBy(l, r)
      /\ \A x \in Ids : r[x] # 0 <=> x \in ToSet(l)
  BY DEF OrderedBy
<1>2. /\ m \in Seq(Ids) /\ IsInjective(m)
      /\ ToSet(m) = ToSet(l) \ {id}
      /\ IsSortedBy(m, r)
  BY <1>1, WithoutKeepsOrder
<1> HIDE DEF m
<1>3. DOMAIN q = Ids /\ \A x \in Ids : q[x] # 0 <=> x \in ToSet(m)
  BY <1>1, <1>2
<1>4. \A x \in ToSet(m) : q[x] = r[x]
  BY <1>1, <1>2, ListedAreIds
<1> HIDE DEF q
<1>5. IsSortedBy(m, q)
  BY <1>2, <1>4, SortedBySameICRs
<1>6. OrderedBy(m, q)
  BY <1>2, <1>3, <1>5 DEF OrderedBy
<1> QED BY <1>6 DEF m, q

LEMMA RemoveKeepsOrder ==
  ASSUME OrderedList, NEW id \in Ids, RemoveSorted(id)
  PROVE  OrderedList' /\ ToSet(list') = ToSet(list) \ {id}
<1>1. /\ id \in ToSet(list)
      /\ list' = Without(list, id)
      /\ recorded' = [recorded EXCEPT ![id] = 0]
  BY ContainsIsIn DEF OrderedList, OrderedBy, RemoveSorted
<1>2. OrderedBy(list, recorded) /\ list \in Seq(Ids) /\ IsInjective(list)
  BY DEF OrderedList, OrderedBy
<1>3. ToSet(list') = ToSet(list) \ {id}
  BY <1>1, <1>2, WithoutKeepsOrder
<1>4. OrderedBy(list', recorded')
  BY <1>1, <1>2, RemovalKeepsOrder
<1> QED BY <1>3, <1>4 DEF OrderedList

\* The places where a listed owner may be put depend on the ICRs of the others.
LEMMA ReplacementsBySameICRs ==
  ASSUME NEW l, l \in Seq(Ids), IsInjective(l), NEW r, NEW q,
         \A x \in ToSet(l) : r[x] = q[x],
         NEW id \in ToSet(l), NEW icr, NEW m \in Replacements(l, r, id, icr)
  PROVE  m \in Replacements(l, q, id, icr)
<1> DEFINE rest == Without(l, id)
<1>1. rest \in Seq(Ids) /\ ToSet(rest) \subseteq ToSet(l)
  BY WithoutKeepsOrder
<1>2. m \in Placements(rest, r, id, icr)
  BY DEF Replacements
<1>3. (m \in Placements(rest, q, id, icr)) => (m \in Replacements(l, q, id, icr))
  BY DEF Replacements
<1> HIDE DEF rest
<1>4. \A i \in 1..Len(rest) : r[rest[i]] = q[rest[i]]
  BY <1>1, ListedAreIds
<1>5. \A k \in 1..(Len(rest) + 1) : Fits(rest, r, icr, k) => Fits(rest, q, icr, k)
  BY <1>1, <1>4, LenProperties DEF Fits
<1> QED BY <1>2, <1>3, <1>5 DEF Placements

LEMMA ReplacementKeepsOrder ==
  ASSUME NEW l, NEW r, OrderedBy(l, r),
         NEW id \in Ids, id \in ToSet(l), NEW icr, icr # 0,
         NEW m \in Replacements(l, r, id, icr)
  PROVE  OrderedBy(m, [r EXCEPT ![id] = icr]) /\ ToSet(m) = ToSet(l)
<1> DEFINE rest == Without(l, id)
           q == [r EXCEPT ![id] = 0]
<1>1. DOMAIN r = Ids /\ l \in Seq(Ids) /\ IsInjective(l)
  BY DEF OrderedBy
<1>2. ToSet(rest) = ToSet(l) \ {id} /\ rest \in Seq(Ids)
  BY <1>1, WithoutKeepsOrder
<1>3. OrderedBy(rest, q)
  BY RemovalKeepsOrder
<1>4. \A x \in Ids : x # id => q[x] = r[x]
  BY <1>1
<1>5. m \in Placements(rest, r, id, icr)
  BY DEF Replacements
<1> HIDE DEF rest, q
<1>6. \A i \in 1..Len(rest) : q[rest[i]] = r[rest[i]]
  BY <1>1, <1>2, <1>4, ListedAreIds
<1>7. m \in Placements(rest, q, id, icr)
  <2>1. \A k \in 1..(Len(rest) + 1) : Fits(rest, r, icr, k) => Fits(rest, q, icr, k)
    BY <1>2, <1>6, LenProperties DEF Fits
  <2> QED BY <1>5, <2>1 DEF Placements
<1>8. OrderedBy(m, [q EXCEPT ![id] = icr]) /\ ToSet(m) = ToSet(rest) \cup {id}
  BY <1>2, <1>3, <1>7, PlacementKeepsOrder
<1>9. [q EXCEPT ![id] = icr] = [r EXCEPT ![id] = icr]
  BY <1>1 DEF q
<1> QED BY <1>2, <1>8, <1>9

LEMMA ReInsertKeepsOrder ==
  ASSUME OrderedList, NEW id \in Ids, NEW icr, ReInsertSorted(id, icr)
  PROVE  OrderedList' /\ ToSet(list') = ToSet(list)
<1>1. /\ id \in ToSet(list)
      /\ icr # 0
      /\ list' \in Replacements(list, recorded, id, icr)
      /\ recorded' = [recorded EXCEPT ![id] = icr]
  BY ContainsIsIn DEF OrderedList, OrderedBy, ReInsertSorted
<1>2. OrderedBy(list, recorded)
  BY DEF OrderedList
<1> QED BY <1>1, <1>2, ReplacementKeepsOrder DEF OrderedList

LEMMA InitIsOrdered ==
  ASSUME InitSorted
  PROVE  OrderedList /\ ToSet(list) = {}
<1>1. /\ <<>> \in Seq(Ids) /\ Len(<<>>) = 0 /\ DOMAIN <<>> = {}
  OBVIOUS
<1>2. IsInjective(<<>>) /\ IsSortedBy(<<>>, recorded) /\ ToSet(<<>>) = {}
  BY <1>1 DEF IsInjective, IsSortedBy, ToSet
<1> QED BY <1>1, <1>2 DEF InitSorted, OrderedList, OrderedBy

\* The abstract list that SortedTroves implements is always ordered by the
\* recorded ICRs, holds nobody twice, and records an ICR for exactly the
\* owners in it, for any owners, ICRs, hints and order of the calls.
THEOREM ListStaysOrdered == SpecSorted => []OrderedList
<1>1. InitSorted => OrderedList
  BY InitIsOrdered
<1>2. OrderedList /\ [NextSorted]_sortedVars => OrderedList'
  <2> SUFFICES ASSUME OrderedList, [NextSorted]_sortedVars PROVE OrderedList'
    OBVIOUS
  <2>1. ASSUME NEW id \in Ids, NEW icr \in ICRs, InsertSorted(id, icr)
        PROVE  OrderedList'
    BY <2>1, InsertKeepsOrder
  <2>2. ASSUME NEW id \in Ids, NEW icr \in ICRs, ReInsertSorted(id, icr)
        PROVE  OrderedList'
    BY <2>2, ReInsertKeepsOrder
  <2>3. ASSUME NEW id \in Ids, RemoveSorted(id)
        PROVE  OrderedList'
    BY <2>3, RemoveKeepsOrder
  <2>4. CASE UNCHANGED sortedVars
    BY <2>4 DEF sortedVars, OrderedList, OrderedBy
  <2> QED BY <2>1, <2>2, <2>3, <2>4 DEF NextSorted
<1> QED BY <1>1, <1>2, PTL DEF SpecSorted

-----------------------------------------------------------------------------
(* The arrays of owners.                                                   *)

\* The owners in an array, each once, at the place the index says.
Indexed(owners, index) ==
  /\ owners \in Seq(Borrowers)
  /\ IsInjective(owners)
  /\ DOMAIN index = Borrowers
  /\ \A i \in 1..Len(owners) : index[owners[i]] = i - 1

LEMMA RemovalKeepsIndexed ==
  ASSUME NEW owners, NEW index, Indexed(owners, index), NEW b \in ToSet(owners)
  PROVE  /\ Indexed(OwnersWithout(owners, index, b), IndexWithout(owners, index, b))
         /\ ToSet(OwnersWithout(owners, index, b)) = ToSet(owners) \ {b}
         /\ Len(OwnersWithout(owners, index, b)) = Len(owners) - 1
<1> DEFINE n == Len(owners)
           last == owners[n]
           k == index[b] + 1
           moved == [owners EXCEPT ![k] = last]
           o == OwnersWithout(owners, index, b)
           ix == IndexWithout(owners, index, b)
<1>1. /\ owners \in Seq(Borrowers) /\ n \in Nat /\ DOMAIN owners = 1..n
      /\ \A i \in 1..n : owners[i] \in Borrowers /\ index[owners[i]] = i - 1
      /\ DOMAIN index = Borrowers
      /\ \A i, j \in 1..n : owners[i] = owners[j] => i = j
  BY LenProperties DEF Indexed, IsInjective
<1>2. k \in 1..n /\ owners[k] = b /\ index[b] = k - 1
  BY <1>1 DEF ToSet
<1>3. n \in 1..n /\ last \in Borrowers /\ last = owners[n]
  BY <1>1, <1>2
<1>4. moved \in Seq(Borrowers) /\ Len(moved) = n
      /\ \A i \in 1..n : moved[i] = IF i = k THEN last ELSE owners[i]
  BY <1>1, <1>2, <1>3, ExceptSeq
<1>5. o = SubSeq(moved, 1, n - 1)
  BY DEF OwnersWithout
<1> HIDE DEF moved, n
<1>6. /\ o \in Seq(Borrowers) /\ Len(o) = n - 1
      /\ \A i \in 1..(n - 1) : o[i] = moved[i]
  BY <1>1, <1>3, <1>4, <1>5, SubSeqProperties
<1> HIDE DEF o, k, last
<1>7. DOMAIN o = 1..(n - 1)
  BY <1>6, LenProperties
<1>8. \A i \in 1..(n - 1) : o[i] = IF i = k THEN last ELSE owners[i]
  BY <1>1, <1>4, <1>6
<1>9. /\ DOMAIN ix = Borrowers
      /\ \A x \in Borrowers : ix[x] = IF x = last THEN index[b] ELSE index[x]
  BY <1>1 DEF IndexWithout, n, last
<1> HIDE DEF ix
<1>10. \A i, j \in 1..(n - 1) : o[i] = o[j] => i = j
  BY <1>1, <1>2, <1>3, <1>8
<1>11. \A i \in 1..(n - 1) : ix[o[i]] = i - 1
  <2> TAKE i \in 1..(n - 1)
  <2>1. CASE i = k
    BY <1>1, <1>2, <1>3, <1>8, <1>9, <2>1
  <2>2. CASE i # k
    <3>1. o[i] = owners[i] /\ o[i] # last /\ o[i] \in Borrowers
      BY <1>1, <1>3, <1>8, <2>2
    <3> QED BY <1>1, <1>9, <3>1
  <2> QED BY <2>1, <2>2
<1>12. ToSet(o) = ToSet(owners) \ {b}
  <2>1. ASSUME NEW i \in 1..(n - 1)
        PROVE  o[i] \in ToSet(owners) \ {b}
    BY <1>1, <1>2, <1>3, <1>8 DEF ToSet
  <2>2. ASSUME NEW x \in ToSet(owners) \ {b}
        PROVE  x \in ToSet(o)
    <3>1. PICK i \in 1..n : owners[i] = x
      BY <1>1 DEF ToSet
    <3>2. i # k
      BY <1>2, <3>1
    <3>3. CASE i < n
      BY <1>1, <1>7, <1>8, <3>1, <3>2, <3>3 DEF ToSet
    <3>4. CASE i = n
      <4>1. k \in 1..(n - 1) /\ o[k] = x
        BY <1>1, <1>2, <1>3, <1>8, <3>1, <3>2, <3>4
      <4> QED BY <1>7, <4>1 DEF ToSet
    <3> QED BY <1>1, <3>3, <3>4
  <2> QED BY <1>7, <2>1, <2>2 DEF ToSet
<1>13. Indexed(o, ix)
  BY <1>6, <1>7, <1>9, <1>10, <1>11 DEF Indexed, IsInjective
<1> QED BY <1>6, <1>12, <1>13 DEF o, ix, n

-----------------------------------------------------------------------------
(* The invariant.                                                          *)

\* TroveOwners, arrayIndex, status, the sorted list and the GasPool agree on
\* which troves are open.
Books ==
  /\ DOMAIN status = Borrowers
  /\ Indexed(TroveOwners, arrayIndex)
  /\ ToSet(TroveOwners) = ActiveTroves
  /\ OrderedList
  /\ ToSet(list) = ActiveTroves
  /\ USDE_GAS_COMPENSATION \in GasCompensations
  /\ ReservesComplete

\* The recorded ICRs once the owners in S are removed from the list.
RecordedBut(S) == [b \in Borrowers |-> IF b \in S THEN 0 ELSE recorded[b]]

\* The same for a walk on its way: it has closed some of the open troves, is
\* left with the given array, index and list, and took gas from the reserves.
BooksOf(closed, owners, index, l, gas) ==
  /\ closed \subseteq ActiveTroves
  /\ Indexed(owners, index)
  /\ ToSet(owners) = ActiveTroves \ closed
  /\ OrderedBy(l, RecordedBut(closed))
  /\ Len(TroveOwners) # 0 => Len(owners) # 0
  /\ gas \in Int
  /\ gas + Len(owners) * USDE_GAS_COMPENSATION = Len(TroveOwners) * USDE_GAS_COMPENSATION

LEMMA GasIsNat ==
  ASSUME Books
  PROVE  USDE_GAS_COMPENSATION \in Nat /\ USDE_GAS_COMPENSATION # 0
BY ERDAssumption DEF Books

LEMMA OrderedBySameICRs ==
  ASSUME NEW l, NEW r, OrderedBy(l, r), NEW q, DOMAIN q = Ids, \A id \in Ids : q[id] = r[id]
  PROVE  OrderedBy(l, q)
<1>1. l \in Seq(Ids) /\ IsSortedBy(l, r) /\ \A id \in ToSet(l) : q[id] = r[id]
  BY ListedAreIds DEF OrderedBy
<1>2. IsSortedBy(l, q)
  BY <1>1, SortedBySameICRs
<1> QED BY <1>2 DEF OrderedBy

LEMMA BooksAtStart ==
  ASSUME Books
  PROVE  BooksOf({}, TroveOwners, arrayIndex, list, 0)
<1>1. OrderedBy(list, RecordedBut({}))
  <2>1. OrderedBy(list, recorded)
    BY DEF Books, OrderedList
  <2>2. DOMAIN RecordedBut({}) = Ids /\ \A id \in Ids : RecordedBut({})[id] = recorded[id]
    BY DEF RecordedBut, Borrowers
  <2> QED BY <2>1, <2>2, OrderedBySameICRs
<1>2. Len(TroveOwners) \in Nat
  BY LenProperties DEF Books, Indexed
<1>3. Len(TroveOwners) * USDE_GAS_COMPENSATION \in Int
  BY <1>2, GasIsNat
<1> QED BY <1>1, <1>3 DEF Books, BooksOf, OrderedList

LEMMA ClosingKeepsBooks ==
  ASSUME Books, NEW closed, NEW owners, NEW index, NEW l, NEW gas,
         BooksOf(closed, owners, index, l, gas),
         NEW b \in ActiveTroves, b \notin closed, MayClose(owners, l)
  PROVE  BooksOf(closed \cup {b}, OwnersWithout(owners, index, b),
                 IndexWithout(owners, index, b), Without(l, b), gas + USDE_GAS_COMPENSATION)
<1> DEFINE o == OwnersWithout(owners, index, b)
           ix == IndexWithout(owners, index, b)
<1>1. Indexed(o, ix) /\ ToSet(o) = ToSet(owners) \ {b} /\ Len(o) = Len(owners) - 1
  <2>1. Indexed(owners, index) /\ b \in ToSet(owners)
    BY DEF BooksOf
  <2> QED BY <2>1, RemovalKeepsIndexed
<1> HIDE DEF o, ix
<1>2. ToSet(o) = ActiveTroves \ (closed \cup {b}) /\ closed \cup {b} \subseteq ActiveTroves
  BY <1>1 DEF BooksOf
<1>3. OrderedBy(Without(l, b), RecordedBut(closed \cup {b}))
  <2>1. b \in Ids /\ recorded[b] # 0
    <3>1. b \in Ids /\ b \in ToSet(list)
      BY DEF Books, ActiveTroves, Borrowers
    <3> QED BY <3>1 DEF Books, OrderedList, OrderedBy
  <2>2. b \in ToSet(l)
    <3>1. RecordedBut(closed)[b] # 0
      BY <2>1 DEF RecordedBut, Borrowers
    <3> QED BY <2>1, <3>1 DEF BooksOf, OrderedBy
  <2>3. OrderedBy(Without(l, b), [RecordedBut(closed) EXCEPT ![b] = 0])
    BY <2>2, RemovalKeepsOrder DEF BooksOf
  <2>4. [RecordedBut(closed) EXCEPT ![b] = 0] = RecordedBut(closed \cup {b})
    BY <2>1 DEF RecordedBut, Borrowers
  <2> QED BY <2>3, <2>4
<1>4. Len(owners) \in Nat /\ Len(owners) > 1
  BY LenProperties DEF MayClose, BooksOf, Indexed
<1>5. Len(o) # 0
  BY <1>1, <1>4
<1>6. /\ gas + USDE_GAS_COMPENSATION \in Int
      /\ gas + USDE_GAS_COMPENSATION + Len(o) * USDE_GAS_COMPENSATION
           = Len(TroveOwners) * USDE_GAS_COMPENSATION
  <2>1. (Len(owners) - 1) * USDE_GAS_COMPENSATION
          = Len(owners) * USDE_GAS_COMPENSATION - USDE_GAS_COMPENSATION
    BY <1>4, GasIsNat
  <2>2. Len(owners) * USDE_GAS_COMPENSATION \in Int
    BY <1>4, GasIsNat
  <2> QED BY <1>1, <2>1, <2>2, GasIsNat DEF BooksOf
<1>7. BooksOf(closed \cup {b}, o, ix, Without(l, b), gas + USDE_GAS_COMPENSATION)
  BY <1>1, <1>2, <1>3, <1>5, <1>6 DEF BooksOf
<1> QED BY <1>7 DEF o, ix

\* A transaction that ends as such a walk leaves the books in order.
LEMMA SettlingKeepsBooks ==
  ASSUME Books, NEW closed, NEW how \in Statuses, how # "active", NEW gas,
         NEW l, BooksOf(closed, TroveOwners', arrayIndex', l, gas),
         ToSet(list') = ToSet(l), OrderedBy(list', recorded'),
         status' = [b \in Borrowers |-> IF b \in closed THEN how ELSE status[b]],
         USDE_GAS_COMPENSATION' = USDE_GAS_COMPENSATION,
         gasPool' = gasPool - gas
  PROVE  Books' /\ (TroveOwners # <<>> => TroveOwners' # <<>>)
<1>1. BooksOf(closed, TroveOwners', arrayIndex', l, gas) /\ ToSet(list') = ToSet(l)
  OBVIOUS
<1>2. ActiveTroves' = ActiveTroves \ closed
  BY DEF ActiveTroves, IsActive
<1>3. ToSet(list') = ActiveTroves'
  <2>1. /\ ToSet(l) \subseteq Ids
        /\ \A x \in Ids : RecordedBut(closed)[x] # 0 <=> x \in ToSet(l)
    BY <1>1, ListedAreIds DEF BooksOf, OrderedBy
  <2>2. \A x \in Ids : recorded[x] # 0 <=> x \in ActiveTroves
    BY DEF Books, OrderedList, OrderedBy
  <2>3. \A x \in Ids : RecordedBut(closed)[x] # 0 <=> x \in ActiveTroves \ closed
    BY <2>2 DEF RecordedBut, Borrowers
  <2>4. ActiveTroves \subseteq Ids
    BY DEF ActiveTroves, Borrowers
  <2> QED BY <1>1, <1>2, <2>1, <2>3, <2>4
<1>4. ReservesComplete'
  <2>1. Len(TroveOwners) \in Nat /\ Len(TroveOwners') \in Nat
    BY <1>1, LenProperties DEF Books, BooksOf, Indexed
  <2>2. Len(TroveOwners) * USDE_GAS_COMPENSATION \in Int /\ Len(TroveOwners') * USDE_GAS_COMPENSATION \in Int
    BY <2>1, GasIsNat
  <2> QED BY <1>1, <2>2 DEF Books, BooksOf, ReservesComplete
<1>5. TroveOwners # <<>> => TroveOwners' # <<>>
  <2>1. TroveOwners # <<>> => Len(TroveOwners) # 0
    BY EmptySeq DEF Books, Indexed
  <2>2. TroveOwners' = <<>> => Len(TroveOwners') = 0
    OBVIOUS
  <2> QED BY <1>1, <2>1, <2>2 DEF BooksOf
<1> QED BY <1>1, <1>2, <1>3, <1>4, <1>5 DEF Books, BooksOf, OrderedList

-----------------------------------------------------------------------------
(* Walks: recursive functions over the troves met.                         *)

\* The walk of a liquidation is the function its definition asks for.
LEMMA RunOverStep ==
  ASSUME NEW owners, Len(owners) \in Nat, NEW stop
  PROVE  \E run : /\ run = [i \in 0..Len(owners) |->
                              IF i = 0 THEN Start ELSE Process(run[i - 1], owners[i], stop)]
                  /\ RunOver(owners, stop) = run[Len(owners)]
<1> DEFINE n == Len(owners)
           Run(g, k) == g = [i \in 0..k |->
                              IF i = 0 THEN Start ELSE Process(g[i - 1], owners[i], stop)]
           Runs(k) == \E g : Run(g, k)
           T == {k \in 0..n : Runs(k)}
<1>1. Runs(0)
  <2>1. Run([i \in 0..0 |-> Start], 0)
    OBVIOUS
  <2> QED BY <2>1
<1>2. ASSUME NEW k \in 0..(n - 1), Runs(k)
      PROVE  Runs(k + 1)
  <2>1. PICK g : Run(g, k)
    BY <1>2
  <2> DEFINE h == [i \in 0..(k + 1) |->
                     IF i <= k THEN g[i] ELSE Process(g[k], owners[k + 1], stop)]
  <2>2. \A i \in 0..(k + 1) :
          h[i] = IF i = 0 THEN Start ELSE Process(h[i - 1], owners[i], stop)
    <3> TAKE i \in 0..(k + 1)
    <3>1. CASE i = 0
      BY <2>1, <3>1
    <3>2. CASE i # 0 /\ i <= k
      BY <2>1, <3>2
    <3>3. CASE i = k + 1
      BY <2>1, <3>3
    <3> QED BY <3>1, <3>2, <3>3
  <2>3. Run(h, k + 1)
    BY <2>2
  <2> QED BY <2>3
<1>3. Runs(n)
  <2> HIDE DEF Runs
  <2>1. 0 \in T /\ \A k \in 0..(n - 1) : k \in T => k + 1 \in T
    BY <1>1, <1>2
  <2> HIDE DEF T
  <2>2. 0..n \subseteq T
    <3> n \in Nat
      OBVIOUS
    <3> HIDE DEF n, Run
    <3> QED BY <2>1, SetInduction
  <2>3. n \in T
    BY <2>2
  <2> QED BY <2>3 DEF T
<1>4. Run(CHOOSE g : Run(g, n), n)
  BY <1>3
<1> QED BY <1>4 DEF RunOver

\* What every step of a liquidation's walk keeps.
LiquidationWalk(acc) ==
  /\ DOMAIN acc = {"left", "normal", "stopped", "reverted", "sysDebt", "sysColl",
                   "closed", "owners", "index", "list", "surplus", "totals"}
  /\ BooksOf(acc.closed, acc.owners, acc.index, acc.list, acc.totals.gas)

LEMMA StartsAsLiquidationWalk ==
  ASSUME Books
  PROVE  LiquidationWalk(Start)
<1>1. BooksOf({}, TroveOwners, arrayIndex, list, 0)
  BY BooksAtStart
<1>2. /\ DOMAIN Start = {"left", "normal", "stopped", "reverted", "sysDebt", "sysColl",
                         "closed", "owners", "index", "list", "surplus", "totals"}
      /\ Start.closed = {} /\ Start.owners = TroveOwners /\ Start.index = arrayIndex
      /\ Start.list = list /\ Start.totals.gas = 0
  BY DEF Start, ZeroVals
<1> QED BY <1>1, <1>2 DEF LiquidationWalk

\* A trove that is closed leaves its reserve, whichever way it is liquidated.
LEMMA ValsTakeReserve ==
  ASSUME NEW acc, NEW b
  PROVE  /\ \A left : FullVals(b, left).gas = USDE_GAS_COMPENSATION
         /\ RecoveryVals(acc, b) # ZeroVals => RecoveryVals(acc, b).gas = USDE_GAS_COMPENSATION
<1>1. \A left : FullVals(b, left).gas = USDE_GAS_COMPENSATION
  BY DEF FullVals
<1>2. CappedVals(b).gas = USDE_GAS_COMPENSATION
  BY DEF CappedVals
<1> QED BY <1>1, <1>2 DEF RecoveryVals

LEMMA ClosingKeepsWalk ==
  ASSUME Books, NEW acc, LiquidationWalk(acc),
         NEW b \in ActiveTroves, b \notin acc.closed,
         NEW v, v # ZeroVals => v.gas = USDE_GAS_COMPENSATION
  PROVE  LiquidationWalk(Closing(acc, b, v))
<1> DEFINE next == [acc EXCEPT !.left = @ - v.offset,
                               !.closed = @ \cup {b},
                               !.owners = OwnersWithout(acc.owners, acc.index, b),
                               !.index = IndexWithout(acc.owners, acc.index, b),
                               !.list = Without(@, b),
                               !.surplus[b] = Plus(@, v.surplus),
                               !.totals = AddVals(@, v)]
<1>1. CASE v = ZeroVals
  BY <1>1 DEF Closing
<1>2. CASE v # ZeroVals /\ ~MayClose(acc.owners, acc.list)
  <2>1. Closing(acc, b, v) = [acc EXCEPT !.reverted = TRUE]
    BY <1>2 DEF Closing
  <2> QED BY <2>1 DEF LiquidationWalk
<1>3. CASE v # ZeroVals /\ MayClose(acc.owners, acc.list)
  <2>1. Closing(acc, b, v) = next
    BY <1>3 DEF Closing
  <2>2. /\ DOMAIN next = DOMAIN acc
        /\ next.closed = acc.closed \cup {b}
        /\ next.owners = OwnersWithout(acc.owners, acc.index, b)
        /\ next.index = IndexWithout(acc.owners, acc.index, b)
        /\ next.list = Without(acc.list, b)
        /\ next.totals = AddVals(acc.totals, v)
    BY DEF LiquidationWalk
  <2> HIDE DEF next
  <2>3. next.totals.gas = acc.totals.gas + USDE_GAS_COMPENSATION
    BY <1>3, <2>2 DEF AddVals
  <2>4. BooksOf(acc.closed \cup {b}, OwnersWithout(acc.owners, acc.index, b),
                IndexWithout(acc.owners, acc.index, b), Without(acc.list, b),
                acc.totals.gas + USDE_GAS_COMPENSATION)
    BY <1>3, ClosingKeepsBooks DEF LiquidationWalk
  <2> QED BY <2>1, <2>2, <2>3, <2>4 DEF LiquidationWalk
<1> QED BY <1>1, <1>2, <1>3

LEMMA ProcessKeepsWalk ==
  ASSUME Books, NEW acc, LiquidationWalk(acc), NEW b \in Borrowers, NEW stop
  PROVE  LiquidationWalk(Process(acc, b, stop))
<1>1. CASE acc.reverted \/ acc.stopped
  BY <1>1 DEF Process
<1>2. CASE ~(acc.reverted \/ acc.stopped) /\ Spared(acc, b)
  <2>1. Process(acc, b, stop) = [acc EXCEPT !.stopped = stop]
    BY <1>2 DEF Process
  <2> QED BY <2>1 DEF LiquidationWalk
<1>3. CASE ~(acc.reverted \/ acc.stopped) /\ ~Spared(acc, b)
  <2>1. b \in ActiveTroves /\ b \notin acc.closed
    BY <1>3 DEF Spared, ActiveTroves
  <2>2. CASE acc.normal
    <3>1. LiquidationWalk(Closing(acc, b, FullVals(b, acc.left)))
      BY <2>1, ValsTakeReserve, ClosingKeepsWalk
    <3> QED BY <1>3, <2>2, <3>1 DEF Process
  <2>3. CASE ~acc.normal
    <3> DEFINE next == Closing(acc, b, RecoveryVals(acc, b))
    <3>1. LiquidationWalk(next)
      BY <2>1, ValsTakeReserve, ClosingKeepsWalk
    <3>2. Process(acc, b, stop) = Tracked(next, RecoveryVals(acc, b))
      BY <1>3, <2>3 DEF Process
    <3> HIDE DEF next
    <3>3. LiquidationWalk(Tracked(next, RecoveryVals(acc, b)))
      BY <3>1 DEF Tracked, LiquidationWalk
    <3> QED BY <3>2, <3>3
  <2> QED BY <2>2, <2>3
<1> QED BY <1>1, <1>2, <1>3

LEMMA RunOverKeepsWalk ==
  ASSUME Books, NEW owners, Len(owners) \in Nat,
         \A i \in 1..Len(owners) : owners[i] \in Borrowers, NEW stop
  PROVE  LiquidationWalk(RunOver(owners, stop))
<1> DEFINE n == Len(owners)
<1>1. PICK run : /\ run = [i \in 0..n |-> IF i = 0 THEN Start
                                          ELSE Process(run[i - 1], owners[i], stop)]
                 /\ RunOver(owners, stop) = run[n]
  BY RunOverStep
<1> HIDE DEF n
<1> DEFINE T == {i \in 0..n : LiquidationWalk(run[i])}
<1>2. n \in Nat /\ \A i \in 1..n : owners[i] \in Borrowers
  BY DEF n
<1>3. 0 \in T
  <2>1. run[0] = Start
    BY <1>1, <1>2
  <2> QED BY <1>2, <2>1, StartsAsLiquidationWalk
<1>4. ASSUME NEW i \in 0..(n - 1), i \in T
      PROVE  i + 1 \in T
  <2>1. i + 1 \in 1..n /\ i + 1 \in 0..n /\ (i + 1) - 1 = i /\ i + 1 # 0
    BY <1>2
  <2>2. run[i + 1] = Process(run[i], owners[i + 1], stop)
    BY <1>1, <2>1
  <2>3. LiquidationWalk(run[i]) /\ owners[i + 1] \in Borrowers
    BY <1>2, <1>4, <2>1
  <2> QED BY <2>1, <2>2, <2>3, ProcessKeepsWalk
<1> HIDE DEF T
<1>5. 0..n \subseteq T
  BY <1>2, <1>3, <1>4, SetInduction
<1> QED BY <1>1, <1>2, <1>5 DEF T

-----------------------------------------------------------------------------
(* Liquidations.                                                           *)

\* What a transaction may do to the books.
BooksStep == Books' /\ (TroveOwners # <<>> => TroveOwners' # <<>>)

LEMMA SettleKeepsBooks ==
  ASSUME Books, NEW acc, LiquidationWalk(acc), Settle(acc)
  PROVE  BooksStep
<1>1. /\ status' = [b \in Borrowers |->
                      IF b \in acc.closed THEN "closedByLiquidation" ELSE status[b]]
      /\ TroveOwners' = acc.owners /\ arrayIndex' = acc.index /\ list' = acc.list
      /\ recorded' = RecordedBut(acc.closed)
      /\ gasPool' = gasPool - acc.totals.gas
      /\ USDE_GAS_COMPENSATION' = USDE_GAS_COMPENSATION
  BY DEF Settle, envVars, RecordedBut
<1>2. BooksOf(acc.closed, TroveOwners', arrayIndex', acc.list, acc.totals.gas)
  BY <1>1 DEF LiquidationWalk
<1>3. OrderedBy(list', recorded')
  BY <1>1, <1>2 DEF BooksOf
<1>4. "closedByLiquidation" \in Statuses /\ "closedByLiquidation" # "active"
  BY DEF Statuses
<1> QED BY <1>1, <1>2, <1>3, <1>4, SettlingKeepsBooks DEF BooksStep

LEMMA BatchLiquidateKeepsBooks ==
  ASSUME Books, NEW S \in SUBSET Borrowers, NEW owners \in SetToSeqs(S), BatchLiquidate(owners)
  PROVE  BooksStep
<1>1. Cardinality(S) \in Nat
  BY TroveManagerAssumption, FS_Subset, FS_CardinalityType
<1>2. owners \in [1..Cardinality(S) -> S]
  BY DEF SetToSeqs
<1>3. owners \in Seq(S) /\ Len(owners) = Cardinality(S)
  BY <1>1, <1>2, SeqDef
<1>4. \A i \in 1..Len(owners) : owners[i] \in Borrowers
  BY <1>2, <1>3
<1>5. LiquidationWalk(RunOver(owners, FALSE))
  BY <1>1, <1>3, <1>4, RunOverKeepsWalk
<1> QED BY <1>5, SettleKeepsBooks DEF BatchLiquidate

LEMMA LiquidateTrovesKeepsBooks ==
  ASSUME Books, NEW n \in Nat, LiquidateTroves(n)
  PROVE  BooksStep
<1> DEFINE met == IF RecoveryMode THEN Tail(list) ELSE list
           upwards == Reverse(met)
           m == MinOf(n, Len(upwards))
           owners == SubSeq(upwards, 1, m)
<1>1. list \in Seq(Borrowers) /\ list # <<>>
  BY DEF Books, OrderedList, OrderedBy, Borrowers, LiquidateTroves
<1>2. met \in Seq(Borrowers)
  BY <1>1, HeadTailProperties
<1> HIDE DEF met
<1>3. Len(met) \in Nat /\ \A i \in 1..Len(met) : met[i] \in Borrowers
  BY <1>2, LenProperties
<1>4. upwards \in [1..Len(met) -> Borrowers]
  BY <1>3 DEF Reverse
<1>5. Len(upwards) = Len(met) /\ \A i \in 1..Len(met) : upwards[i] \in Borrowers
  <2>1. upwards \in Seq(Borrowers)
    BY <1>3, <1>4, SeqDef
  <2> QED BY <1>3, <1>4, <2>1, LenProperties
<1> HIDE DEF upwards
<1>6. m \in Nat /\ m <= Len(met)
  BY <1>3, <1>5 DEF MinOf
<1> HIDE DEF m
<1>7. owners \in Seq(Borrowers)
  BY <1>3, <1>5, <1>6, SubSeqProperties
<1> HIDE DEF owners
<1>8. Len(owners) \in Nat /\ \A i \in 1..Len(owners) : owners[i] \in Borrowers
  BY <1>7, LenProperties
<1>9. LiquidationWalk(RunOver(owners, TRUE))
  BY <1>8, RunOverKeepsWalk
<1>10. Settle(RunOver(owners, TRUE))
  BY DEF LiquidateTroves, owners, m, upwards, met
<1> QED BY <1>9, <1>10, SettleKeepsBooks

-----------------------------------------------------------------------------
(* Redemptions.                                                            *)

\* What every step of a redemption's walk keeps, after it met some troves.
RedemptionWalk(acc, met) ==
  /\ DOMAIN acc = {"left", "redeemed", "drawn", "gas", "pendDebt", "pendColl", "touched",
                   "closed", "partial", "newICR", "cancelled", "reverted", "owners",
                   "index", "list", "troveDebt", "eToken", "surplus", "stakes", "pooled"}
  /\ BooksOf(acc.closed, acc.owners, acc.index, acc.list, acc.gas)
  /\ met \subseteq ActiveTroves
  /\ acc.closed \subseteq met
  /\ acc.partial \subseteq met \ acc.closed
  /\ \A b, c \in acc.partial : b = c
  /\ acc.partial # {} => acc.newICR # 0

LEMMA StartsAsRedemptionWalk ==
  ASSUME Books, NEW amount
  PROVE  RedemptionWalk(NothingRedeemed(amount), {})
<1> DEFINE acc == NothingRedeemed(amount)
<1>1. BooksOf({}, TroveOwners, arrayIndex, list, 0)
  BY BooksAtStart
<1>2. /\ DOMAIN acc = {"left", "redeemed", "drawn", "gas", "pendDebt", "pendColl", "touched",
                       "closed", "partial", "newICR", "cancelled", "reverted", "owners",
                       "index", "list", "troveDebt", "eToken", "surplus", "stakes", "pooled"}
      /\ acc.closed = {} /\ acc.owners = TroveOwners /\ acc.index = arrayIndex
      /\ acc.list = list /\ acc.gas = 0 /\ acc.partial = {}
  BY DEF NothingRedeemed
<1> HIDE DEF acc
<1>3. RedemptionWalk(acc, {})
  BY <1>1, <1>2 DEF RedemptionWalk
<1> QED BY <1>3 DEF acc

\* The rewards a trove receives when it is met concern its amounts only.
LEMMA MeetingKeepsWalk ==
  ASSUME NEW met, NEW acc, RedemptionWalk(acc, met), NEW b, NEW lot, NEW drawn
  PROVE  /\ RedemptionWalk(Met(acc, b), met)
         /\ RedemptionWalk(Exchanged(Met(acc, b), lot, drawn), met)
<1>1. RedemptionWalk(Met(acc, b), met)
  BY DEF Met, RedemptionWalk
<1> DEFINE next == Met(acc, b)
<1> HIDE DEF next
<1>2. RedemptionWalk(next, met)
  BY <1>1 DEF next
<1>3. RedemptionWalk(Exchanged(next, lot, drawn), met)
  BY <1>2 DEF Exchanged, RedemptionWalk
<1> QED BY <1>1, <1>3 DEF next

LEMMA FullRedemptionKeepsWalk ==
  ASSUME Books, NEW met, NEW acc, RedemptionWalk(acc, met),
         NEW b \in ActiveTroves, b \notin met, NEW remains
  PROVE  RedemptionWalk(RedeemedInFull(acc, b, remains), met \cup {b})
<1> DEFINE next == [acc EXCEPT !.closed = @ \cup {b},
                     !.gas = @ + USDE_GAS_COMPENSATION,
                     !.owners = OwnersWithout(acc.owners, acc.index, b),
                     !.index = IndexWithout(acc.owners, acc.index, b),
                     !.list = Without(@, b),
                     !.troveDebt[b] = 0,
                     !.eToken[b] = Zeros,
                     !.stakes[b] = Zeros,
                     !.surplus[b] = Plus(@, remains),
                     !.pooled = Minus(@, remains)]
<1>1. CASE ~MayClose(acc.owners, acc.list) \/ ~PayableToPools(remains, acc.pooled)
  <2>1. RedeemedInFull(acc, b, remains) = [acc EXCEPT !.reverted = TRUE]
    BY <1>1 DEF RedeemedInFull
  <2> QED BY <2>1 DEF RedemptionWalk
<1>2. CASE MayClose(acc.owners, acc.list) /\ PayableToPools(remains, acc.pooled)
  <2>1. RedeemedInFull(acc, b, remains) = next
    BY <1>2 DEF RedeemedInFull
  <2>2. /\ DOMAIN next = DOMAIN acc
        /\ next.closed = acc.closed \cup {b}
        /\ next.owners = OwnersWithout(acc.owners, acc.index, b)
        /\ next.index = IndexWithout(acc.owners, acc.index, b)
        /\ next.list = Without(acc.list, b)
        /\ next.gas = acc.gas + USDE_GAS_COMPENSATION
        /\ next.partial = acc.partial /\ next.newICR = acc.newICR
    BY DEF RedemptionWalk
  <2> HIDE DEF next
  <2>3. BooksOf(acc.closed \cup {b}, OwnersWithout(acc.owners, acc.index, b),
                IndexWithout(acc.owners, acc.index, b), Without(acc.list, b),
                acc.gas + USDE_GAS_COMPENSATION)
    BY <1>2, ClosingKeepsBooks DEF RedemptionWalk
  <2>4. RedemptionWalk(next, met \cup {b})
    BY <2>2, <2>3 DEF RedemptionWalk
  <2> QED BY <2>1, <2>4
<1> QED BY <1>1, <1>2

LEMMA PartialRedemptionKeepsWalk ==
  ASSUME NEW met, NEW acc, RedemptionWalk(acc, met), NEW b \in ActiveTroves, b \notin met,
         NEW lot, NEW remains, NEW newICR
  PROVE  RedemptionWalk(RedeemedInPart(acc, b, lot, remains, newICR), met \cup {b})
<1> DEFINE coll == ResetEToken(acc.eToken[b], remains)
           next == [acc EXCEPT !.partial = {b},
                       !.newICR = newICR,
                       !.troveDebt[b] = @ - lot,
                       !.eToken[b] = coll,
                       !.stakes[b] = NewStakes(coll)]
<1>1. CASE newICR = 0 \/ ~StakeComputable
  <2>1. RedeemedInPart(acc, b, lot, remains, newICR) = [acc EXCEPT !.reverted = TRUE]
    BY <1>1 DEF RedeemedInPart
  <2> QED BY <2>1 DEF RedemptionWalk
<1>2. CASE newICR # 0 /\ StakeComputable
  <2>1. RedeemedInPart(acc, b, lot, remains, newICR) = next
    BY <1>2 DEF RedeemedInPart
  <2>2. /\ DOMAIN next = DOMAIN acc
        /\ next.closed = acc.closed /\ next.owners = acc.owners /\ next.index = acc.index
        /\ next.list = acc.list /\ next.gas = acc.gas
        /\ next.partial = {b} /\ next.newICR = newICR
    BY DEF RedemptionWalk
  <2> HIDE DEF next
  <2>3. RedemptionWalk(next, met \cup {b})
    BY <1>2, <2>2 DEF RedemptionWalk
  <2> QED BY <2>1, <2>3
<1> QED BY <1>1, <1>2

LEMMA MoreMetKeepsWalk ==
  ASSUME NEW met, NEW acc, RedemptionWalk(acc, met), NEW b \in ActiveTroves
  PROVE  RedemptionWalk(acc, met \cup {b})
BY DEF RedemptionWalk

LEMMA RedeemStepKeepsWalk ==
  ASSUME Books, NEW met, NEW acc, RedemptionWalk(acc, met),
         NEW b \in ActiveTroves, b \notin met, NEW hintFresh
  PROVE  RedemptionWalk(RedeemStep(acc, b, hintFresh), met \cup {b})
<1> DEFINE after == Met(acc, b)
           lot == MinOf(acc.left, after.troveDebt[b])
           drawn == Drawn(after.eToken[b], lot)
           remains == Minus(after.eToken[b], drawn)
           newNet == after.troveDebt[b] - lot
           newICR == ComputeCR(ValueOf(remains), newNet + USDE_GAS_COMPENSATION)
           exchanged == Exchanged(after, lot, drawn)
<1>1. CASE acc.left = 0 \/ acc.cancelled \/ acc.reverted
  BY <1>1, MoreMetKeepsWalk DEF RedeemStep
<1>2. CASE ~(acc.left = 0 \/ acc.cancelled \/ acc.reverted)
  <2>1. RedeemStep(acc, b, hintFresh) =
          IF newNet = 0 THEN RedeemedInFull(exchanged, b, remains)
          ELSE IF ~hintFresh \/ newNet < MIN_NET_DEBT THEN [after EXCEPT !.cancelled = TRUE]
          ELSE RedeemedInPart(exchanged, b, lot, remains, newICR)
    BY <1>2 DEF RedeemStep, RedeemFrom
  <2>2. RedemptionWalk(after, met) /\ RedemptionWalk(exchanged, met)
    BY MeetingKeepsWalk
  <2> HIDE DEF after, lot, drawn, remains, newNet, newICR, exchanged
  <2>3. RedemptionWalk(RedeemedInFull(exchanged, b, remains), met \cup {b})
    BY <2>2, FullRedemptionKeepsWalk
  <2>4. RedemptionWalk(RedeemedInPart(exchanged, b, lot, remains, newICR), met \cup {b})
    BY <2>2, PartialRedemptionKeepsWalk
  <2>5. RedemptionWalk([after EXCEPT !.cancelled = TRUE], met \cup {b})
    <3>1. RedemptionWalk([after EXCEPT !.cancelled = TRUE], met)
      BY <2>2 DEF RedemptionWalk
    <3> QED BY <3>1, MoreMetKeepsWalk
  <2> QED BY <2>1, <2>3, <2>4, <2>5
<1> QED BY <1>1, <1>2

\* The walk of a redemption is the function its definition asks for.
LEMMA RedeemAlongStep ==
  ASSUME NEW path, Len(path) \in Nat, NEW amount, NEW hintFresh
  PROVE  \E run : /\ run = [i \in 0..Len(path) |->
                              IF i = 0 THEN NothingRedeemed(amount) ELSE RedeemStep(run[i - 1], path[i], hintFresh)]
                  /\ RedeemAlong(path, amount, hintFresh) = run[Len(path)]
<1> DEFINE n == Len(path)
           Run(g, k) == g = [i \in 0..k |->
                              IF i = 0 THEN NothingRedeemed(amount) ELSE RedeemStep(g[i - 1], path[i], hintFresh)]
           Runs(k) == \E g : Run(g, k)
           T == {k \in 0..n : Runs(k)}
<1>1. Runs(0)
  <2>1. Run([i \in 0..0 |-> NothingRedeemed(amount)], 0)
    OBVIOUS
  <2> QED BY <2>1
<1>2. ASSUME NEW k \in 0..(n - 1), Runs(k)
      PROVE  Runs(k + 1)
  <2>1. PICK g : Run(g, k)
    BY <1>2
  <2> DEFINE h == [i \in 0..(k + 1) |->
                     IF i <= k THEN g[i] ELSE RedeemStep(g[k], path[k + 1], hintFresh)]
  <2>2. \A i \in 0..(k + 1) :
          h[i] = IF i = 0 THEN NothingRedeemed(amount) ELSE RedeemStep(h[i - 1], path[i], hintFresh)
    <3> TAKE i \in 0..(k + 1)
    <3>1. CASE i = 0
      BY <2>1, <3>1
    <3>2. CASE i # 0 /\ i <= k
      BY <2>1, <3>2
    <3>3. CASE i = k + 1
      BY <2>1, <3>3
    <3> QED BY <3>1, <3>2, <3>3
  <2>3. Run(h, k + 1)
    BY <2>2
  <2> QED BY <2>3
<1>3. Runs(n)
  <2> HIDE DEF Runs
  <2>1. 0 \in T /\ \A k \in 0..(n - 1) : k \in T => k + 1 \in T
    BY <1>1, <1>2
  <2> HIDE DEF T
  <2>2. 0..n \subseteq T
    <3> n \in Nat
      OBVIOUS
    <3> HIDE DEF n, Run
    <3> QED BY <2>1, SetInduction
  <2>3. n \in T
    BY <2>2
  <2> QED BY <2>3 DEF T
<1>4. Run(CHOOSE g : Run(g, n), n)
  BY <1>3
<1> QED BY <1>4 DEF RedeemAlong

\* Nobody is met twice on a path of distinct owners.
LEMMA RedeemAlongKeepsWalk ==
  ASSUME Books, NEW path, Len(path) \in Nat,
         \A i \in 1..Len(path) : path[i] \in ActiveTroves,
         \A i, j \in 1..Len(path) : path[i] = path[j] => i = j,
         NEW amount, NEW hintFresh
  PROVE  \E met : RedemptionWalk(RedeemAlong(path, amount, hintFresh), met)
<1> DEFINE n == Len(path)
<1>1. PICK run : /\ run = [i \in 0..n |-> IF i = 0 THEN NothingRedeemed(amount)
                                          ELSE RedeemStep(run[i - 1], path[i], hintFresh)]
                 /\ RedeemAlong(path, amount, hintFresh) = run[n]
  BY RedeemAlongStep
<1> HIDE DEF n
<1> DEFINE met(i) == {path[j] : j \in 1..i}
           T == {i \in 0..n : RedemptionWalk(run[i], met(i))}
<1>2. /\ n \in Nat /\ \A i \in 1..n : path[i] \in ActiveTroves
      /\ \A i, j \in 1..n : path[i] = path[j] => i = j
  BY DEF n
<1>3. 0 \in T
  <2>1. run[0] = NothingRedeemed(amount) /\ met(0) = {}
    BY <1>1, <1>2
  <2> QED BY <1>2, <2>1, StartsAsRedemptionWalk
<1>4. ASSUME NEW i \in 0..(n - 1), i \in T
      PROVE  i + 1 \in T
  <2>1. i + 1 \in 1..n /\ i + 1 \in 0..n /\ (i + 1) - 1 = i /\ i + 1 # 0
    BY <1>2
  <2>2. run[i + 1] = RedeemStep(run[i], path[i + 1], hintFresh)
    BY <1>1, <2>1
  <2>3. met(i + 1) = met(i) \cup {path[i + 1]}
    BY <1>2, <2>1
  <2>4. path[i + 1] \in ActiveTroves /\ path[i + 1] \notin met(i)
    BY <1>2, <2>1
  <2>5. RedemptionWalk(run[i], met(i))
    BY <1>4
  <2> HIDE DEF met
  <2>6. RedemptionWalk(run[i + 1], met(i + 1))
    BY <2>2, <2>3, <2>4, <2>5, RedeemStepKeepsWalk
  <2> QED BY <2>1, <2>6
<1> HIDE DEF met, T
<1>5. n \in T
  <2>1. 0..n \subseteq T
    BY <1>2, <1>3, <1>4, SetInduction
  <2> QED BY <1>2, <2>1
<1>6. RedemptionWalk(run[n], met(n))
  BY <1>5 DEF T
<1> QED BY <1>1, <1>6

\* The owners met going up the list from a position are open and distinct.
LEMMA PathIsDistinct ==
  ASSUME Books, NEW p \in 1..Len(list), NEW n \in Nat
  PROVE  /\ Len(PathFrom(p, n)) \in Nat
         /\ \A i \in 1..Len(PathFrom(p, n)) : PathFrom(p, n)[i] \in ActiveTroves
         /\ \A i, j \in 1..Len(PathFrom(p, n)) :
              PathFrom(p, n)[i] = PathFrom(p, n)[j] => i = j
<1> DEFINE m == MinOf(n, p)
           path == PathFrom(p, n)
<1>1. /\ list \in Seq(Borrowers) /\ Len(list) \in Nat /\ DOMAIN list = 1..Len(list)
      /\ \A i \in 1..Len(list) : list[i] \in ActiveTroves
      /\ \A i, j \in 1..Len(list) : list[i] = list[j] => i = j
  <2>1. list \in Seq(Ids) /\ IsInjective(list)
    BY DEF Books, OrderedList, OrderedBy
  <2> QED BY <2>1, LenProperties, ListedAreIds DEF Books, Borrowers, IsInjective
<1>2. m \in Nat /\ m <= p
  BY <1>1 DEF MinOf
<1>3. path = [i \in 1..m |-> list[p + 1 - i]]
  BY DEF PathFrom
<1> HIDE DEF m, path
<1>4. \A i \in 1..m : p + 1 - i \in 1..Len(list)
  BY <1>1, <1>2
<1>5. path \in [1..m -> ActiveTroves]
  BY <1>1, <1>3, <1>4
<1>6. Len(path) = m
  BY <1>2, <1>5, SeqDef, LenProperties
<1>7. \A i, j \in 1..m : path[i] = path[j] => i = j
  <2> TAKE i, j \in 1..m
  <2>1. path[i] = list[p + 1 - i] /\ path[j] = list[p + 1 - j]
    BY <1>3
  <2>2. path[i] = path[j] => p + 1 - i = p + 1 - j
    BY <1>1, <1>4, <2>1
  <2> QED BY <1>2, <2>2
<1> QED BY <1>2, <1>5, <1>6, <1>7 DEF path

LEMMA SettleRedemptionKeepsBooks ==
  ASSUME Books, NEW met, NEW acc, RedemptionWalk(acc, met), NEW rate,
         SettleRedemption(acc, rate)
  PROVE  BooksStep
<1> DEFINE closed == acc.closed
           partial == acc.partial
           newICR == acc.newICR
           l == acc.list
<1>1. /\ status' = [b \in Borrowers |-> IF b \in closed THEN "closedByRedemption" ELSE status[b]]
      /\ TroveOwners' = acc.owners /\ arrayIndex' = acc.index
      /\ list' \in IF partial = {} THEN {l}
                   ELSE UNION {Replacements(l, recorded, b, newICR) : b \in partial}
      /\ recorded' = [b \in Borrowers |-> IF b \in closed THEN 0
                                          ELSE IF b \in partial THEN newICR
                                          ELSE recorded[b]]
      /\ gasPool' = gasPool - acc.gas
      /\ USDE_GAS_COMPENSATION' = USDE_GAS_COMPENSATION
  BY DEF SettleRedemption, envVars
<1>2. /\ BooksOf(closed, TroveOwners', arrayIndex', l, acc.gas)
      /\ met \subseteq ActiveTroves /\ closed \subseteq met /\ partial \subseteq met \ closed
      /\ \A b, c \in partial : b = c
      /\ partial # {} => newICR # 0
  BY <1>1 DEF RedemptionWalk
<1> HIDE DEF closed, partial, newICR, l
<1>3. OrderedBy(l, RecordedBut(closed)) /\ l \in Seq(Ids)
  BY <1>2 DEF BooksOf, OrderedBy
<1>4. ToSet(list') = ToSet(l) /\ OrderedBy(list', recorded')
  <2>1. CASE partial = {}
    <3>1. list' = l /\ recorded' = RecordedBut(closed)
      BY <1>1, <2>1 DEF RecordedBut
    <3> QED BY <1>3, <3>1
  <2>2. CASE partial # {}
    <3>1. PICK b \in partial : list' \in Replacements(l, recorded, b, newICR)
      BY <1>1, <2>2
    <3>2. b \in Ids /\ b \in ActiveTroves /\ b \notin closed /\ newICR # 0
      BY <1>2, <2>2 DEF ActiveTroves, Borrowers
    <3>3. b \in ToSet(l)
      <4>1. recorded[b] # 0
        BY <3>2 DEF Books, OrderedList, OrderedBy
      <4>2. RecordedBut(closed)[b] # 0
        BY <3>2, <4>1 DEF RecordedBut, Borrowers
      <4> QED BY <1>3, <3>2, <4>2 DEF OrderedBy
    <3>4. \A x \in ToSet(l) : recorded[x] = RecordedBut(closed)[x]
      <4>1. \A x \in ToSet(l) : x \in Ids /\ RecordedBut(closed)[x] # 0
        BY <1>3, ListedAreIds DEF OrderedBy
      <4> QED BY <4>1 DEF RecordedBut, Borrowers
    <3>5. list' \in Replacements(l, RecordedBut(closed), b, newICR)
      BY <1>3, <3>1, <3>3, <3>4, ReplacementsBySameICRs DEF OrderedBy
    <3>6. /\ OrderedBy(list', [RecordedBut(closed) EXCEPT ![b] = newICR])
          /\ ToSet(list') = ToSet(l)
      BY <1>3, <3>2, <3>3, <3>5, ReplacementKeepsOrder
    <3>7. recorded' = [RecordedBut(closed) EXCEPT ![b] = newICR]
      BY <1>1, <1>2, <3>2 DEF RecordedBut, Borrowers
    <3> QED BY <3>6, <3>7
  <2> QED BY <2>1, <2>2
<1>5. "closedByRedemption" \in Statuses /\ "closedByRedemption" # "active"
  BY DEF Statuses
<1> QED BY <1>1, <1>2, <1>4, <1>5, SettlingKeepsBooks DEF BooksStep

LEMMA RedeemCollateralKeepsBooks ==
  ASSUME Books, NEW amount, NEW p \in DOMAIN list, NEW n \in Nat, NEW hintFresh, NEW rate,
         RedeemCollateral(amount, p, n, hintFresh, rate)
  PROVE  BooksStep
<1>1. p \in 1..Len(list)
  BY LenProperties DEF Books, OrderedList, OrderedBy
<1>2. SettleRedemption(RedeemAlong(PathFrom(p, n), amount, hintFresh), rate)
  BY DEF RedeemCollateral
<1>3. PICK met : RedemptionWalk(RedeemAlong(PathFrom(p, n), amount, hintFresh), met)
  BY <1>1, PathIsDistinct, RedeemAlongKeepsWalk
<1> QED BY <1>2, <1>3, SettleRedemptionKeepsBooks

-----------------------------------------------------------------------------
(* The calls of borrowers, and the environment.                            *)

LEMMA OtherStepKeepsBooks ==
  ASSUME Books, UNCHANGED <<troveVars, gasPool, USDE_GAS_COMPENSATION>>
  PROVE  BooksStep
BY DEF troveVars, sortedVars, BooksStep, Books, OrderedList, ReservesComplete, ActiveTroves,
       IsActive

LEMMA ReInsertKeepsBooks ==
  ASSUME Books, NEW b \in Borrowers, NEW icr, ReInsertSorted(b, icr),
         UNCHANGED <<status, TroveOwners, arrayIndex, gasPool, USDE_GAS_COMPENSATION>>
  PROVE  BooksStep
<1>1. OrderedList' /\ ToSet(list') = ToSet(list)
  BY ReInsertKeepsOrder DEF Books, Borrowers
<1> QED BY <1>1 DEF BooksStep, Books, ReservesComplete, ActiveTroves, IsActive

LEMMA OpenTroveKeepsBooks ==
  ASSUME Books, NEW b \in Borrowers, NEW coll, NEW amount, NEW rate,
         OpenTrove(b, coll, amount, rate)
  PROVE  BooksStep
<1> DEFINE n == Len(TroveOwners)
<1>1. /\ ~IsActive(b)
      /\ status' = [status EXCEPT ![b] = "active"]
      /\ TroveOwners' = Append(TroveOwners, b)
      /\ arrayIndex' = [arrayIndex EXCEPT ![b] = n]
      /\ gasPool' = gasPool + USDE_GAS_COMPENSATION
      /\ USDE_GAS_COMPENSATION' = USDE_GAS_COMPENSATION
  BY DEF OpenTrove, envVars
<1>2. PICK icr : InsertSorted(b, icr)
  BY DEF OpenTrove
<1>3. OrderedList' /\ ToSet(list') = ToSet(list) \cup {b}
  BY <1>2, InsertKeepsOrder DEF Books, Borrowers
<1>4. ActiveTroves' = ActiveTroves \cup {b}
  BY <1>1 DEF Books, ActiveTroves, IsActive
<1>5. /\ TroveOwners \in Seq(Borrowers) /\ n \in Nat /\ DOMAIN TroveOwners = 1..n
      /\ \A i \in 1..n : /\ TroveOwners[i] \in Borrowers /\ TroveOwners[i] # b
                         /\ arrayIndex[TroveOwners[i]] = i - 1
      /\ \A i, j \in 1..n : TroveOwners[i] = TroveOwners[j] => i = j
      /\ DOMAIN arrayIndex = Borrowers
  <2>1. b \notin ToSet(TroveOwners)
    BY <1>1 DEF Books, ActiveTroves
  <2> QED BY <2>1, LenProperties DEF Books, Indexed, IsInjective, ToSet
<1>6. /\ TroveOwners' \in Seq(Borrowers) /\ Len(TroveOwners') = n + 1
      /\ \A i \in 1..n : TroveOwners'[i] = TroveOwners[i]
      /\ TroveOwners'[n + 1] = b
  BY <1>1, <1>5, AppendProperties
<1> HIDE DEF n
<1>7. DOMAIN TroveOwners' = 1..(n + 1)
  BY <1>6, LenProperties
<1>8. Indexed(TroveOwners', arrayIndex')
  <2>1. \A i \in 1..(n + 1) : arrayIndex'[TroveOwners'[i]] = i - 1
    BY <1>1, <1>5, <1>6
  <2>2. \A i, j \in 1..(n + 1) : TroveOwners'[i] = TroveOwners'[j] => i = j
    BY <1>5, <1>6
  <2>3. DOMAIN arrayIndex' = Borrowers
    BY <1>1, <1>5
  <2> QED BY <1>6, <1>7, <2>1, <2>2, <2>3 DEF Indexed, IsInjective
<1>9. ToSet(TroveOwners') = ActiveTroves'
  <2>1. ToSet(TroveOwners') = ToSet(TroveOwners) \cup {b}
    BY <1>5, <1>6, <1>7 DEF ToSet
  <2> QED BY <1>4, <2>1 DEF Books
<1>10. ReservesComplete'
  <2>1. (n + 1) * USDE_GAS_COMPENSATION = n * USDE_GAS_COMPENSATION + USDE_GAS_COMPENSATION
    BY <1>5, GasIsNat
  <2> QED BY <1>1, <1>6, <2>1 DEF Books, ReservesComplete, n
<1>11. TroveOwners' # <<>>
  BY <1>1, <1>5, AppendProperties
<1>12. DOMAIN status' = Borrowers
  BY <1>1 DEF Books
<1> QED BY <1>1, <1>3, <1>4, <1>8, <1>9, <1>10, <1>11, <1>12 DEF BooksStep, Books

LEMMA CloseTroveKeepsBooks ==
  ASSUME Books, NEW b \in Borrowers, CloseTrove(b)
  PROVE  BooksStep
<1>1. /\ IsActive(b) /\ MayClose(TroveOwners, list)
      /\ status' = [status EXCEPT ![b] = "closedByOwner"]
      /\ TroveOwners' = OwnersWithout(TroveOwners, arrayIndex, b)
      /\ arrayIndex' = IndexWithout(TroveOwners, arrayIndex, b)
      /\ RemoveSorted(b)
      /\ gasPool' = gasPool - USDE_GAS_COMPENSATION
      /\ USDE_GAS_COMPENSATION' = USDE_GAS_COMPENSATION
  BY DEF CloseTrove, envVars
<1>2. BooksOf({b}, TroveOwners', arrayIndex', Without(list, b), USDE_GAS_COMPENSATION)
  <2>1. BooksOf({}, TroveOwners, arrayIndex, list, 0)
    BY BooksAtStart
  <2>2. b \in ActiveTroves /\ b \notin {}
    BY <1>1 DEF ActiveTroves
  <2>3. BooksOf({} \cup {b}, TroveOwners', arrayIndex', Without(list, b), 0 + USDE_GAS_COMPENSATION)
    BY <1>1, <2>1, <2>2, ClosingKeepsBooks
  <2>4. {} \cup {b} = {b} /\ 0 + USDE_GAS_COMPENSATION = USDE_GAS_COMPENSATION
    BY GasIsNat
  <2> QED BY <2>3, <2>4
<1>3. list' = Without(list, b)
  BY <1>1 DEF RemoveSorted
<1>4. OrderedBy(list', recorded')
  BY <1>1, RemoveKeepsOrder DEF Books, Borrowers, OrderedList
<1>5. status' = [c \in Borrowers |-> IF c \in {b} THEN "closedByOwner" ELSE status[c]]
  BY <1>1 DEF Books
<1>6. "closedByOwner" \in Statuses /\ "closedByOwner" # "active"
  BY DEF Statuses
<1> QED BY <1>1, <1>2, <1>3, <1>4, <1>5, <1>6, SettlingKeepsBooks DEF BooksStep

LEMMA SetGasCompensationKeepsBooks ==
  ASSUME Books, NEW gas \in GasCompensations, SetGasCompensation(gas)
  PROVE  BooksStep
<1>1. /\ UNCHANGED troveVars
      /\ USDE_GAS_COMPENSATION' = gas
      /\ gasPool' = gasPool + (Len(TroveOwners) * gas - Len(TroveOwners) * USDE_GAS_COMPENSATION)
  BY DEF SetGasCompensation, ReserveChange
<1>2. Len(TroveOwners) \in Nat /\ gas \in Nat
  BY ERDAssumption, LenProperties DEF Books, Indexed
<1>3. Len(TroveOwners) * gas \in Int /\ Len(TroveOwners) * USDE_GAS_COMPENSATION \in Int
  BY <1>2, GasIsNat
<1>4. ReservesComplete'
  BY <1>1, <1>3 DEF Books, ReservesComplete, troveVars
<1> QED BY <1>1, <1>4 DEF BooksStep, Books, OrderedList, ActiveTroves, IsActive, troveVars,
                          sortedVars

LEMMA BorrowerCallKeepsBooks ==
  ASSUME Books, NEW b \in Borrowers, BorrowerCall(b)
  PROVE  BooksStep
<1>1. ASSUME NEW coll, NEW amount, NEW rate, OpenTrove(b, coll, amount, rate)
      PROVE  BooksStep
  BY <1>1, OpenTroveKeepsBooks
<1>2. ASSUME NEW in, NEW out, NEW change, NEW isIncrease, NEW rate,
             AdjustTrove(b, in, out, change, isIncrease, rate)
      PROVE  BooksStep
  <2>1. UNCHANGED <<status, TroveOwners, arrayIndex, gasPool, USDE_GAS_COMPENSATION>>
    BY <1>2 DEF AdjustTrove, envVars
  <2>2. PICK icr : ReInsertSorted(b, icr)
    BY <1>2 DEF AdjustTrove
  <2> QED BY <2>1, <2>2, ReInsertKeepsBooks
<1>3. CASE CloseTrove(b)
  BY <1>3, CloseTroveKeepsBooks
<1>4. CASE ClaimCollateral(b)
  BY <1>4, OtherStepKeepsBooks DEF ClaimCollateral, usdeVars, envVars
<1> QED BY <1>1, <1>2, <1>3, <1>4 DEF BorrowerCall

LEMMA UpdateTroveKeepsBooks ==
  ASSUME Books, NEW b \in Borrowers, UpdateTrove(b)
  PROVE  BooksStep
BY ReInsertKeepsBooks DEF UpdateTrove, usdeVars, envVars

LEMMA EnvironmentKeepsBooks ==
  ASSUME Books, Environment
  PROVE  BooksStep
<1>1. ASSUME NEW prices, SetPrice(prices)
      PROVE  BooksStep
  BY <1>1, OtherStepKeepsBooks DEF SetPrice, usdeVars
<1>2. ASSUME NEW amount, ProvideToSP(amount) \/ WithdrawFromSP(amount)
      PROVE  BooksStep
  BY <1>2, OtherStepKeepsBooks DEF ProvideToSP, WithdrawFromSP, MoveToStabilityPool, envVars
<1> QED BY <1>1, <1>2, SetGasCompensationKeepsBooks DEF Environment

-----------------------------------------------------------------------------
LEMMA InitBooks == Init => Books
<1> SUFFICES ASSUME Init PROVE Books
  OBVIOUS
<1>1. /\ status = [b \in Borrowers |-> "nonExistent"] /\ TroveOwners = <<>>
      /\ arrayIndex = [b \in Borrowers |-> 0] /\ gasPool = 0 /\ InitSorted
      /\ USDE_GAS_COMPENSATION \in GasCompensations
  BY DEF Init, InitTroveManager
<1>2. OrderedList /\ ToSet(list) = {}
  BY <1>1, InitIsOrdered
<1>3. ActiveTroves = {}
  BY <1>1 DEF ActiveTroves, IsActive
<1>4. Indexed(TroveOwners, arrayIndex) /\ ToSet(TroveOwners) = {} /\ Len(TroveOwners) = 0
  BY <1>1 DEF Indexed, ToSet, IsInjective
<1>5. ReservesComplete
  BY <1>1, <1>4, ERDAssumption DEF ReservesComplete
<1> QED BY <1>1, <1>2, <1>3, <1>4, <1>5 DEF Books

LEMMA NextKeepsBooks == Books /\ Next => BooksStep
<1> SUFFICES ASSUME Books, Next PROVE BooksStep
  OBVIOUS
<1>1. Cardinality(Borrowers) \in Nat
  BY TroveManagerAssumption, FS_CardinalityType
<1>2. CASE \E b \in Borrowers : BorrowerCall(b)
  BY <1>2, BorrowerCallKeepsBooks
<1>3. CASE Liquidation
  BY <1>1, <1>3, BatchLiquidateKeepsBooks, LiquidateTrovesKeepsBooks DEF Liquidation
<1>4. CASE Redemption
  BY <1>1, <1>4, RedeemCollateralKeepsBooks, UpdateTroveKeepsBooks, ERDAssumption DEF Redemption
<1>5. CASE Environment
  BY <1>5, EnvironmentKeepsBooks
<1> QED BY <1>2, <1>3, <1>4, <1>5 DEF Next

\* Whatever is called in whatever order, the books agree.
THEOREM BooksAlwaysAgree == Spec => []Books
<1>1. Books /\ [Next]_vars => Books'
  <2>1. CASE UNCHANGED vars
    BY <2>1, OtherStepKeepsBooks DEF vars, usdeVars, envVars, BooksStep
  <2> QED BY <2>1, NextKeepsBooks DEF BooksStep
<1> QED BY <1>1, InitBooks, PTL DEF Spec

\* TroveOwners, arrayIndex and status name the same troves after any number of
\* closes of any kind, batches included.
THEOREM OwnersAlwaysAgree == Spec => []OwnersAgree
<1>1. Books => OwnersAgree
  BY LenProperties DEF Books, Indexed, OwnersAgree
<1> QED BY <1>1, BooksAlwaysAgree, PTL

\* The list holds the open troves, ordered by the recorded ICRs.
THEOREM ListAlwaysSorted == Spec => []ListSorted
<1>1. Books => ListSorted
  BY ContainsIsIn DEF Books, OrderedList, OrderedBy, ListSorted, Borrowers
<1> QED BY <1>1, BooksAlwaysAgree, PTL

\* The GasPool holds one reserve per open trove, at today's amount.
THEOREM ReservesAlwaysComplete == Spec => []ReservesComplete
<1>1. Books => ReservesComplete
  BY DEF Books
<1> QED BY <1>1, BooksAlwaysAgree, PTL

\* No call closes the last trove.
THEOREM NeverEmptiedAgain == Spec => NeverEmptied
<1>1. Books /\ [Next]_vars => [TroveOwners # <<>> => TroveOwners' # <<>>]_vars
  BY NextKeepsBooks DEF BooksStep
<1> QED BY <1>1, BooksAlwaysAgree, PTL DEF Spec, NeverEmptied
=============================================================================
