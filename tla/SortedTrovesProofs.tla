------------------------- MODULE SortedTrovesProofs -------------------------
(***************************************************************************)
(* Theorems of the linked list with hints, for any owners, ICRs, maxSize,  *)
(* hints and order of the calls.  One fact carries them: there is a list l *)
(* of owners, each once, that the links of the struct describe in both     *)
(* directions and that is sorted by the ICRs in the nodes (Linked).  From  *)
(* it the walks of _findInsertPosition end, and end at a place where the   *)
(* new ICR fits; what _insert and _remove write there describes l with the *)
(* node put in, or taken out; and that is a call of the abstract list.     *)
(***************************************************************************)
EXTENDS SortedTroves, Induction, TLAPS

-----------------------------------------------------------------------------
(* The list that the links of a struct describe.                           *)

At(l, i) == IF i \in 1..Len(l) THEN l[i] ELSE NULL

DataType(d) ==
  d \in [head : Addresses, tail : Addresses, size : Nat, nodes : [Addresses -> Node]]

\* The owners of l are the nodes that exist, linked both ways in this order.
Chained(d, l) ==
  /\ d.size = Len(l) /\ d.head = At(l, 1) /\ d.tail = At(l, Len(l))
  /\ \A i \in 1..Len(l) : /\ d.nodes[l[i]].exists
                          /\ d.nodes[l[i]].nextId = At(l, i + 1)
                          /\ d.nodes[l[i]].prevId = At(l, i - 1)
                          /\ d.nodes[l[i]].ICR # 0
  /\ \A a \in Addresses : a \notin ToSet(l) => d.nodes[a] = NoNode

Ordered(d, l) == \A i, j \in 1..Len(l) : i < j => d.nodes[l[i]].ICR >= d.nodes[l[j]].ICR

Linked(d, l) == /\ l \in Seq(Ids) /\ IsInjective(l) /\ DataType(d)
                /\ Chained(d, l) /\ Ordered(d, l)

LEMMA NullIsNobody == NULL \notin Ids /\ Ids \subseteq Addresses /\ NULL \in Addresses
BY SortedTrovesAssumption DEF Addresses

LEMMA Members ==
  ASSUME NEW l \in Seq(Ids)
  PROVE  /\ Len(l) \in Nat /\ DOMAIN l = 1..Len(l) /\ NULL \notin ToSet(l) /\ ToSet(l) \subseteq Ids
         /\ \A i \in 1..Len(l) : l[i] \in Ids /\ l[i] # NULL /\ At(l, i) = l[i] /\ l[i] \in ToSet(l)
         /\ \A a \in ToSet(l) : \E i \in 1..Len(l) : l[i] = a
         /\ \A i \in Int : At(l, i) \in Addresses /\ (At(l, i) = NULL <=> i \notin 1..Len(l))
<1>1. /\ Len(l) \in Nat /\ DOMAIN l = 1..Len(l)
      /\ \A i \in 1..Len(l) : l[i] \in Ids
  BY LenProperties
<1>2. ToSet(l) = {l[i] : i \in 1..Len(l)}
  BY <1>1 DEF ToSet
<1>3. \A i \in 1..Len(l) : l[i] # NULL
  BY <1>1, NullIsNobody
<1> QED BY <1>1, <1>2, <1>3, NullIsNobody DEF At

LEMMA Fields ==
  ASSUME NEW d, DataType(d)
  PROVE  /\ d.head \in Addresses /\ d.tail \in Addresses /\ d.size \in Nat
         /\ DOMAIN d.nodes = Addresses
         /\ \A a \in Addresses : /\ d.nodes[a] \in Node
                                 /\ d.nodes[a].ICR \in Nat
                                 /\ d.nodes[a].exists \in BOOLEAN
                                 /\ d.nodes[a].nextId \in Addresses
                                 /\ d.nodes[a].prevId \in Addresses
BY DEF DataType, Node

LEMMA NodeOutside ==
  NoNode.exists = FALSE /\ NoNode.nextId = NULL /\ NoNode.prevId = NULL /\ NoNode.ICR = 0
BY DEF NoNode

\* What is in the list, and what links and ICRs are outside of it.
LEMMA InAndOut ==
  ASSUME NEW d, NEW l, Linked(d, l)
  PROVE  /\ \A a \in Addresses : Holds(d, a) <=> a \in ToSet(l)
         /\ \A a \in Addresses : d.nodes[a].ICR # 0 <=> a \in ToSet(l)
         /\ \A a \in Addresses : d.nodes[a].nextId # NULL => a \in ToSet(l)
         /\ \A a \in Addresses : d.nodes[a].prevId # NULL => a \in ToSet(l)
<1>1. /\ l \in Seq(Ids)
      /\ \A i \in 1..Len(l) : d.nodes[l[i]].exists /\ d.nodes[l[i]].ICR # 0
      /\ \A a \in Addresses : a \notin ToSet(l) => d.nodes[a] = NoNode
  BY DEF Linked, Chained
<1>2. \A a \in ToSet(l) : \E i \in 1..Len(l) : l[i] = a
  BY <1>1, Members
<1>3. \A a \in ToSet(l) : d.nodes[a].exists /\ d.nodes[a].ICR # 0
  BY <1>1, <1>2
<1> QED BY <1>1, <1>3, NodeOutside DEF Holds

-----------------------------------------------------------------------------
(* Where a node with a given ICR may stand, and that _findInsertPosition   *)
(* finds such a place from any hint.                                       *)

Place(d, l, icr, k) ==
  /\ k \in 1..(Len(l) + 1)
  /\ \A i \in 1..(k - 1) : d.nodes[l[i]].ICR >= icr
  /\ \A i \in k..Len(l) : icr >= d.nodes[l[i]].ICR

Lands(d, l, icr, pos) ==
  \E k \in 1..(Len(l) + 1) : Place(d, l, icr, k) /\ pos = <<At(l, k - 1), At(l, k)>>

\* Two neighbours around the ICR are a place for it, for the list is sorted.
LEMMA BetweenNeighbours ==
  ASSUME NEW d, NEW l, Linked(d, l), NEW icr \in Nat, NEW k \in 1..(Len(l) + 1),
         k > 1 => d.nodes[l[k - 1]].ICR >= icr,
         k <= Len(l) => icr >= d.nodes[l[k]].ICR
  PROVE  Place(d, l, icr, k)
<1>1. /\ l \in Seq(Ids) /\ DataType(d)
      /\ \A i, j \in 1..Len(l) : i < j => d.nodes[l[i]].ICR >= d.nodes[l[j]].ICR
  BY DEF Linked, Ordered
<1>2. Len(l) \in Nat /\ \A i \in 1..Len(l) : d.nodes[l[i]].ICR \in Nat
  BY <1>1, Members, Fields, NullIsNobody
<1>3. ASSUME NEW i \in 1..(k - 1)
      PROVE  d.nodes[l[i]].ICR >= icr
  <2>1. k > 1 /\ k - 1 \in 1..Len(l) /\ i \in 1..Len(l) /\ (i = k - 1 \/ i < k - 1)
    BY <1>2
  <2> QED BY <1>1, <1>2, <2>1
<1>4. ASSUME NEW i \in k..Len(l)
      PROVE  icr >= d.nodes[l[i]].ICR
  <2>1. k <= Len(l) /\ k \in 1..Len(l) /\ i \in 1..Len(l) /\ (i = k \/ k < i)
    BY <1>2
  <2> QED BY <1>1, <1>2, <2>1
<1> QED BY <1>3, <1>4 DEF Place

\* validInsertPosition is right.
LEMMA ValidLands ==
  ASSUME NEW d, NEW l, Linked(d, l), NEW icr \in Nat, NEW p \in Addresses, NEW n \in Addresses,
         ValidInsertPosition(d, icr, p, n)
  PROVE  Lands(d, l, icr, <<p, n>>)
<1>1. /\ l \in Seq(Ids) /\ IsInjective(l) /\ DataType(d)
      /\ d.size = Len(l) /\ d.head = At(l, 1) /\ d.tail = At(l, Len(l))
      /\ \A i \in 1..Len(l) : d.nodes[l[i]].nextId = At(l, i + 1)
  BY DEF Linked, Chained
<1>2. /\ Len(l) \in Nat
      /\ \A i \in 1..Len(l) : l[i] \in Ids /\ l[i] # NULL /\ At(l, i) = l[i]
      /\ \A a \in ToSet(l) : \E i \in 1..Len(l) : l[i] = a
      /\ \A i \in Int : At(l, i) = NULL <=> i \notin 1..Len(l)
  BY <1>1, Members
<1>3. CASE p = NULL /\ n = NULL /\ d.size = 0
  <2>1. 1 \in 1..(Len(l) + 1) /\ p = At(l, 1 - 1) /\ n = At(l, 1)
    BY <1>1, <1>2, <1>3
  <2>2. Place(d, l, icr, 1)
    BY <1>1, <1>2, <1>3 DEF Place
  <2> QED BY <2>1, <2>2 DEF Lands
<1>4. CASE p = NULL /\ n # NULL /\ d.head = n /\ icr >= d.nodes[n].ICR
  <2>1. 1 \in 1..Len(l) /\ n = l[1]
    BY <1>1, <1>2, <1>4
  <2>2. 1 \in 1..(Len(l) + 1) /\ p = At(l, 1 - 1) /\ n = At(l, 1)
    BY <1>1, <1>2, <1>4
  <2>3. (1 > 1 => d.nodes[l[1 - 1]].ICR >= icr) /\ (1 <= Len(l) => icr >= d.nodes[l[1]].ICR)
    BY <1>4, <2>1
  <2>4. Place(d, l, icr, 1)
    BY <2>2, <2>3, BetweenNeighbours
  <2> QED BY <2>2, <2>4 DEF Lands
<1>5. CASE p # NULL /\ n = NULL /\ d.tail = p /\ icr <= d.nodes[p].ICR
  <2>1. Len(l) \in 1..Len(l) /\ p = l[Len(l)] /\ At(l, Len(l)) = p
    <3>1. Len(l) \in Int /\ At(l, Len(l)) = p /\ p # NULL
      BY <1>1, <1>2, <1>5
    <3>2. Len(l) \in 1..Len(l)
      BY <1>2, <3>1
    <3> QED BY <1>2, <3>1, <3>2
  <2> DEFINE k == Len(l) + 1
  <2>2. k \in 1..(Len(l) + 1) /\ k - 1 = Len(l) /\ ~(k <= Len(l))
        /\ p = At(l, k - 1) /\ n = At(l, k)
    <3>1. k \in Int /\ k - 1 = Len(l) /\ k \notin 1..Len(l) /\ k \in 1..(Len(l) + 1)
      BY <1>2
    <3> HIDE DEF k
    <3>2. At(l, k) = NULL
      BY <1>2, <3>1
    <3> QED BY <1>2, <1>5, <2>1, <3>1, <3>2
  <2> HIDE DEF k
  <2>3. d.nodes[l[k - 1]].ICR >= icr
    <3>1. d.nodes[p].ICR \in Nat
      BY <1>1, Fields
    <3> QED BY <1>5, <2>1, <2>2, <3>1
  <2>4. Place(d, l, icr, k)
    BY <2>2, <2>3, BetweenNeighbours
  <2> QED BY <2>2, <2>4 DEF Lands
<1>6. CASE /\ p # NULL /\ n # NULL /\ d.nodes[p].nextId = n
           /\ d.nodes[p].ICR >= icr /\ icr >= d.nodes[n].ICR
  <2>1. p \in ToSet(l)
    BY <1>6, InAndOut
  <2>2. PICK i \in 1..Len(l) : l[i] = p
    BY <1>2, <2>1
  <2> DEFINE k == i + 1
  <2>3. n = At(l, k) /\ k \in Int /\ k \in 1..Len(l) /\ k - 1 = i /\ n = l[k] /\ p = At(l, k - 1)
        /\ k \in 1..(Len(l) + 1)
    BY <1>1, <1>2, <1>6, <2>2
  <2> HIDE DEF k
  <2>4. Place(d, l, icr, k)
    BY <1>6, <2>2, <2>3, BetweenNeighbours
  <2> QED BY <2>3, <2>4 DEF Lands
<1> QED BY <1>3, <1>4, <1>5, <1>6 DEF ValidInsertPosition

-----------------------------------------------------------------------------
(* The walks end: they follow the links of a list.                         *)

DescentWalk(d, icr, w) ==
  w = [p \in Addresses |->
        LET n == d.nodes[p].nextId
        IN  IF p = NULL \/ ValidInsertPosition(d, icr, p, n) THEN <<p, n>> ELSE w[n]]

AscentWalk(d, icr, w) ==
  w = [n \in Addresses |->
        LET p == d.nodes[n].prevId
        IN  IF n = NULL \/ ValidInsertPosition(d, icr, p, n) THEN <<p, n>> ELSE w[p]]

LEMMA NodeAt ==
  ASSUME NEW d, NEW l, Linked(d, l), NEW i \in 1..Len(l)
  PROVE  /\ d.nodes[l[i]].nextId = At(l, i + 1) /\ d.nodes[l[i]].prevId = At(l, i - 1)
         /\ l[i] \in Ids /\ l[i] # NULL /\ d.nodes[l[i]].ICR \in Nat
<1>1. l \in Seq(Ids) /\ DataType(d)
      /\ d.nodes[l[i]].nextId = At(l, i + 1) /\ d.nodes[l[i]].prevId = At(l, i - 1)
  BY DEF Linked, Chained
<1>2. l[i] \in Ids /\ l[i] # NULL
  BY <1>1, Members
<1> QED BY <1>1, <1>2, Fields, NullIsNobody

LEMMA Neighbours ==
  ASSUME NEW d, NEW l, Linked(d, l), NEW i \in 1..Len(l)
  PROVE  /\ d.nodes[l[i]].nextId = At(l, i + 1) /\ d.nodes[l[i]].prevId = At(l, i - 1)
         /\ At(l, i) = l[i] /\ l[i] \in Ids /\ l[i] # NULL /\ Len(l) \in Nat
         /\ d.nodes[l[i]].ICR \in Nat
         /\ i + 1 \in 1..Len(l) => At(l, i + 1) = l[i + 1]
         /\ i - 1 \in 1..Len(l) => At(l, i - 1) = l[i - 1]
         /\ i = Len(l) <=> At(l, i + 1) = NULL
         /\ i = 1 <=> At(l, i - 1) = NULL
         /\ \A j \in 1..Len(l) : l[j] = l[i] => j = i
<1>1. /\ l \in Seq(Ids) /\ IsInjective(l) /\ DataType(d)
      /\ d.nodes[l[i]].nextId = At(l, i + 1) /\ d.nodes[l[i]].prevId = At(l, i - 1)
  BY DEF Linked, Chained
<1>2. /\ Len(l) \in Nat /\ DOMAIN l = 1..Len(l)
      /\ \A j \in 1..Len(l) : l[j] \in Ids /\ l[j] # NULL /\ At(l, j) = l[j]
      /\ \A j \in Int : At(l, j) = NULL <=> j \notin 1..Len(l)
  BY <1>1, Members
<1>3. i + 1 \in Int /\ i - 1 \in Int /\ i \in Int
  OBVIOUS
<1>4. (i = Len(l) <=> i + 1 \notin 1..Len(l)) /\ (i = 1 <=> i - 1 \notin 1..Len(l))
  <2>1. PICK n \in Nat : n = Len(l)
    BY <1>2
  <2>2. i \in 1..n
    BY <2>1
  <2>3. (i = n <=> ~(i + 1 \in 1..n)) /\ (i = 1 <=> ~(i - 1 \in 1..n))
    BY <2>2
  <2> QED BY <2>1, <2>3
<1>5. d.nodes[l[i]].ICR \in Nat
  BY <1>1, <1>2, Fields, NullIsNobody
<1>6. \A j \in 1..Len(l) : l[j] = l[i] => j = i
  BY <1>1, <1>2 DEF IsInjective
<1> QED BY <1>1, <1>2, <1>3, <1>4, <1>5, <1>6

LEMMA DescentExists ==
  ASSUME NEW d, NEW l, Linked(d, l), NEW icr
  PROVE  \E w : DescentWalk(d, icr, w)
<1> DEFINE B == {p \in Addresses : p = NULL \/ ValidInsertPosition(d, icr, p, d.nodes[p].nextId)}
           f == [p \in Addresses |-> <<p, d.nodes[p].nextId>>]
           step == [p \in Addresses |-> d.nodes[p].nextId]
           Index(p) == CHOOSE i \in 1..Len(l) : l[i] = p
           rank == [p \in Addresses |-> IF p = NULL THEN 0
                                        ELSE IF p \in ToSet(l) THEN (Len(l) + 2) - Index(p) ELSE 1]
           n == Len(l) + 2
<1>1. l \in Seq(Ids) /\ DataType(d)
  BY DEF Linked
<1>2. /\ Len(l) \in Nat /\ NULL \notin ToSet(l) /\ ToSet(l) \subseteq Ids /\ n \in Nat
      /\ \A a \in ToSet(l) : Index(a) \in 1..Len(l) /\ l[Index(a)] = a
  <2>1. \A a \in ToSet(l) : \E i \in 1..Len(l) : l[i] = a
    BY <1>1, Members
  <2> QED BY <1>1, <2>1, Members
<1>3. \A p \in Addresses : rank[p] \in 0..n
  BY <1>2
<1>4. ASSUME NEW p \in Addresses, p \notin B
      PROVE  step[p] \in Addresses /\ rank[step[p]] < rank[p]
  <2>1. p # NULL /\ step[p] = d.nodes[p].nextId /\ step[p] \in Addresses
    BY <1>1, <1>4, Fields
  <2>2. CASE p \in ToSet(l)
    <3>1. PICK i \in 1..Len(l) : i = Index(p) /\ l[i] = p
      BY <1>2, <2>2
    <3>2. rank[p] = (Len(l) + 2) - i
      BY <2>1, <2>2, <3>1
    <3>3. step[p] = At(l, i + 1)
      BY <2>1, <3>1, NodeAt
    <3> HIDE DEF step, Index, rank
    <3>4. CASE i = Len(l)
      <4>1. step[p] = NULL
        BY <3>3, <3>4, Neighbours
      <4>2. rank[step[p]] = 0
        BY <2>1, <4>1, NullIsNobody DEF rank
      <4> QED BY <1>2, <2>1, <3>2, <4>2
    <3>5. CASE i # Len(l)
      <4>1. i + 1 \in 1..Len(l)
        BY <1>2, <3>5
      <4>2. step[p] = l[i + 1]
        BY <3>3, <4>1, Neighbours
      <4>3. l[i + 1] \in ToSet(l) /\ l[i + 1] # NULL
        BY <1>1, <4>1, Members
      <4>4. Index(l[i + 1]) = i + 1
        <5>1. Index(l[i + 1]) \in 1..Len(l) /\ l[Index(l[i + 1])] = l[i + 1]
          BY <1>2, <4>3
        <5> QED BY <4>1, <5>1, Neighbours
      <4>5. rank[step[p]] = (Len(l) + 2) - (i + 1)
        BY <2>1, <4>2, <4>3, <4>4 DEF rank
      <4> QED BY <1>2, <2>1, <3>2, <4>5
    <3> QED BY <3>4, <3>5
  <2>3. CASE p \notin ToSet(l)
    <3>1. step[p] = NULL
      BY <2>1, <2>3, InAndOut
    <3>2. rank[step[p]] = 0 /\ rank[p] = 1
      BY <2>1, <2>3, <3>1, NullIsNobody
    <3> HIDE DEF rank, step
    <3> QED BY <2>1, <3>2
  <2> QED BY <2>2, <2>3
<1>5. \E w : IsWalk(w, Addresses, B, f, step)
  <2>1. n \in Nat
    BY <1>2
  <2> HIDE DEF B, f, step, rank, n
  <2>2. \A a \in Addresses : a \notin B => step[a] \in Addresses /\ rank[step[a]] < rank[a]
    BY <1>4
  <2> QED BY <1>3, <2>1, <2>2, WalkExists
<1>6. PICK w : IsWalk(w, Addresses, B, f, step)
  BY <1>5
<1>7. \A p \in Addresses :
        (IF p \in B THEN f[p] ELSE w[step[p]])
          = LET q == d.nodes[p].nextId
            IN  IF p = NULL \/ ValidInsertPosition(d, icr, p, q) THEN <<p, q>> ELSE w[q]
  OBVIOUS
<1>8. DescentWalk(d, icr, w)
  <2> HIDE DEF B, f, step
  <2> QED BY <1>6, <1>7 DEF DescentWalk, IsWalk
<1> QED BY <1>8

LEMMA AscentExists ==
  ASSUME NEW d, NEW l, Linked(d, l), NEW icr
  PROVE  \E w : AscentWalk(d, icr, w)
<1> DEFINE B == {n \in Addresses : n = NULL \/ ValidInsertPosition(d, icr, d.nodes[n].prevId, n)}
           f == [n \in Addresses |-> <<d.nodes[n].prevId, n>>]
           step == [n \in Addresses |-> d.nodes[n].prevId]
           Index(n) == CHOOSE i \in 1..Len(l) : l[i] = n
           rank == [n \in Addresses |-> IF n = NULL THEN 0
                                        ELSE IF n \in ToSet(l) THEN Index(n) ELSE 1]
           m == Len(l) + 1
<1>1. l \in Seq(Ids) /\ DataType(d)
  BY DEF Linked
<1>2. /\ Len(l) \in Nat /\ NULL \notin ToSet(l) /\ ToSet(l) \subseteq Ids /\ m \in Nat
      /\ \A a \in ToSet(l) : Index(a) \in 1..Len(l) /\ l[Index(a)] = a
  <2>1. \A a \in ToSet(l) : \E i \in 1..Len(l) : l[i] = a
    BY <1>1, Members
  <2> QED BY <1>1, <2>1, Members
<1>3. \A n \in Addresses : rank[n] \in 0..m
  BY <1>2
<1>4. ASSUME NEW n \in Addresses, n \notin B
      PROVE  step[n] \in Addresses /\ rank[step[n]] < rank[n]
  <2>1. n # NULL /\ step[n] = d.nodes[n].prevId /\ step[n] \in Addresses
    BY <1>1, <1>4, Fields
  <2>2. CASE n \in ToSet(l)
    <3>1. PICK i \in 1..Len(l) : i = Index(n) /\ l[i] = n
      BY <1>2, <2>2
    <3>2. rank[n] = i
      BY <2>1, <2>2, <3>1
    <3>3. step[n] = At(l, i - 1)
      BY <2>1, <3>1, NodeAt
    <3> HIDE DEF step, Index, rank
    <3>4. CASE i = 1
      <4>1. step[n] = NULL
        BY <3>3, <3>4, Neighbours
      <4>2. rank[step[n]] = 0
        BY <2>1, <4>1, NullIsNobody DEF rank
      <4> QED BY <1>2, <2>1, <3>2, <4>2
    <3>5. CASE i # 1
      <4>1. i - 1 \in 1..Len(l)
        BY <1>2, <3>5
      <4>2. step[n] = l[i - 1]
        BY <3>3, <4>1, Neighbours
      <4>3. l[i - 1] \in ToSet(l) /\ l[i - 1] # NULL
        BY <1>1, <4>1, Members
      <4>4. Index(l[i - 1]) = i - 1
        <5>1. Index(l[i - 1]) \in 1..Len(l) /\ l[Index(l[i - 1])] = l[i - 1]
          BY <1>2, <4>3
        <5> QED BY <4>1, <5>1, Neighbours
      <4>5. rank[step[n]] = i - 1
        BY <2>1, <4>2, <4>3, <4>4 DEF rank
      <4> QED BY <1>2, <2>1, <3>2, <4>5
    <3> QED BY <3>4, <3>5
  <2>3. CASE n \notin ToSet(l)
    <3>1. step[n] = NULL
      BY <2>1, <2>3, InAndOut
    <3>2. rank[step[n]] = 0 /\ rank[n] = 1
      BY <2>1, <2>3, <3>1, NullIsNobody
    <3> HIDE DEF rank, step
    <3> QED BY <2>1, <3>2
  <2> QED BY <2>2, <2>3
<1>5. \E w : IsWalk(w, Addresses, B, f, step)
  <2>1. m \in Nat
    BY <1>2
  <2> HIDE DEF B, f, step, rank, m
  <2>2. \A a \in Addresses : a \notin B => step[a] \in Addresses /\ rank[step[a]] < rank[a]
    BY <1>4
  <2> QED BY <1>3, <2>1, <2>2, WalkExists
<1>6. PICK w : IsWalk(w, Addresses, B, f, step)
  BY <1>5
<1>7. \A n \in Addresses :
        (IF n \in B THEN f[n] ELSE w[step[n]])
          = LET q == d.nodes[n].prevId
            IN  IF n = NULL \/ ValidInsertPosition(d, icr, q, n) THEN <<q, n>> ELSE w[q]
  OBVIOUS
<1>8. AscentWalk(d, icr, w)
  <2> HIDE DEF B, f, step
  <2> QED BY <1>6, <1>7 DEF AscentWalk, IsWalk
<1> QED BY <1>8

\* The walks of the code are such functions.
LEMMA Descends ==
  ASSUME NEW d, NEW l, Linked(d, l), NEW icr, NEW start
  PROVE  \E w : /\ DescentWalk(d, icr, w)
                /\ DescendList(d, icr, start) =
                     IF d.head = start /\ icr >= d.nodes[start].ICR THEN <<NULL, start>> ELSE w[start]
<1>1. \E w : DescentWalk(d, icr, w)
  BY DescentExists
<1> QED BY <1>1 DEF DescendList, DescentWalk

LEMMA Ascends ==
  ASSUME NEW d, NEW l, Linked(d, l), NEW icr, NEW start
  PROVE  \E w : /\ AscentWalk(d, icr, w)
                /\ AscendList(d, icr, start) =
                     IF d.tail = start /\ icr <= d.nodes[start].ICR THEN <<start, NULL>> ELSE w[start]
<1>1. \E w : AscentWalk(d, icr, w)
  BY AscentExists
<1> QED BY <1>1 DEF AscendList, AscentWalk

-----------------------------------------------------------------------------
(* The walks end at a place for the ICR.                                   *)

\* Descending from a node that may stand above.
LEMMA DescentLands ==
  ASSUME NEW d, NEW l, Linked(d, l), NEW icr \in Nat, NEW w, DescentWalk(d, icr, w),
         NEW i \in 1..Len(l), icr <= d.nodes[l[i]].ICR
  PROVE  Lands(d, l, icr, w[l[i]])
<1> DEFINE T == {j \in 0..(Len(l) - 1) :
                   icr <= d.nodes[l[Len(l) - j]].ICR => Lands(d, l, icr, w[l[Len(l) - j]])}
<1>1. /\ l \in Seq(Ids) /\ DataType(d) /\ Len(l) \in Nat /\ d.tail = At(l, Len(l))
  BY LenProperties DEF Linked, Chained
<1>2. \A p \in Addresses :
        w[p] = IF p = NULL \/ ValidInsertPosition(d, icr, p, d.nodes[p].nextId)
               THEN <<p, d.nodes[p].nextId>> ELSE w[d.nodes[p].nextId]
  BY DEF DescentWalk
<1>3. ASSUME NEW m \in 1..Len(l), ValidInsertPosition(d, icr, l[m], At(l, m + 1))
      PROVE  Lands(d, l, icr, w[l[m]])
  <2>1. /\ d.nodes[l[m]].nextId = At(l, m + 1) /\ l[m] \in Addresses /\ At(l, m + 1) \in Addresses
    BY <1>1, NodeAt, Members, NullIsNobody
  <2>2. w[l[m]] = <<l[m], At(l, m + 1)>>
    BY <1>2, <1>3, <2>1
  <2> QED BY <1>3, <2>1, <2>2, ValidLands
<1>4. 0 \in T
  <2>1. Len(l) \in 1..Len(l) /\ Len(l) - 0 = Len(l)
    BY <1>1
  <2>2. ASSUME icr <= d.nodes[l[Len(l)]].ICR
        PROVE  Lands(d, l, icr, w[l[Len(l)]])
    <3>1. At(l, Len(l) + 1) = NULL /\ l[Len(l)] # NULL /\ d.tail = l[Len(l)]
      BY <1>1, <2>1, Neighbours
    <3>2. ValidInsertPosition(d, icr, l[Len(l)], At(l, Len(l) + 1))
      BY <2>2, <3>1 DEF ValidInsertPosition
    <3> QED BY <1>3, <2>1, <3>2
  <2> QED BY <1>1, <2>1, <2>2
<1>5. ASSUME NEW j \in 0..(Len(l) - 2), j \in T
      PROVE  j + 1 \in T
  <2> DEFINE m == Len(l) - (j + 1)
  <2>1. m \in 1..Len(l) /\ m + 1 \in 1..Len(l) /\ m + 1 = Len(l) - j /\ m \in Int
        /\ j + 1 \in 0..(Len(l) - 1)
    BY <1>1
  <2>2. icr <= d.nodes[l[m + 1]].ICR => Lands(d, l, icr, w[l[m + 1]])
    BY <1>5, <2>1
  <2> HIDE DEF m
  <2>3. ASSUME icr <= d.nodes[l[m]].ICR
        PROVE  Lands(d, l, icr, w[l[m]])
    <3>1. /\ d.nodes[l[m]].nextId = l[m + 1] /\ At(l, m + 1) = l[m + 1]
          /\ l[m] # NULL /\ l[m + 1] # NULL /\ l[m] \in Addresses
          /\ d.nodes[l[m]].ICR \in Nat /\ d.nodes[l[m + 1]].ICR \in Nat
      <4>1. /\ d.nodes[l[m]].nextId = At(l, m + 1) /\ l[m] # NULL /\ l[m] \in Ids
            /\ d.nodes[l[m]].ICR \in Nat
        BY <2>1, NodeAt
      <4>2. At(l, m + 1) = l[m + 1]
        BY <2>1 DEF At
      <4>3. l[m + 1] # NULL /\ d.nodes[l[m + 1]].ICR \in Nat
        BY <2>1, NodeAt
      <4> QED BY <4>1, <4>2, <4>3, NullIsNobody
    <3>2. CASE ValidInsertPosition(d, icr, l[m], At(l, m + 1))
      BY <1>3, <2>1, <3>2
    <3>3. CASE ~ValidInsertPosition(d, icr, l[m], At(l, m + 1))
      <4>1. ~(d.nodes[l[m]].ICR >= icr /\ icr >= d.nodes[l[m + 1]].ICR)
        BY <3>1, <3>3 DEF ValidInsertPosition
      <4>2. icr <= d.nodes[l[m + 1]].ICR
        BY <2>3, <3>1, <4>1
      <4>3. w[l[m]] = w[l[m + 1]]
        BY <1>2, <3>1, <3>3
      <4> QED BY <2>2, <4>2, <4>3
    <3> QED BY <3>2, <3>3
  <2>4. (icr <= d.nodes[l[m]].ICR) => Lands(d, l, icr, w[l[m]])
    BY <2>3
  <2> QED BY <2>1, <2>4 DEF m
<1> HIDE DEF T
<1>6. 0..(Len(l) - 1) \subseteq T
  <2>1. Len(l) - 1 \in Nat /\ (Len(l) - 1) - 1 = Len(l) - 2
    BY <1>1
  <2> QED BY <1>4, <1>5, <2>1, SetInduction
<1>7. Len(l) - i \in 0..(Len(l) - 1) /\ Len(l) - (Len(l) - i) = i
  BY <1>1
<1>8. Len(l) - i \in T
  BY <1>6, <1>7
<1> QED BY <1>7, <1>8 DEF T

\* Ascending from a node that may stand below.
LEMMA AscentLands ==
  ASSUME NEW d, NEW l, Linked(d, l), NEW icr \in Nat, NEW w, AscentWalk(d, icr, w),
         NEW i \in 1..Len(l), icr >= d.nodes[l[i]].ICR
  PROVE  Lands(d, l, icr, w[l[i]])
<1> DEFINE T == {j \in 0..(Len(l) - 1) :
                   icr >= d.nodes[l[j + 1]].ICR => Lands(d, l, icr, w[l[j + 1]])}
<1>1. /\ l \in Seq(Ids) /\ DataType(d) /\ Len(l) \in Nat /\ d.head = At(l, 1)
  BY LenProperties DEF Linked, Chained
<1>2. \A n \in Addresses :
        w[n] = IF n = NULL \/ ValidInsertPosition(d, icr, d.nodes[n].prevId, n)
               THEN <<d.nodes[n].prevId, n>> ELSE w[d.nodes[n].prevId]
  BY DEF AscentWalk
<1>3. ASSUME NEW m \in 1..Len(l), ValidInsertPosition(d, icr, At(l, m - 1), l[m])
      PROVE  Lands(d, l, icr, w[l[m]])
  <2>1. /\ d.nodes[l[m]].prevId = At(l, m - 1) /\ l[m] \in Addresses /\ At(l, m - 1) \in Addresses
    BY <1>1, NodeAt, Members, NullIsNobody
  <2>2. w[l[m]] = <<At(l, m - 1), l[m]>>
    BY <1>2, <1>3, <2>1
  <2> QED BY <1>3, <2>1, <2>2, ValidLands
<1>4. 0 \in T
  <2>1. 1 \in 1..Len(l) /\ 0 + 1 = 1
    BY <1>1
  <2>2. ASSUME icr >= d.nodes[l[1]].ICR
        PROVE  Lands(d, l, icr, w[l[1]])
    <3>1. At(l, 1 - 1) = NULL /\ l[1] # NULL /\ d.head = l[1]
      BY <1>1, <2>1, Neighbours
    <3>2. ValidInsertPosition(d, icr, At(l, 1 - 1), l[1])
      BY <2>2, <3>1 DEF ValidInsertPosition
    <3> QED BY <1>3, <2>1, <3>2
  <2> QED BY <1>1, <2>1, <2>2
<1>5. ASSUME NEW j \in 0..(Len(l) - 2), j \in T
      PROVE  j + 1 \in T
  <2> DEFINE m == (j + 1) + 1
  <2>1. m \in 1..Len(l) /\ m - 1 \in 1..Len(l) /\ m - 1 = j + 1 /\ m \in Int
        /\ j + 1 \in 0..(Len(l) - 1)
    BY <1>1
  <2>2. icr >= d.nodes[l[m - 1]].ICR => Lands(d, l, icr, w[l[m - 1]])
    BY <1>5, <2>1
  <2> HIDE DEF m
  <2>3. ASSUME icr >= d.nodes[l[m]].ICR
        PROVE  Lands(d, l, icr, w[l[m]])
    <3>1. /\ d.nodes[l[m]].prevId = l[m - 1] /\ At(l, m - 1) = l[m - 1]
          /\ l[m] # NULL /\ l[m - 1] # NULL /\ l[m] \in Addresses
          /\ d.nodes[l[m]].ICR \in Nat /\ d.nodes[l[m - 1]].ICR \in Nat
      <4>1. /\ d.nodes[l[m]].prevId = At(l, m - 1) /\ l[m] # NULL /\ l[m] \in Ids
            /\ d.nodes[l[m]].ICR \in Nat
        BY <2>1, NodeAt
      <4>2. At(l, m - 1) = l[m - 1]
        BY <2>1 DEF At
      <4>3. l[m - 1] # NULL /\ d.nodes[l[m - 1]].ICR \in Nat
        BY <2>1, NodeAt
      <4> QED BY <4>1, <4>2, <4>3, NullIsNobody
    <3>2. CASE ValidInsertPosition(d, icr, At(l, m - 1), l[m])
      BY <1>3, <2>1, <3>2
    <3>3. CASE ~ValidInsertPosition(d, icr, At(l, m - 1), l[m])
      <4>1. d.nodes[l[m - 1]].nextId = l[m]
        <5>1. (m - 1) + 1 = m /\ At(l, m) = l[m]
          BY <2>1 DEF At
        <5>2. d.nodes[l[m - 1]].nextId = At(l, (m - 1) + 1)
          BY <2>1, NodeAt
        <5> QED BY <5>1, <5>2
      <4>2. ~(d.nodes[l[m - 1]].ICR >= icr /\ icr >= d.nodes[l[m]].ICR)
        BY <3>1, <3>3, <4>1 DEF ValidInsertPosition
      <4>3. icr >= d.nodes[l[m - 1]].ICR
        BY <2>3, <3>1, <4>2
      <4>4. w[l[m]] = w[l[m - 1]]
        BY <1>2, <3>1, <3>3
      <4> QED BY <2>2, <4>3, <4>4
    <3> QED BY <3>2, <3>3
  <2>4. (icr >= d.nodes[l[m]].ICR) => Lands(d, l, icr, w[l[m]])
    BY <2>3
  <2> QED BY <2>1, <2>4 DEF m
<1> HIDE DEF T
<1>6. 0..(Len(l) - 1) \subseteq T
  <2>1. Len(l) - 1 \in Nat /\ (Len(l) - 1) - 1 = Len(l) - 2
    BY <1>1
  <2> QED BY <1>4, <1>5, <2>1, SetInduction
<1>7. i - 1 \in 0..(Len(l) - 1) /\ (i - 1) + 1 = i
  BY <1>1
<1>8. i - 1 \in T
  BY <1>6, <1>7
<1> QED BY <1>7, <1>8 DEF T

\* Whatever the hints are, _findInsertPosition returns a place for the ICR.
LEMMA FindLands ==
  ASSUME NEW d, NEW l, Linked(d, l), NEW icr \in Nat,
         NEW prevHint \in Addresses, NEW nextHint \in Addresses
  PROVE  Lands(d, l, icr, FindInsertPosition(d, icr, prevHint, nextHint))
<1> DEFINE p == IF Holds(d, prevHint) /\ icr <= d.nodes[prevHint].ICR THEN prevHint ELSE NULL
           n == IF Holds(d, nextHint) /\ icr >= d.nodes[nextHint].ICR THEN nextHint ELSE NULL
<1>1. /\ l \in Seq(Ids) /\ DataType(d) /\ Len(l) \in Nat /\ d.head = At(l, 1) /\ d.tail = At(l, Len(l))
  BY LenProperties DEF Linked, Chained
<1>2. /\ d.head \in Addresses /\ \A a \in Addresses : d.nodes[a].ICR \in Nat
      /\ \A a \in Addresses : Holds(d, a) => \E i \in 1..Len(l) : l[i] = a
      /\ \A a \in Addresses : d.nodes[a].ICR # 0 => \E i \in 1..Len(l) : l[i] = a
      /\ NULL \in Addresses
  BY <1>1, InAndOut, Fields, Members, NullIsNobody
<1>3. /\ p \in Addresses /\ n \in Addresses
      /\ p # NULL => Holds(d, p) /\ icr <= d.nodes[p].ICR
      /\ n # NULL => Holds(d, n) /\ icr >= d.nodes[n].ICR
  BY <1>2
<1>4. FindInsertPosition(d, icr, prevHint, nextHint) =
        IF p = NULL /\ n = NULL THEN DescendList(d, icr, d.head)
        ELSE IF p = NULL THEN AscendList(d, icr, n) ELSE DescendList(d, icr, p)
  BY DEF FindInsertPosition
<1> HIDE DEF p, n
<1>5. CASE p = NULL /\ n = NULL
  <2>1. PICK w : /\ DescentWalk(d, icr, w)
                 /\ DescendList(d, icr, d.head) =
                      IF d.head = d.head /\ icr >= d.nodes[d.head].ICR THEN <<NULL, d.head>> ELSE w[d.head]
    BY Descends
  <2>2. CASE icr >= d.nodes[d.head].ICR
    <3>1. 1 \in 1..(Len(l) + 1) /\ At(l, 1 - 1) = NULL
      BY <1>1, Members
    <3>2. (1 > 1 => d.nodes[l[1 - 1]].ICR >= icr) /\ (1 <= Len(l) => icr >= d.nodes[l[1]].ICR)
      <4>1. 1 <= Len(l) => d.head = l[1]
        BY <1>1, Members
      <4> QED BY <2>2, <4>1
    <3>3. Place(d, l, icr, 1)
      BY <3>1, <3>2, BetweenNeighbours
    <3>4. DescendList(d, icr, d.head) = <<At(l, 1 - 1), At(l, 1)>>
      BY <1>1, <2>1, <2>2, <3>1
    <3> QED BY <1>4, <1>5, <3>1, <3>3, <3>4 DEF Lands
  <2>3. CASE ~(icr >= d.nodes[d.head].ICR)
    <3>1. icr <= d.nodes[d.head].ICR /\ d.nodes[d.head].ICR # 0
      BY <1>2, <2>3
    <3>2. PICK i \in 1..Len(l) : l[i] = d.head
      BY <1>2, <3>1
    <3>3. Lands(d, l, icr, w[d.head])
      BY <2>1, <3>1, <3>2, DescentLands
    <3> QED BY <1>4, <1>5, <2>1, <2>3, <3>3
  <2> QED BY <2>2, <2>3
<1>6. CASE p = NULL /\ n # NULL
  <2>1. PICK w : /\ AscentWalk(d, icr, w)
                 /\ AscendList(d, icr, n) =
                      IF d.tail = n /\ icr <= d.nodes[n].ICR THEN <<n, NULL>> ELSE w[n]
    BY Ascends
  <2>2. CASE d.tail = n /\ icr <= d.nodes[n].ICR
    <3>1. ValidInsertPosition(d, icr, n, NULL)
      BY <1>6, <2>2 DEF ValidInsertPosition
    <3>2. Lands(d, l, icr, <<n, NULL>>)
      BY <1>2, <1>3, <3>1, ValidLands
    <3> QED BY <1>4, <1>6, <2>1, <2>2, <3>2
  <2>3. CASE ~(d.tail = n /\ icr <= d.nodes[n].ICR)
    <3>1. PICK i \in 1..Len(l) : l[i] = n
      BY <1>2, <1>3, <1>6
    <3>2. Lands(d, l, icr, w[n])
      BY <1>3, <1>6, <2>1, <3>1, AscentLands
    <3> QED BY <1>4, <1>6, <2>1, <2>3, <3>2
  <2> QED BY <2>2, <2>3
<1>7. CASE p # NULL
  <2>1. PICK w : /\ DescentWalk(d, icr, w)
                 /\ DescendList(d, icr, p) =
                      IF d.head = p /\ icr >= d.nodes[p].ICR THEN <<NULL, p>> ELSE w[p]
    BY Descends
  <2>2. CASE d.head = p /\ icr >= d.nodes[p].ICR
    <3>1. ValidInsertPosition(d, icr, NULL, p)
      BY <1>7, <2>2 DEF ValidInsertPosition
    <3>2. Lands(d, l, icr, <<NULL, p>>)
      BY <1>2, <1>3, <3>1, ValidLands
    <3> QED BY <1>4, <1>7, <2>1, <2>2, <3>2
  <2>3. CASE ~(d.head = p /\ icr >= d.nodes[p].ICR)
    <3>1. PICK i \in 1..Len(l) : l[i] = p
      BY <1>2, <1>3, <1>7
    <3>2. Lands(d, l, icr, w[p])
      BY <1>3, <1>7, <2>1, <3>1, DescentLands
    <3> QED BY <1>4, <1>7, <2>1, <2>3, <3>2
  <2> QED BY <2>2, <2>3
<1> QED BY <1>5, <1>6, <1>7

-----------------------------------------------------------------------------
(* The lists before and after an update.                                   *)

LEMMA ListWith ==
  ASSUME NEW l \in Seq(Ids), IsInjective(l), NEW id \in Ids, id \notin ToSet(l),
         NEW k \in 1..(Len(l) + 1)
  PROVE  /\ InsertAt(l, k, id) \in Seq(Ids) /\ IsInjective(InsertAt(l, k, id))
         /\ Len(InsertAt(l, k, id)) = Len(l) + 1
         /\ ToSet(InsertAt(l, k, id)) = ToSet(l) \cup {id}
         /\ \A i \in Int : At(InsertAt(l, k, id), i)
                             = IF i < k THEN At(l, i) ELSE IF i = k THEN id ELSE At(l, i - 1)
<1> DEFINE m == InsertAt(l, k, id)
<1>1. /\ m \in Seq(Ids) /\ Len(m) = Len(l) + 1
      /\ \A i \in 1..(Len(l) + 1) : m[i] = IF i < k THEN l[i] ELSE IF i = k THEN id ELSE l[i - 1]
  <2>1. m = SubSeq(l, 1, k - 1) \o <<id>> \o SubSeq(l, k, Len(l))
    BY DEF InsertAt
  <2> HIDE DEF m
  <2>2. m \in Seq(Ids) /\ IsPutIn(m, l, k, id)
    BY <2>1, PutIn
  <2> QED BY <2>2 DEF IsPutIn
<1> HIDE DEF m
<1>2. /\ Len(l) \in Nat /\ DOMAIN l = 1..Len(l) /\ DOMAIN m = 1..(Len(l) + 1)
      /\ \A i \in 1..Len(l) : l[i] \in ToSet(l) /\ l[i] # id
      /\ \A a \in ToSet(l) : \E i \in 1..Len(l) : l[i] = a
  BY <1>1, Members, LenProperties
<1>3. \A i \in Int : At(m, i) = IF i < k THEN At(l, i) ELSE IF i = k THEN id ELSE At(l, i - 1)
  <2> SUFFICES ASSUME NEW i \in Int
               PROVE  At(m, i) = IF i < k THEN At(l, i) ELSE IF i = k THEN id ELSE At(l, i - 1)
    OBVIOUS
  <2>1. CASE i \in 1..(Len(l) + 1)
    <3>1. (i < k => i \in 1..Len(l)) /\ (i > k => i - 1 \in 1..Len(l))
      BY <1>2, <2>1
    <3> QED BY <1>1, <1>2, <2>1, <3>1 DEF At
  <2>2. CASE i \notin 1..(Len(l) + 1)
    <3>1. i # k /\ (i < k => i \notin 1..Len(l)) /\ (i > k => i - 1 \notin 1..Len(l))
      BY <1>2, <2>2
    <3> QED BY <1>1, <1>2, <2>2, <3>1 DEF At
  <2> QED BY <2>1, <2>2
<1>4. IsInjective(m)
  <2>1. \A i, j \in 1..Len(l) : l[i] = l[j] => i = j
    BY <1>2 DEF IsInjective
  <2>2. ASSUME NEW i \in 1..(Len(l) + 1), NEW j \in 1..(Len(l) + 1), m[i] = m[j]
        PROVE  i = j
    <3>1. /\ i < k => i \in 1..Len(l) /\ m[i] = l[i]
          /\ i = k => m[i] = id
          /\ i > k => i - 1 \in 1..Len(l) /\ m[i] = l[i - 1]
      BY <1>1, <1>2
    <3>2. /\ j < k => j \in 1..Len(l) /\ m[j] = l[j]
          /\ j = k => m[j] = id
          /\ j > k => j - 1 \in 1..Len(l) /\ m[j] = l[j - 1]
      BY <1>1, <1>2
    <3> QED BY <1>2, <2>1, <2>2, <3>1, <3>2
  <2> QED BY <1>2, <2>2 DEF IsInjective
<1>5. ASSUME NEW a
      PROVE  (a \in ToSet(m)) <=> (a \in ToSet(l) \cup {id})
  <2>1. (a \in ToSet(m)) <=> \E i \in 1..(Len(l) + 1) : m[i] = a
    BY <1>2 DEF ToSet
  <2>2. ASSUME NEW i \in 1..(Len(l) + 1), m[i] = a
        PROVE  a \in ToSet(l) \cup {id}
    <3>1. /\ i < k => i \in 1..Len(l) /\ m[i] = l[i]
          /\ i = k => m[i] = id
          /\ i > k => i - 1 \in 1..Len(l) /\ m[i] = l[i - 1]
      BY <1>1, <1>2
    <3> QED BY <1>2, <2>2, <3>1
  <2>3. ASSUME a \in ToSet(l)
        PROVE  \E i \in 1..(Len(l) + 1) : m[i] = a
    <3>1. PICK i \in 1..Len(l) : l[i] = a
      BY <1>2, <2>3
    <3>2. /\ i < k => i \in 1..(Len(l) + 1) /\ m[i] = l[i]
          /\ i >= k => i + 1 \in 1..(Len(l) + 1) /\ m[i + 1] = l[i]
      BY <1>1, <1>2
    <3> QED BY <1>2, <3>1, <3>2
  <2>4. k \in 1..(Len(l) + 1) /\ m[k] = id
    BY <1>1, <1>2
  <2> QED BY <2>1, <2>2, <2>3, <2>4
<1>6. ToSet(m) = ToSet(l) \cup {id}
  BY <1>5
<1> QED BY <1>1, <1>3, <1>4, <1>6 DEF m

LEMMA ListWithout ==
  ASSUME NEW l \in Seq(Ids), IsInjective(l), NEW k \in 1..Len(l)
  PROVE  /\ RemoveAt(l, k) \in Seq(Ids) /\ IsInjective(RemoveAt(l, k))
         /\ Len(RemoveAt(l, k)) = Len(l) - 1
         /\ ToSet(RemoveAt(l, k)) = ToSet(l) \ {l[k]}
         /\ \A i \in Int : At(RemoveAt(l, k), i) = IF i < k THEN At(l, i) ELSE At(l, i + 1)
<1> DEFINE m == RemoveAt(l, k)
<1>1. /\ m \in Seq(Ids) /\ Len(m) = Len(l) - 1
      /\ \A i \in 1..(Len(l) - 1) : m[i] = IF i < k THEN l[i] ELSE l[i + 1]
  <2>1. m = SubSeq(l, 1, k - 1) \o SubSeq(l, k + 1, Len(l))
    BY DEF RemoveAt
  <2> HIDE DEF m
  <2> QED BY <2>1, CutOut
<1> HIDE DEF m
<1>2. /\ Len(l) \in Nat /\ DOMAIN l = 1..Len(l) /\ DOMAIN m = 1..(Len(l) - 1)
      /\ \A i \in 1..Len(l) : l[i] \in ToSet(l)
      /\ \A a \in ToSet(l) : \E i \in 1..Len(l) : l[i] = a
  BY <1>1, Members, LenProperties
<1>3. \A i \in Int : At(m, i) = IF i < k THEN At(l, i) ELSE At(l, i + 1)
  <2> SUFFICES ASSUME NEW i \in Int
               PROVE  At(m, i) = IF i < k THEN At(l, i) ELSE At(l, i + 1)
    OBVIOUS
  <2>1. CASE i \in 1..(Len(l) - 1)
    <3>1. i \in 1..Len(l) /\ i + 1 \in 1..Len(l)
      BY <1>2, <2>1
    <3> QED BY <1>1, <1>2, <2>1, <3>1 DEF At
  <2>2. CASE i \notin 1..(Len(l) - 1)
    <3>1. (i < k => i \notin 1..Len(l)) /\ (i >= k => i + 1 \notin 1..Len(l))
      BY <1>2, <2>2
    <3> QED BY <1>1, <1>2, <2>2, <3>1 DEF At
  <2> QED BY <2>1, <2>2
<1>4. \A i, j \in 1..Len(l) : l[i] = l[j] => i = j
  BY <1>2 DEF IsInjective
<1>5. ASSUME NEW i \in 1..(Len(l) - 1)
      PROVE  /\ i < k => i \in 1..Len(l) /\ m[i] = l[i]
             /\ i >= k => i + 1 \in 1..Len(l) /\ m[i] = l[i + 1]
  BY <1>1, <1>2
<1>6. IsInjective(m)
  <2>1. ASSUME NEW i \in 1..(Len(l) - 1), NEW j \in 1..(Len(l) - 1), m[i] = m[j]
        PROVE  i = j
    <3>1. /\ i < k => i \in 1..Len(l) /\ m[i] = l[i]
          /\ i >= k => i + 1 \in 1..Len(l) /\ m[i] = l[i + 1]
      BY <1>5
    <3>2. /\ j < k => j \in 1..Len(l) /\ m[j] = l[j]
          /\ j >= k => j + 1 \in 1..Len(l) /\ m[j] = l[j + 1]
      BY <1>5
    <3> QED BY <1>2, <1>4, <2>1, <3>1, <3>2
  <2> QED BY <1>2, <2>1 DEF IsInjective
<1>7. ASSUME NEW a
      PROVE  (a \in ToSet(m)) <=> (a \in ToSet(l) \ {l[k]})
  <2>1. (a \in ToSet(m)) <=> \E i \in 1..(Len(l) - 1) : m[i] = a
    BY <1>2 DEF ToSet
  <2>2. ASSUME NEW i \in 1..(Len(l) - 1), m[i] = a
        PROVE  a \in ToSet(l) \ {l[k]}
    <3>1. /\ i < k => i \in 1..Len(l) /\ m[i] = l[i]
          /\ i >= k => i + 1 \in 1..Len(l) /\ m[i] = l[i + 1]
      BY <1>5
    <3>2. CASE i < k
      BY <1>2, <1>4, <2>2, <3>1, <3>2
    <3>3. CASE i >= k
      <4>1. i + 1 # k
        BY <3>3
      <4> QED BY <1>2, <1>4, <2>2, <3>1, <3>3, <4>1
    <3> QED BY <1>2, <3>2, <3>3
  <2>3. ASSUME a \in ToSet(l), a # l[k]
        PROVE  \E i \in 1..(Len(l) - 1) : m[i] = a
    <3>1. PICK i \in 1..Len(l) : l[i] = a
      BY <1>2, <2>3
    <3>2. CASE i < k
      <4>1. i \in 1..(Len(l) - 1) /\ m[i] = l[i]
        BY <1>1, <1>2, <3>2
      <4> QED BY <3>1, <4>1
    <3>3. CASE i > k
      <4>1. i - 1 \in 1..(Len(l) - 1) /\ m[i - 1] = l[i]
        BY <1>1, <1>2, <3>3
      <4> QED BY <3>1, <4>1
    <3> QED BY <1>2, <2>3, <3>1, <3>2, <3>3
  <2> QED BY <2>1, <2>2, <2>3
<1>8. ToSet(m) = ToSet(l) \ {l[k]}
  BY <1>7
<1> QED BY <1>1, <1>3, <1>6, <1>8 DEF m

-----------------------------------------------------------------------------
(* _insert and _remove, field by field: a struct e that links id into d,   *)
(* and out of it, between p and n.                                         *)

LinksIn(e, d, id, icr, p, n) ==
  /\ DataType(e)
  /\ e.head = IF p = NULL THEN id ELSE d.head
  /\ e.tail = IF n = NULL THEN id ELSE d.tail
  /\ e.size = d.size + 1
  /\ e.nodes[id] = [exists |-> TRUE, nextId |-> n, prevId |-> p, ICR |-> icr]
  /\ \A a \in Addresses : a # id =>
       /\ e.nodes[a].exists = d.nodes[a].exists /\ e.nodes[a].ICR = d.nodes[a].ICR
       /\ e.nodes[a].nextId = IF a = p /\ p # NULL THEN id ELSE d.nodes[a].nextId
       /\ e.nodes[a].prevId = IF a = n /\ n # NULL THEN id ELSE d.nodes[a].prevId
       /\ (a # p /\ a # n) \/ a = NULL => e.nodes[a] = d.nodes[a]

LinksOut(e, d, id, p, n) ==
  /\ DataType(e)
  /\ e.head = IF p = NULL THEN n ELSE d.head
  /\ e.tail = IF n = NULL THEN p ELSE d.tail
  /\ e.size = d.size - 1
  /\ e.nodes[id] = NoNode
  /\ \A a \in Addresses : a # id =>
       /\ e.nodes[a].exists = d.nodes[a].exists /\ e.nodes[a].ICR = d.nodes[a].ICR
       /\ e.nodes[a].nextId = IF a = p /\ p # NULL THEN n ELSE d.nodes[a].nextId
       /\ e.nodes[a].prevId = IF a = n /\ n # NULL THEN p ELSE d.nodes[a].prevId
       /\ (a # p /\ a # n) \/ a = NULL => e.nodes[a] = d.nodes[a]

\* A node is its four fields, so writing a field back changes nothing.
LEMMA SameNode ==
  ASSUME NEW r \in Node
  PROVE  [r EXCEPT !.nextId = r.nextId] = r /\ [r EXCEPT !.prevId = r.prevId] = r
BY DEF Node

\* A node with one of its links changed.
LEMMA RelinkedNode ==
  ASSUME NEW r \in Node, NEW a \in Addresses
  PROVE  /\ [r EXCEPT !.nextId = a] \in Node /\ [r EXCEPT !.prevId = a] \in Node
         /\ [r EXCEPT !.nextId = a].exists = r.exists /\ [r EXCEPT !.nextId = a].ICR = r.ICR
         /\ [r EXCEPT !.nextId = a].nextId = a /\ [r EXCEPT !.nextId = a].prevId = r.prevId
         /\ [r EXCEPT !.prevId = a].exists = r.exists /\ [r EXCEPT !.prevId = a].ICR = r.ICR
         /\ [r EXCEPT !.prevId = a].nextId = r.nextId /\ [r EXCEPT !.prevId = a].prevId = a
BY DEF Node

Relinked(f, p, n, a, b) ==
  [f EXCEPT ![p].nextId = IF p = NULL THEN @ ELSE a, ![n].prevId = IF n = NULL THEN @ ELSE b]

IsRelinked(g, f, p, n, a, b) ==
  /\ g \in [Addresses -> Node]
  /\ \A x \in Addresses :
       /\ g[x].exists = f[x].exists /\ g[x].ICR = f[x].ICR
       /\ g[x].nextId = IF x = p /\ p # NULL THEN a ELSE f[x].nextId
       /\ g[x].prevId = IF x = n /\ n # NULL THEN b ELSE f[x].prevId
       /\ (x # p /\ x # n) \/ x = NULL => g[x] = f[x]

\* Changing the link down of p and the link up of n.
LEMMA RelinkedNodes ==
  ASSUME NEW f \in [Addresses -> Node], NEW p \in Addresses, NEW n \in Addresses,
         NEW a \in Addresses, NEW b \in Addresses, p # n \/ (p = NULL /\ n = NULL)
  PROVE  IsRelinked(Relinked(f, p, n, a, b), f, p, n, a, b)
<1> DEFINE g == [f EXCEPT ![p].nextId = IF p = NULL THEN @ ELSE a]
           h == [g EXCEPT ![n].prevId = IF n = NULL THEN @ ELSE b]
<1>1. Relinked(f, p, n, a, b) = h
  BY DEF Relinked
<1>2. /\ g \in [Addresses -> Node]
      /\ \A x \in Addresses : x # p \/ p = NULL => g[x] = f[x]
      /\ p # NULL => g[p] = [f[p] EXCEPT !.nextId = a]
  <2>1. DOMAIN g = Addresses /\ \A x \in Addresses : x # p => g[x] = f[x]
    OBVIOUS
  <2>2. g = [x \in Addresses |-> IF x = p THEN [f[p] EXCEPT !.nextId = IF p = NULL THEN f[p].nextId ELSE a] ELSE f[x]]
    OBVIOUS
  <2> HIDE DEF g
  <2>3. CASE p = NULL
    <3>1. g[p] = [f[p] EXCEPT !.nextId = f[p].nextId]
      BY <2>2, <2>3
    <3>2. g[p] = f[p]
      BY <3>1, SameNode
    <3>3. \A x \in Addresses : g[x] = f[x]
      BY <2>1, <3>2
    <3> QED BY <2>2, <2>3, <3>3
  <2>4. CASE p # NULL
    <3>1. g[p] = [f[p] EXCEPT !.nextId = a]
      BY <2>2, <2>4
    <3>2. g[p] \in Node
      <4>1. f[p] \in Node
        OBVIOUS
      <4>2. [f[p] EXCEPT !.nextId = a] \in Node
        BY <4>1, RelinkedNode
      <4> QED BY <3>1, <4>2
    <3>3. \A x \in Addresses : g[x] \in Node
      BY <2>1, <3>2
    <3> QED BY <2>1, <2>2, <2>4, <3>1, <3>3
  <2> QED BY <2>3, <2>4
<1> HIDE DEF g
<1>3. /\ h \in [Addresses -> Node]
      /\ \A x \in Addresses : x # n \/ n = NULL => h[x] = g[x]
      /\ n # NULL => h[n] = [g[n] EXCEPT !.prevId = b]
  <2>1. DOMAIN h = Addresses /\ \A x \in Addresses : x # n => h[x] = g[x]
    BY <1>2
  <2>2. h = [x \in Addresses |-> IF x = n THEN [g[n] EXCEPT !.prevId = IF n = NULL THEN g[n].prevId ELSE b] ELSE g[x]]
    BY <1>2
  <2> HIDE DEF h
  <2>3. CASE n = NULL
    <3>1. h[n] = [g[n] EXCEPT !.prevId = g[n].prevId]
      BY <2>2, <2>3
    <3>2. h[n] = g[n]
      BY <1>2, <3>1, SameNode
    <3>3. \A x \in Addresses : h[x] = g[x]
      BY <2>1, <3>2
    <3> QED BY <1>2, <2>2, <2>3, <3>3
  <2>4. CASE n # NULL
    <3>1. h[n] = [g[n] EXCEPT !.prevId = b]
      BY <2>2, <2>4
    <3>2. h[n] \in Node
      <4>1. g[n] \in Node
        BY <1>2
      <4>2. [g[n] EXCEPT !.prevId = b] \in Node
        BY <4>1, RelinkedNode
      <4> QED BY <3>1, <4>2
    <3>3. \A x \in Addresses : h[x] \in Node
      BY <1>2, <2>1, <3>2
    <3> QED BY <2>1, <2>2, <2>4, <3>1, <3>3
  <2> QED BY <2>3, <2>4
<1> HIDE DEF h
<1>4. ASSUME NEW x \in Addresses
      PROVE  /\ h[x].exists = f[x].exists
             /\ h[x].ICR = f[x].ICR
             /\ h[x].nextId = IF x = p /\ p # NULL THEN a ELSE f[x].nextId
             /\ h[x].prevId = IF x = n /\ n # NULL THEN b ELSE f[x].prevId
             /\ (x # p /\ x # n) \/ x = NULL => h[x] = f[x]
  <2>1. CASE x = p /\ p # NULL
    <3>1. x # n /\ h[x] = [f[x] EXCEPT !.nextId = a]
      BY <1>2, <1>3, <2>1
    <3> QED BY <2>1, <3>1, RelinkedNode
  <2>2. CASE x = n /\ n # NULL
    <3>1. x # p /\ h[x] = [f[x] EXCEPT !.prevId = b]
      BY <1>2, <1>3, <2>2
    <3> QED BY <2>2, <3>1, RelinkedNode
  <2>3. CASE (x # p \/ p = NULL) /\ (x # n \/ n = NULL)
    BY <1>2, <1>3, <2>3
  <2> QED BY <2>1, <2>2, <2>3
<1> QED BY <1>1, <1>3, <1>4 DEF IsRelinked

\* What _insert writes, once it has its position.
LEMMA InsertedLinks ==
  ASSUME NEW d, NEW l, Linked(d, l), NEW id \in Ids, id \notin ToSet(l), NEW icr \in Nat,
         NEW prevHint \in Addresses, NEW nextHint \in Addresses
  PROVE  \E k \in 1..(Len(l) + 1) :
           /\ Place(d, l, icr, k)
           /\ ValidInsertPosition(d, icr, prevHint, nextHint)
                => prevHint = At(l, k - 1) /\ nextHint = At(l, k)
           /\ LinksIn(Inserted(d, id, icr, prevHint, nextHint), d, id, icr, At(l, k - 1), At(l, k))
<1> DEFINE hinted == ValidInsertPosition(d, icr, prevHint, nextHint)
           pos == IF hinted THEN <<prevHint, nextHint>>
                  ELSE FindInsertPosition(d, icr, prevHint, nextHint)
           e == Inserted(d, id, icr, prevHint, nextHint)
<1>1. Lands(d, l, icr, pos)
  <2>1. CASE hinted
    BY <2>1, ValidLands
  <2>2. CASE ~hinted
    BY <2>2, FindLands
  <2> QED BY <2>1, <2>2
<1> HIDE DEF pos
<1>2. PICK k \in 1..(Len(l) + 1) : Place(d, l, icr, k) /\ pos = <<At(l, k - 1), At(l, k)>>
  BY <1>1 DEF Lands
<1> DEFINE p == At(l, k - 1)
           n == At(l, k)
<1>3. pos[1] = p /\ pos[2] = n
  BY <1>2
<1>4. /\ l \in Seq(Ids) /\ IsInjective(l) /\ DataType(d) /\ Len(l) \in Nat
      /\ d.head = At(l, 1) /\ d.tail = At(l, Len(l))
      /\ d.nodes \in [Addresses -> Node] /\ id \in Addresses /\ id # NULL /\ d.size \in Nat
      /\ d.head \in Addresses /\ d.tail \in Addresses
  BY LenProperties, NullIsNobody DEF Linked, Chained, DataType
<1>5. /\ p \in Addresses /\ n \in Addresses
      /\ p = NULL <=> k = 1
      /\ n = NULL <=> k = Len(l) + 1
      /\ p = NULL \/ n # NULL \/ d.tail = p
      /\ n = NULL \/ p # NULL \/ d.head = n
      /\ id # p /\ id # n
      /\ p # n \/ (p = NULL /\ n = NULL)
  <2>1. /\ k \in Int /\ k - 1 \in Int
        /\ (k \in 1..Len(l) <=> k # Len(l) + 1)
        /\ (k - 1 \in 1..Len(l) <=> k # 1)
        /\ (k = Len(l) + 1 => k - 1 = Len(l))
    BY <1>4
  <2>2. /\ \A i \in Int : At(l, i) \in Addresses /\ (At(l, i) = NULL <=> i \notin 1..Len(l))
        /\ \A i \in 1..Len(l) : At(l, i) = l[i] /\ l[i] \in ToSet(l)
        /\ DOMAIN l = 1..Len(l)
    BY <1>4, Members
  <2>3. p = NULL <=> k = 1
    BY <2>1, <2>2
  <2>4. n = NULL <=> k = Len(l) + 1
    BY <2>1, <2>2
  <2>5. id # p /\ id # n
    BY <1>4, <2>1, <2>2, <2>3, <2>4
  <2>6. p # n \/ (p = NULL /\ n = NULL)
    <3>1. ASSUME k \in 1..Len(l), k - 1 \in 1..Len(l), l[k] = l[k - 1]
          PROVE  FALSE
      <4>1. k = k - 1
        BY <1>4, <2>2, <3>1 DEF IsInjective
      <4> QED BY <2>1, <4>1
    <3> QED BY <2>1, <2>2, <2>3, <2>4, <3>1
  <2> QED BY <1>4, <2>1, <2>2, <2>3, <2>4, <2>5, <2>6
<1> HIDE DEF p, n
<1> DEFINE new == [exists |-> TRUE, nextId |-> n, prevId |-> p, ICR |-> icr]
           f == [d.nodes EXCEPT ![id] = new]
<1>6. e = [head  |-> IF p = NULL THEN id ELSE d.head,
           tail  |-> IF n = NULL THEN id ELSE d.tail,
           size  |-> d.size + 1,
           nodes |-> Relinked(f, p, n, id, id)]
  <2>1. (IF pos[1] = NULL \/ pos[2] # NULL THEN pos[1] ELSE d.tail) = p
        /\ (IF pos[2] = NULL \/ pos[1] # NULL THEN pos[2] ELSE d.head) = n
    BY <1>3, <1>5
  <2>2. Relinked(f, p, n, id, id) =
          [d.nodes EXCEPT ![id] = new,
                          ![p].nextId = IF p = NULL THEN @ ELSE id,
                          ![n].prevId = IF n = NULL THEN @ ELSE id]
    BY <1>4, <1>5 DEF Relinked
  <2>3. e = [head  |-> IF pos[1] = NULL THEN id ELSE d.head,
             tail  |-> IF pos[2] = NULL THEN id ELSE d.tail,
             size  |-> d.size + 1,
             nodes |-> [d.nodes EXCEPT ![id] = new,
                          ![p].nextId = IF p = NULL THEN @ ELSE id,
                          ![n].prevId = IF n = NULL THEN @ ELSE id]]
    BY <2>1 DEF Inserted, pos
  <2> QED BY <1>3, <2>2, <2>3
<1>7. new \in Node
  BY <1>5 DEF Node
<1>8. /\ f \in [Addresses -> Node] /\ f[id] = new
      /\ \A a \in Addresses : a # id => f[a] = d.nodes[a]
  <2> HIDE DEF new
  <2> QED BY <1>4, <1>7
<1> HIDE DEF f, e
<1>9. IsRelinked(Relinked(f, p, n, id, id), f, p, n, id, id)
  BY <1>4, <1>5, <1>8, RelinkedNodes
<1> DEFINE g == Relinked(f, p, n, id, id)
<1>10. e.head = (IF p = NULL THEN id ELSE d.head) /\ e.tail = (IF n = NULL THEN id ELSE d.tail)
       /\ e.size = d.size + 1 /\ e.nodes = g
  BY <1>6
<1> HIDE DEF g, new
<1>11. DataType(e)
  <2>1. g \in [Addresses -> Node] /\ d.size + 1 \in Nat
    BY <1>4, <1>9 DEF g, IsRelinked
  <2> QED BY <1>4, <1>6, <2>1 DEF DataType, g
<1>12. LinksIn(e, d, id, icr, p, n)
  <2>1. g[id] = new
    BY <1>4, <1>5, <1>8, <1>9 DEF g, IsRelinked
  <2>2. ASSUME NEW a \in Addresses, a # id
        PROVE  /\ g[a].exists = d.nodes[a].exists /\ g[a].ICR = d.nodes[a].ICR
               /\ g[a].nextId = IF a = p /\ p # NULL THEN id ELSE d.nodes[a].nextId
               /\ g[a].prevId = IF a = n /\ n # NULL THEN id ELSE d.nodes[a].prevId
               /\ (a # p /\ a # n) \/ a = NULL => g[a] = d.nodes[a]
    BY <1>8, <1>9, <2>2 DEF g, IsRelinked
  <2> QED BY <1>10, <1>11, <2>1, <2>2 DEF LinksIn, new
<1>13. hinted => prevHint = p /\ nextHint = n
  <2>1. hinted => pos = <<prevHint, nextHint>>
    BY DEF pos
  <2> QED BY <1>3, <2>1
<1> QED BY <1>2, <1>12, <1>13 DEF e, p, n

-----------------------------------------------------------------------------
(* The struct after _insert describes the list with the node in its place. *)

LEMMA InsertionLinked ==
  ASSUME NEW d, NEW l, Linked(d, l), NEW id \in Ids, id \notin ToSet(l), NEW icr \in Nat, icr # 0,
         NEW k \in 1..(Len(l) + 1), Place(d, l, icr, k),
         NEW e, LinksIn(e, d, id, icr, At(l, k - 1), At(l, k))
  PROVE  Linked(e, InsertAt(l, k, id))
<1> DEFINE m == InsertAt(l, k, id)
           p == At(l, k - 1)
           n == At(l, k)
<1>1. /\ l \in Seq(Ids) /\ IsInjective(l) /\ DataType(d)
      /\ d.size = Len(l) /\ d.head = At(l, 1) /\ d.tail = At(l, Len(l))
      /\ Len(l) \in Nat /\ k \in Int /\ id \in Addresses /\ id # NULL
  BY LenProperties, NullIsNobody DEF Linked, Chained
<1>2. /\ m \in Seq(Ids) /\ IsInjective(m) /\ Len(m) = Len(l) + 1
      /\ ToSet(m) = ToSet(l) \cup {id}
      /\ \A i \in Int : At(m, i) = IF i < k THEN At(l, i) ELSE IF i = k THEN id ELSE At(l, i - 1)
  BY <1>1, ListWith
<1>3. /\ \A i \in 1..Len(l) : At(l, i) = l[i] /\ l[i] \in ToSet(l) /\ l[i] \in Addresses /\ l[i] # id
      /\ \A i \in Int : At(l, i) \in Addresses /\ (At(l, i) = NULL <=> i \notin 1..Len(l))
      /\ DOMAIN l = 1..Len(l)
  BY <1>1, Members, NullIsNobody
<1>4. \A i \in 1..(Len(l) + 1) : m[i] = At(m, i)
  BY <1>2, Members
<1>5. \A i \in 1..Len(l) : /\ d.nodes[l[i]].exists /\ d.nodes[l[i]].ICR # 0
                           /\ d.nodes[l[i]].nextId = At(l, i + 1)
                           /\ d.nodes[l[i]].prevId = At(l, i - 1)
                           /\ d.nodes[l[i]].ICR \in Nat
  BY <1>1, <1>3, Fields DEF Linked, Chained
<1>6. \A i \in 1..Len(l) : /\ l[i] = p /\ p # NULL <=> i = k - 1
                           /\ l[i] = n /\ n # NULL <=> i = k
  <2> SUFFICES ASSUME NEW i \in 1..Len(l)
               PROVE  (l[i] = p /\ p # NULL <=> i = k - 1) /\ (l[i] = n /\ n # NULL <=> i = k)
    OBVIOUS
  <2>1. ASSUME NEW j \in Int
        PROVE  l[i] = At(l, j) /\ At(l, j) # NULL <=> i = j
    <3>1. CASE j \in 1..Len(l)
      BY <1>1, <1>3, <3>1 DEF IsInjective
    <3>2. CASE j \notin 1..Len(l)
      BY <1>3, <3>2
    <3> QED BY <3>1, <3>2
  <2>2. k - 1 \in Int
    BY <1>1
  <2> QED BY <1>1, <2>1, <2>2
<1>7. /\ DataType(e) /\ e.size = d.size + 1
      /\ e.head = (IF p = NULL THEN id ELSE d.head)
      /\ e.tail = (IF n = NULL THEN id ELSE d.tail)
      /\ e.nodes[id] = [exists |-> TRUE, nextId |-> n, prevId |-> p, ICR |-> icr]
  BY DEF LinksIn
<1>8. ASSUME NEW a \in Addresses, a # id
      PROVE  /\ e.nodes[a].exists = d.nodes[a].exists /\ e.nodes[a].ICR = d.nodes[a].ICR
             /\ e.nodes[a].nextId = IF a = p /\ p # NULL THEN id ELSE d.nodes[a].nextId
             /\ e.nodes[a].prevId = IF a = n /\ n # NULL THEN id ELSE d.nodes[a].prevId
             /\ (a # p /\ a # n) \/ a = NULL => e.nodes[a] = d.nodes[a]
  BY <1>8 DEF LinksIn
<1> HIDE DEF m
\* The nodes below and above the new one, and the new one.
<1>9. ASSUME NEW i \in 1..Len(l)
      PROVE  /\ e.nodes[l[i]].exists /\ e.nodes[l[i]].ICR = d.nodes[l[i]].ICR
             /\ e.nodes[l[i]].nextId = IF i = k - 1 THEN id ELSE At(l, i + 1)
             /\ e.nodes[l[i]].prevId = IF i = k THEN id ELSE At(l, i - 1)
  <2>1. l[i] \in Addresses /\ l[i] # id
    BY <1>3
  <2> HIDE DEF p, n
  <2> QED BY <1>5, <1>6, <1>8, <2>1
<1>10. ASSUME NEW i \in 1..(Len(l) + 1)
       PROVE  /\ i < k => /\ i \in 1..Len(l) /\ m[i] = l[i]
                          /\ At(m, i + 1) = IF i = k - 1 THEN id ELSE At(l, i + 1)
                          /\ At(m, i - 1) = At(l, i - 1)
              /\ i = k => m[i] = id /\ At(m, i + 1) = n /\ At(m, i - 1) = p
              /\ i > k => /\ i - 1 \in 1..Len(l) /\ m[i] = l[i - 1]
                          /\ At(m, i + 1) = At(l, i)
                          /\ At(m, i - 1) = IF i - 1 = k THEN id ELSE At(l, i - 2)
  <2>1. m[i] = At(m, i)
    BY <1>4
  <2>2. i \in Int /\ i + 1 \in Int /\ i - 1 \in Int /\ (i + 1) - 1 = i /\ (i - 1) - 1 = i - 2
    OBVIOUS
  <2>3. CASE i < k
    <3>1. i \in 1..Len(l) /\ i - 1 < k /\ (i + 1 < k \/ i + 1 = k) /\ (i + 1 = k <=> i = k - 1)
      BY <1>1, <2>3
    <3> QED BY <1>2, <1>3, <2>1, <2>2, <2>3, <3>1
  <2>4. CASE i = k
    <3>1. i - 1 < k /\ i + 1 > k /\ ~(i + 1 = k)
      BY <2>4
    <3> QED BY <1>2, <2>1, <2>2, <2>4, <3>1
  <2>5. CASE i > k
    <3>1. i - 1 \in 1..Len(l) /\ i + 1 > k /\ (i - 1 = k \/ i - 1 > k)
      BY <1>1, <2>5
    <3> QED BY <1>2, <1>3, <2>1, <2>2, <2>5, <3>1
  <2> QED BY <1>1, <2>3, <2>4, <2>5
<1>11. ASSUME NEW i \in 1..(Len(l) + 1)
       PROVE  /\ e.nodes[m[i]].exists /\ e.nodes[m[i]].ICR # 0
              /\ e.nodes[m[i]].nextId = At(m, i + 1)
              /\ e.nodes[m[i]].prevId = At(m, i - 1)
  <2> HIDE DEF p, n
  <2>1. CASE i < k
    <3>1. i # k
      BY <1>1, <2>1
    <3>2. /\ i \in 1..Len(l) /\ m[i] = l[i]
          /\ At(m, i + 1) = (IF i = k - 1 THEN id ELSE At(l, i + 1)) /\ At(m, i - 1) = At(l, i - 1)
      BY <1>10, <2>1
    <3>3. /\ e.nodes[l[i]].exists /\ e.nodes[l[i]].ICR # 0
          /\ e.nodes[l[i]].nextId = (IF i = k - 1 THEN id ELSE At(l, i + 1))
          /\ e.nodes[l[i]].prevId = At(l, i - 1)
      BY <1>5, <1>9, <3>1, <3>2
    <3> QED BY <3>2, <3>3
  <2>2. CASE i = k
    BY <1>7, <1>10, <2>2
  <2>3. CASE i > k
    <3> DEFINE j == i - 1
    <3>1. j \in 1..Len(l) /\ j # k - 1 /\ j + 1 = i /\ j - 1 = i - 2
      BY <1>1, <2>3
    <3>2. m[i] = l[j] /\ At(m, i + 1) = At(l, i) /\ At(m, i - 1) = IF j = k THEN id ELSE At(l, i - 2)
      BY <1>10, <2>3
    <3> HIDE DEF j
    <3>3. /\ e.nodes[l[j]].exists /\ e.nodes[l[j]].ICR # 0
          /\ e.nodes[l[j]].nextId = At(l, j + 1)
          /\ e.nodes[l[j]].prevId = IF j = k THEN id ELSE At(l, j - 1)
      BY <1>5, <1>9, <3>1
    <3> QED BY <3>1, <3>2, <3>3
  <2> QED BY <1>1, <2>1, <2>2, <2>3
<1>12. e.head = At(m, 1) /\ e.tail = At(m, Len(m))
  <2>1. p = NULL <=> k = 1
    <3>1. k - 1 \in Int /\ (k - 1 \in 1..Len(l) <=> k # 1)
      BY <1>1
    <3> QED BY <1>3, <3>1
  <2>2. n = NULL <=> k = Len(l) + 1
    <3>1. k \in 1..Len(l) <=> k # Len(l) + 1
      BY <1>1
    <3> QED BY <1>1, <1>3, <3>1
  <2> HIDE DEF p, n
  <2>3. e.head = At(m, 1)
    <3>1. 1 \in Int /\ (k # 1 => 1 < k)
      BY <1>1
    <3> QED BY <1>1, <1>2, <1>7, <2>1, <3>1
  <2>4. e.tail = At(m, Len(l) + 1)
    <3>1. /\ Len(l) + 1 \in Int /\ ~(Len(l) + 1 < k) /\ (Len(l) + 1) - 1 = Len(l)
      BY <1>1
    <3> QED BY <1>1, <1>2, <1>7, <2>2, <3>1
  <2> QED BY <1>2, <2>3, <2>4
<1>13. ASSUME NEW a \in Addresses, a \notin ToSet(m)
       PROVE  e.nodes[a] = NoNode
  <2>1. a # id /\ a \notin ToSet(l)
    BY <1>2, <1>13
  <2>2. d.nodes[a] = NoNode
    BY <2>1 DEF Linked, Chained
  <2>3. (a # p /\ a # n) \/ a = NULL
    <3>1. \A i \in Int : At(l, i) = a => a = NULL
      BY <1>3, <2>1
    <3>2. k - 1 \in Int
      BY <1>1
    <3> QED BY <1>1, <3>1, <3>2
  <2> QED BY <1>8, <2>1, <2>2, <2>3
<1>14. Chained(e, m)
  <2>1. e.size = Len(m)
    BY <1>1, <1>2, <1>7
  <2> QED BY <1>2, <1>11, <1>12, <1>13, <2>1 DEF Chained
<1>15. Ordered(e, m)
  <2> SUFFICES ASSUME NEW i \in 1..(Len(l) + 1), NEW j \in 1..(Len(l) + 1), i < j
               PROVE  e.nodes[m[i]].ICR >= e.nodes[m[j]].ICR
    BY <1>2 DEF Ordered
  <2>1. \A x, y \in 1..Len(l) : x < y => d.nodes[l[x]].ICR >= d.nodes[l[y]].ICR
    BY DEF Linked, Ordered
  <2>2. /\ \A x \in 1..(k - 1) : d.nodes[l[x]].ICR >= icr
        /\ \A x \in k..Len(l) : icr >= d.nodes[l[x]].ICR
    BY DEF Place
  <2>3. e.nodes[id].ICR = icr
    BY <1>7
  <2>4. \A x \in 1..Len(l) : e.nodes[l[x]].ICR = d.nodes[l[x]].ICR
    BY <1>9
  <2>5. /\ i < k => i \in 1..Len(l) /\ m[i] = l[i]
        /\ i = k => m[i] = id
        /\ i > k => i - 1 \in 1..Len(l) /\ m[i] = l[i - 1]
    BY <1>10
  <2>6. /\ j < k => j \in 1..Len(l) /\ m[j] = l[j]
        /\ j = k => m[j] = id
        /\ j > k => j - 1 \in 1..Len(l) /\ m[j] = l[j - 1]
    BY <1>10
  <2> HIDE DEF p, n
  <2>7. CASE j < k
    BY <1>1, <2>1, <2>4, <2>5, <2>6, <2>7
  <2>8. CASE j = k
    <3>1. i < k /\ i \in 1..(k - 1)
      BY <1>1, <2>8
    <3> QED BY <2>2, <2>3, <2>4, <2>5, <2>6, <2>8, <3>1
  <2>9. CASE j > k /\ i = k
    <3>1. j - 1 \in k..Len(l)
      BY <1>1, <2>9
    <3> QED BY <2>2, <2>3, <2>4, <2>5, <2>6, <2>9, <3>1
  <2>10. CASE j > k /\ i < k
    <3>1. i < j - 1
      BY <1>1, <2>10
    <3> QED BY <2>1, <2>4, <2>5, <2>6, <2>10, <3>1
  <2>11. CASE j > k /\ i > k
    <3>1. i - 1 < j - 1
      OBVIOUS
    <3> QED BY <2>1, <2>4, <2>5, <2>6, <2>11, <3>1
  <2> QED BY <1>1, <2>7, <2>8, <2>9, <2>10, <2>11
<1> QED BY <1>2, <1>7, <1>14, <1>15 DEF Linked, m

-----------------------------------------------------------------------------
(* The struct after _remove describes the list without the node.           *)

LEMMA RemovedLinks ==
  ASSUME NEW d, NEW l, Linked(d, l), NEW k \in 1..Len(l)
  PROVE  LinksOut(Removed(d, l[k]), d, l[k], At(l, k - 1), At(l, k + 1))
<1> DEFINE id == l[k]
           p == At(l, k - 1)
           n == At(l, k + 1)
           e == Removed(d, id)
<1>1. /\ l \in Seq(Ids) /\ IsInjective(l) /\ DataType(d) /\ Len(l) \in Nat
      /\ d.size = Len(l) /\ d.head = At(l, 1) /\ d.tail = At(l, Len(l))
      /\ d.nodes \in [Addresses -> Node] /\ d.size \in Nat
      /\ d.head \in Addresses /\ d.tail \in Addresses /\ k \in Int
  BY LenProperties DEF Linked, Chained, DataType
<1>2. /\ d.nodes[id].nextId = n /\ d.nodes[id].prevId = p
      /\ id \in Addresses /\ id # NULL /\ p \in Addresses /\ n \in Addresses
      /\ k = Len(l) <=> n = NULL
      /\ k = 1 <=> p = NULL
      /\ k + 1 \in 1..Len(l) => n = l[k + 1]
      /\ k - 1 \in 1..Len(l) => p = l[k - 1]
      /\ \A j \in 1..Len(l) : l[j] = id => j = k
  <2>1. k - 1 \in Int /\ k + 1 \in Int
    BY <1>1
  <2>2. p \in Addresses /\ n \in Addresses
    BY <1>1, <2>1, Members
  <2>3. /\ d.nodes[id].nextId = n /\ d.nodes[id].prevId = p
        /\ id \in Ids /\ id # NULL
        /\ k = Len(l) <=> n = NULL
        /\ k = 1 <=> p = NULL
        /\ \A j \in 1..Len(l) : l[j] = id => j = k
    BY Neighbours
  <2>4. (k + 1 \in 1..Len(l) => n = l[k + 1]) /\ (k - 1 \in 1..Len(l) => p = l[k - 1])
    BY Neighbours
  <2> QED BY <2>2, <2>3, <2>4, NullIsNobody
<1>3. /\ id = d.head <=> k = 1
      /\ id = d.tail <=> k = Len(l)
  <2>1. 1 \in 1..Len(l) /\ Len(l) \in 1..Len(l)
    BY <1>1
  <2>2. d.head = l[1] /\ d.tail = l[Len(l)]
    BY <1>1, <2>1, Members
  <2> QED BY <1>2, <2>1, <2>2
<1>4. id # p /\ id # n /\ (p # n \/ (p = NULL /\ n = NULL))
  <2>1. /\ k # Len(l) => k + 1 \in 1..Len(l) /\ k + 1 # k
        /\ k # 1 => k - 1 \in 1..Len(l) /\ k - 1 # k
        /\ k + 1 # k - 1
    BY <1>1
  <2>2. DOMAIN l = 1..Len(l)
    BY <1>1, Members
  <2>3. k # 1 /\ k # Len(l) => p # n
    <3>1. ASSUME k # 1, k # Len(l), l[k - 1] = l[k + 1]
          PROVE  FALSE
      <4>1. k - 1 = k + 1
        BY <1>1, <2>1, <2>2, <3>1 DEF IsInjective
      <4> QED BY <2>1, <4>1
    <3> QED BY <1>2, <2>1, <3>1
  <2> QED BY <1>2, <2>1, <2>3
<1> HIDE DEF id, p, n
<1> DEFINE f == Relinked(d.nodes, p, n, n, p)
           g == [f EXCEPT ![id] = NoNode]
<1>5. IsRelinked(f, d.nodes, p, n, n, p)
  BY <1>1, <1>2, <1>4, RelinkedNodes
<1>6. NoNode \in Node
  BY NullIsNobody DEF NoNode, Node
<1> HIDE DEF f
<1>7. /\ g \in [Addresses -> Node] /\ g[id] = NoNode
      /\ \A a \in Addresses : a # id => g[a] = f[a]
  BY <1>2, <1>5, <1>6 DEF IsRelinked
<1> HIDE DEF g
<1>8. /\ e.head = (IF p = NULL THEN n ELSE d.head)
      /\ e.tail = (IF n = NULL THEN p ELSE d.tail)
      /\ e.size = d.size - 1
      /\ DataType(e)
      /\ e.nodes[id] = NoNode
      /\ \A a \in Addresses : a # id => e.nodes[a] = f[a]
  <2>1. d.size - 1 \in Nat
    BY <1>1
  <2>2. CASE d.size > 1
    <3>1. k = 1 => k # Len(l)
      <4>1. Len(l) > 1
        BY <1>1, <2>2
      <4>2. PICK size \in Nat : size = Len(l)
        BY <1>1
      <4>3. Len(l) # 1
        BY <4>1, <4>2
      <4> QED BY <4>3
    <3>2. (IF id = d.head THEN NULL ELSE d.nodes[id].prevId) = p
          /\ (IF id # d.head /\ id = d.tail THEN NULL ELSE d.nodes[id].nextId) = n
      BY <1>2, <1>3, <3>1
    <3>3. /\ id = d.head <=> p = NULL
          /\ id # d.head /\ id = d.tail <=> n = NULL
      BY <1>2, <1>3, <3>1
    <3>4. e = [head  |-> IF id = d.head THEN n ELSE d.head,
               tail  |-> IF id # d.head /\ id = d.tail THEN p ELSE d.tail,
               size  |-> d.size - 1,
               nodes |-> [[d.nodes EXCEPT
                             ![p].nextId = IF id = d.head THEN @ ELSE n,
                             ![n].prevId = IF id # d.head /\ id = d.tail THEN @ ELSE p]
                           EXCEPT ![id] = NoNode]]
      BY <2>2, <3>2 DEF Removed
    <3>5. e = [head |-> IF p = NULL THEN n ELSE d.head, tail |-> IF n = NULL THEN p ELSE d.tail,
               size |-> d.size - 1, nodes |-> g]
      BY <3>3, <3>4 DEF f, g, Relinked
    <3> HIDE DEF e
    <3>6. e.nodes = g
      BY <3>5
    <3>7. DataType(e)
      BY <1>1, <1>2, <1>7, <2>1, <3>5 DEF DataType
    <3> QED BY <1>7, <3>5, <3>6, <3>7
  <2>3. CASE ~(d.size > 1)
    <3>1. k = 1 /\ k = Len(l)
      BY <1>1, <2>3
    <3>2. p = NULL /\ n = NULL
      BY <1>2, <3>1
    <3>3. e = [head |-> NULL, tail |-> NULL, size |-> d.size - 1,
               nodes |-> [d.nodes EXCEPT ![id] = NoNode]]
      BY <2>3 DEF Removed
    <3> DEFINE h == [d.nodes EXCEPT ![id] = NoNode]
    <3>4. /\ h \in [Addresses -> Node] /\ h[id] = NoNode
          /\ \A a \in Addresses : a # id => h[a] = d.nodes[a]
      BY <1>1, <1>2, <1>6
    <3>5. \A a \in Addresses : d.nodes[a] = f[a]
      BY <1>5, <3>2 DEF IsRelinked
    <3> HIDE DEF e, h
    <3>6. /\ e.nodes = h /\ e.head = NULL /\ e.tail = NULL /\ e.size = d.size - 1
      BY <3>3 DEF h
    <3>7. DataType(e)
      BY <2>1, <3>3, <3>4, NullIsNobody DEF DataType, h
    <3> QED BY <3>2, <3>4, <3>5, <3>6, <3>7
  <2> QED BY <2>2, <2>3
<1> HIDE DEF e
<1>9. ASSUME NEW a \in Addresses, a # id
      PROVE  /\ e.nodes[a].exists = d.nodes[a].exists /\ e.nodes[a].ICR = d.nodes[a].ICR
             /\ e.nodes[a].nextId = IF a = p /\ p # NULL THEN n ELSE d.nodes[a].nextId
             /\ e.nodes[a].prevId = IF a = n /\ n # NULL THEN p ELSE d.nodes[a].prevId
             /\ (a # p /\ a # n) \/ a = NULL => e.nodes[a] = d.nodes[a]
  BY <1>5, <1>8, <1>9 DEF IsRelinked
<1>10. LinksOut(e, d, id, p, n)
  BY <1>8, <1>9 DEF LinksOut
<1> QED BY <1>10 DEF e, id, p, n

LEMMA RemovalLinked ==
  ASSUME NEW d, NEW l, Linked(d, l), NEW k \in 1..Len(l),
         NEW e, LinksOut(e, d, l[k], At(l, k - 1), At(l, k + 1))
  PROVE  Linked(e, RemoveAt(l, k))
<1> DEFINE m == RemoveAt(l, k)
           p == At(l, k - 1)
           n == At(l, k + 1)
<1>1. /\ l \in Seq(Ids) /\ IsInjective(l) /\ DataType(d)
      /\ d.size = Len(l) /\ d.head = At(l, 1) /\ d.tail = At(l, Len(l))
      /\ Len(l) \in Nat /\ k \in Int
  BY LenProperties DEF Linked, Chained
<1>2. /\ m \in Seq(Ids) /\ IsInjective(m) /\ Len(m) = Len(l) - 1
      /\ ToSet(m) = ToSet(l) \ {l[k]}
      /\ \A i \in Int : At(m, i) = IF i < k THEN At(l, i) ELSE At(l, i + 1)
  BY <1>1, ListWithout
<1>3. /\ \A i \in 1..Len(l) : At(l, i) = l[i] /\ l[i] \in ToSet(l) /\ l[i] \in Addresses
      /\ \A i \in Int : At(l, i) \in Addresses /\ (At(l, i) = NULL <=> i \notin 1..Len(l))
      /\ DOMAIN l = 1..Len(l)
  BY <1>1, Members, NullIsNobody
<1>4. \A i \in 1..(Len(l) - 1) : m[i] = At(m, i)
  BY <1>2, Members
<1>5. \A i \in 1..Len(l) : /\ d.nodes[l[i]].exists /\ d.nodes[l[i]].ICR # 0
                           /\ d.nodes[l[i]].nextId = At(l, i + 1)
                           /\ d.nodes[l[i]].prevId = At(l, i - 1)
                           /\ d.nodes[l[i]].ICR \in Nat
  BY <1>1, <1>3, Fields DEF Linked, Chained
<1>6. \A i \in 1..Len(l) : /\ l[i] = p /\ p # NULL <=> i = k - 1
                           /\ l[i] = n /\ n # NULL <=> i = k + 1
                           /\ l[i] = l[k] <=> i = k
  <2> SUFFICES ASSUME NEW i \in 1..Len(l)
               PROVE  /\ l[i] = p /\ p # NULL <=> i = k - 1
                      /\ l[i] = n /\ n # NULL <=> i = k + 1
                      /\ l[i] = l[k] <=> i = k
    OBVIOUS
  <2>1. ASSUME NEW j \in Int
        PROVE  l[i] = At(l, j) /\ At(l, j) # NULL <=> i = j
    <3>1. CASE j \in 1..Len(l)
      BY <1>1, <1>3, <3>1 DEF IsInjective
    <3>2. CASE j \notin 1..Len(l)
      BY <1>3, <3>2
    <3> QED BY <3>1, <3>2
  <2>2. k - 1 \in Int /\ k + 1 \in Int
    BY <1>1
  <2>3. l[i] = l[k] <=> i = k
    BY <1>1, <1>3 DEF IsInjective
  <2> QED BY <1>1, <2>1, <2>2, <2>3
<1>7. /\ DataType(e) /\ e.size = d.size - 1
      /\ e.head = (IF p = NULL THEN n ELSE d.head)
      /\ e.tail = (IF n = NULL THEN p ELSE d.tail)
      /\ e.nodes[l[k]] = NoNode
  BY DEF LinksOut
<1>8. ASSUME NEW a \in Addresses, a # l[k]
      PROVE  /\ e.nodes[a].exists = d.nodes[a].exists /\ e.nodes[a].ICR = d.nodes[a].ICR
             /\ e.nodes[a].nextId = IF a = p /\ p # NULL THEN n ELSE d.nodes[a].nextId
             /\ e.nodes[a].prevId = IF a = n /\ n # NULL THEN p ELSE d.nodes[a].prevId
             /\ (a # p /\ a # n) \/ a = NULL => e.nodes[a] = d.nodes[a]
  BY <1>8 DEF LinksOut
<1> HIDE DEF m
<1>9. ASSUME NEW i \in 1..Len(l), i # k
      PROVE  /\ e.nodes[l[i]].exists /\ e.nodes[l[i]].ICR # 0
             /\ e.nodes[l[i]].ICR = d.nodes[l[i]].ICR
             /\ e.nodes[l[i]].nextId = IF i = k - 1 THEN At(l, k + 1) ELSE At(l, i + 1)
             /\ e.nodes[l[i]].prevId = IF i = k + 1 THEN At(l, k - 1) ELSE At(l, i - 1)
  <2>1. l[i] \in Addresses /\ l[i] # l[k]
    BY <1>3, <1>6, <1>9
  <2>2. /\ e.nodes[l[i]].nextId = IF i = k - 1 THEN n ELSE d.nodes[l[i]].nextId
        /\ e.nodes[l[i]].prevId = IF i = k + 1 THEN p ELSE d.nodes[l[i]].prevId
        /\ e.nodes[l[i]].exists = d.nodes[l[i]].exists
        /\ e.nodes[l[i]].ICR = d.nodes[l[i]].ICR
    <3> HIDE DEF p, n
    <3> QED BY <1>6, <1>8, <2>1
  <2> QED BY <1>5, <2>2
<1>10. ASSUME NEW i \in 1..(Len(l) - 1)
       PROVE  /\ i < k => /\ i \in 1..Len(l) /\ m[i] = l[i]
                          /\ At(m, i + 1) = IF i = k - 1 THEN At(l, k + 1) ELSE At(l, i + 1)
                          /\ At(m, i - 1) = At(l, i - 1)
              /\ i >= k => /\ i + 1 \in 1..Len(l) /\ m[i] = l[i + 1]
                           /\ At(m, i + 1) = At(l, i + 2)
                           /\ At(m, i - 1) = IF i = k THEN At(l, k - 1) ELSE At(l, i)
  <2>1. m[i] = At(m, i)
    BY <1>4
  <2>2. i \in Int /\ i + 1 \in Int /\ i - 1 \in Int /\ (i + 1) + 1 = i + 2 /\ (i - 1) + 1 = i
    OBVIOUS
  <2>3. ASSUME i < k
        PROVE  /\ i \in 1..Len(l) /\ m[i] = l[i]
               /\ At(m, i + 1) = IF i = k - 1 THEN At(l, k + 1) ELSE At(l, i + 1)
               /\ At(m, i - 1) = At(l, i - 1)
    <3>1. i \in 1..Len(l) /\ i - 1 < k /\ (i = k - 1 => i + 1 = k /\ ~(i + 1 < k)) /\ (i # k - 1 => i + 1 < k)
      BY <1>1, <2>3
    <3> QED BY <1>1, <1>2, <1>3, <2>1, <2>2, <2>3, <3>1
  <2>4. ASSUME i >= k
        PROVE  /\ i + 1 \in 1..Len(l) /\ m[i] = l[i + 1]
               /\ At(m, i + 1) = At(l, i + 2)
               /\ At(m, i - 1) = IF i = k THEN At(l, k - 1) ELSE At(l, i)
    <3>1. i + 1 \in 1..Len(l) /\ ~(i < k) /\ ~(i + 1 < k) /\ (i = k => i - 1 < k) /\ (i # k => ~(i - 1 < k))
      BY <1>1, <2>4
    <3> QED BY <1>1, <1>2, <1>3, <2>1, <2>2, <2>4, <3>1
  <2> QED BY <2>3, <2>4
<1>11. ASSUME NEW i \in 1..(Len(l) - 1)
       PROVE  /\ e.nodes[m[i]].exists /\ e.nodes[m[i]].ICR # 0
              /\ e.nodes[m[i]].nextId = At(m, i + 1)
              /\ e.nodes[m[i]].prevId = At(m, i - 1)
  <2>1. CASE i < k
    <3>1. i # k /\ i # k + 1
      BY <1>1, <2>1
    <3>2. /\ i \in 1..Len(l) /\ m[i] = l[i]
          /\ At(m, i + 1) = IF i = k - 1 THEN At(l, k + 1) ELSE At(l, i + 1)
          /\ At(m, i - 1) = At(l, i - 1)
      BY <1>10, <2>1
    <3>3. /\ e.nodes[l[i]].exists /\ e.nodes[l[i]].ICR # 0
          /\ e.nodes[l[i]].nextId = IF i = k - 1 THEN At(l, k + 1) ELSE At(l, i + 1)
          /\ e.nodes[l[i]].prevId = At(l, i - 1)
      BY <1>9, <3>1, <3>2
    <3> QED BY <3>2, <3>3
  <2>2. CASE i >= k
    <3> DEFINE j == i + 1
    <3>1. j \in 1..Len(l) /\ j # k /\ j # k - 1 /\ j + 1 = i + 2 /\ j - 1 = i /\ (j = k + 1 <=> i = k)
      BY <1>1, <2>2
    <3>2. m[i] = l[j] /\ At(m, i + 1) = At(l, i + 2)
          /\ At(m, i - 1) = IF i = k THEN At(l, k - 1) ELSE At(l, i)
      BY <1>10, <2>2
    <3> HIDE DEF j
    <3>3. /\ e.nodes[l[j]].exists /\ e.nodes[l[j]].ICR # 0
          /\ e.nodes[l[j]].nextId = At(l, j + 1)
          /\ e.nodes[l[j]].prevId = IF j = k + 1 THEN At(l, k - 1) ELSE At(l, j - 1)
      BY <1>9, <3>1
    <3> QED BY <3>1, <3>2, <3>3
  <2> QED BY <1>1, <2>1, <2>2
<1>12. e.head = At(m, 1) /\ e.tail = At(m, Len(m))
  <2>1. p = NULL <=> k = 1
    <3>1. k - 1 \in Int /\ (k - 1 \in 1..Len(l) <=> k # 1)
      BY <1>1
    <3> QED BY <1>3, <3>1
  <2>2. n = NULL <=> k = Len(l)
    <3>1. k + 1 \in Int /\ (k + 1 \in 1..Len(l) <=> k # Len(l))
      BY <1>1
    <3> QED BY <1>3, <3>1
  <2>3. e.head = At(m, 1)
    <3>1. CASE k = 1
      <4>1. At(m, 1) = At(l, k + 1)
        BY <1>2, <3>1
      <4> QED BY <1>7, <2>1, <3>1, <4>1
    <3>2. CASE k # 1
      <4>1. At(m, 1) = At(l, 1)
        BY <1>1, <1>2, <3>2
      <4> QED BY <1>1, <1>7, <2>1, <3>2, <4>1
    <3> QED BY <3>1, <3>2
  <2>4. e.tail = At(m, Len(l) - 1)
    <3>1. CASE k = Len(l)
      <4>1. Len(l) - 1 \in Int /\ Len(l) - 1 < k /\ k - 1 = Len(l) - 1
        BY <1>1, <3>1
      <4>2. At(m, Len(l) - 1) = At(l, k - 1)
        BY <1>2, <4>1
      <4> QED BY <1>7, <2>2, <3>1, <4>2
    <3>2. CASE k # Len(l)
      <4>1. Len(l) - 1 \in Int /\ ~(Len(l) - 1 < k) /\ (Len(l) - 1) + 1 = Len(l)
        BY <1>1, <3>2
      <4>2. At(m, Len(l) - 1) = At(l, Len(l))
        BY <1>2, <4>1
      <4> QED BY <1>1, <1>7, <2>2, <3>2, <4>2
    <3> QED BY <3>1, <3>2
  <2> QED BY <1>2, <2>3, <2>4
<1>13. ASSUME NEW a \in Addresses, a \notin ToSet(m)
       PROVE  e.nodes[a] = NoNode
  <2>1. CASE a = l[k]
    BY <1>7, <2>1
  <2>2. CASE a # l[k]
    <3>1. a \notin ToSet(l)
      BY <1>2, <1>13, <2>2
    <3>2. d.nodes[a] = NoNode
      BY <3>1 DEF Linked, Chained
    <3>3. (a # p /\ a # n) \/ a = NULL
      <4>1. \A i \in Int : At(l, i) = a => a = NULL
        BY <1>3, <3>1
      <4>2. k - 1 \in Int /\ k + 1 \in Int
        BY <1>1
      <4> QED BY <4>1, <4>2
    <3> QED BY <1>8, <2>2, <3>2, <3>3
  <2> QED BY <2>1, <2>2
<1>14. Chained(e, m)
  <2>1. e.size = Len(m)
    BY <1>1, <1>2, <1>7
  <2> QED BY <1>2, <1>11, <1>12, <1>13, <2>1 DEF Chained
<1>15. Ordered(e, m)
  <2> SUFFICES ASSUME NEW i \in 1..(Len(l) - 1), NEW j \in 1..(Len(l) - 1), i < j
               PROVE  e.nodes[m[i]].ICR >= e.nodes[m[j]].ICR
    BY <1>2 DEF Ordered
  <2> DEFINE x == IF i < k THEN i ELSE i + 1
             y == IF j < k THEN j ELSE j + 1
  <2>1. x \in 1..Len(l) /\ y \in 1..Len(l) /\ x < y /\ x # k /\ y # k
    BY <1>1
  <2>2. m[i] = l[x] /\ m[j] = l[y]
    <3>1. (i < k => m[i] = l[i]) /\ (i >= k => m[i] = l[i + 1])
      BY <1>10
    <3>2. (j < k => m[j] = l[j]) /\ (j >= k => m[j] = l[j + 1])
      BY <1>10
    <3> QED BY <1>1, <3>1, <3>2
  <2> HIDE DEF x, y
  <2>3. e.nodes[l[x]].ICR = d.nodes[l[x]].ICR /\ e.nodes[l[y]].ICR = d.nodes[l[y]].ICR
    BY <1>9, <2>1
  <2>4. d.nodes[l[x]].ICR >= d.nodes[l[y]].ICR
    BY <2>1 DEF Linked, Ordered
  <2> QED BY <2>2, <2>3, <2>4
<1> QED BY <1>2, <1>7, <1>14, <1>15 DEF Linked, m

-----------------------------------------------------------------------------
(* Reading the links gives the list they describe, in both directions.     *)

HeadList(d) ==
  LET at[k \in 1..d.size] == IF k = 1 THEN d.head ELSE d.nodes[at[k - 1]].nextId
  IN  [k \in 1..d.size |-> at[k]]

TailList(d) ==
  LET at[k \in 1..d.size] == IF k = 1 THEN d.tail ELSE d.nodes[at[k - 1]].prevId
  IN  [k \in 1..d.size |-> at[k]]

LEMMA ReadFromHead == FromHead = HeadList(data)
BY DEF FromHead, Follow, HeadList

LEMMA ReadFromTail == FromTail = TailList(data)
BY DEF FromTail, Follow, TailList

LEMMA HeadListIs ==
  ASSUME NEW d, NEW l, Linked(d, l)
  PROVE  HeadList(d) = l
<1> DEFINE IsAt(at) == at = [k \in 1..d.size |-> IF k = 1 THEN d.head ELSE d.nodes[at[k - 1]].nextId]
<1>1. /\ l \in Seq(Ids) /\ Len(l) \in Nat /\ d.size = Len(l) /\ d.head = At(l, 1)
      /\ l = [k \in 1..Len(l) |-> l[k]]
      /\ Len(l) >= 1 => l[1] = d.head
  <2>1. l \in Seq(Ids) /\ Len(l) \in Nat /\ d.size = Len(l) /\ d.head = At(l, 1)
    BY LenProperties DEF Linked, Chained
  <2>2. Len(l) >= 1 => 1 \in 1..Len(l)
    BY <2>1
  <2> QED BY <2>1, <2>2, Members
<1>2. ASSUME NEW k \in 1..Len(l), k # 1
      PROVE  l[k] = d.nodes[l[k - 1]].nextId
  <2>1. k - 1 \in 1..Len(l) /\ (k - 1) + 1 = k
    BY <1>1, <1>2
  <2>2. d.nodes[l[k - 1]].nextId = At(l, (k - 1) + 1)
    BY <2>1, NodeAt
  <2> QED BY <1>1, <2>1, <2>2, Members
<1>3. IsAt(l)
  <2>1. \A k \in 1..Len(l) : l[k] = IF k = 1 THEN d.head ELSE d.nodes[l[k - 1]].nextId
    BY <1>1, <1>2
  <2> QED BY <1>1, <2>1
<1>4. PICK at : IsAt(at) /\ HeadList(d) = [k \in 1..d.size |-> at[k]]
  <2>1. \E at : IsAt(at)
    BY <1>3
  <2> QED BY <2>1 DEF HeadList
<1>5. \A k \in 1..Len(l) : at[k] = IF k = 1 THEN d.head ELSE d.nodes[at[k - 1]].nextId
  BY <1>1, <1>4
<1> HIDE DEF IsAt
<1>6. \A k \in 1..Len(l) : at[k] = l[k]
  <2>1. Len(l) >= 1 => at[1] = l[1]
    BY <1>1, <1>5
  <2>2. \A k \in 1..Len(l) : k # 1 /\ at[k - 1] = l[k - 1] => at[k] = l[k]
    BY <1>2, <1>5
  <2>3. PICK n \in Nat : n = Len(l)
    BY <1>1
  <2>4. \A k \in 1..n : at[k] = l[k]
    <3>1. /\ n >= 1 => at[1] = l[1]
          /\ \A k \in 1..n : k # 1 /\ at[k - 1] = l[k - 1] => at[k] = l[k]
      BY <2>1, <2>2, <2>3
    <3> QED BY <3>1, SameReading
  <2> QED BY <2>3, <2>4
<1> QED BY <1>1, <1>4, <1>6

LEMMA TailListIs ==
  ASSUME NEW d, NEW l, Linked(d, l)
  PROVE  TailList(d) = Reverse(l)
<1> DEFINE IsAt(at) == at = [k \in 1..d.size |-> IF k = 1 THEN d.tail ELSE d.nodes[at[k - 1]].prevId]
           r == [k \in 1..Len(l) |-> l[(Len(l) - k) + 1]]
<1>1. /\ l \in Seq(Ids) /\ Len(l) \in Nat /\ d.size = Len(l) /\ d.tail = At(l, Len(l))
      /\ Len(l) >= 1 => r[1] = d.tail
  <2>1. l \in Seq(Ids) /\ Len(l) \in Nat /\ d.size = Len(l) /\ d.tail = At(l, Len(l))
    BY LenProperties DEF Linked, Chained
  <2>2. Len(l) >= 1 => 1 \in 1..Len(l) /\ Len(l) \in 1..Len(l) /\ (Len(l) - 1) + 1 = Len(l)
    BY <2>1
  <2>3. Len(l) >= 1 => r[1] = l[Len(l)] /\ d.tail = l[Len(l)]
    BY <2>1, <2>2, Members
  <2> QED BY <2>1, <2>3
<1>2. ASSUME NEW k \in 1..Len(l), k # 1
      PROVE  r[k] = d.nodes[r[k - 1]].prevId
  <2> DEFINE i == (Len(l) - (k - 1)) + 1
  <2>1. k - 1 \in 1..Len(l) /\ i \in 1..Len(l) /\ i - 1 = (Len(l) - k) + 1 /\ i - 1 \in 1..Len(l)
    BY <1>1, <1>2
  <2>2. r[k - 1] = l[i] /\ r[k] = l[i - 1]
    BY <2>1
  <2> HIDE DEF i, r
  <2>3. d.nodes[l[i]].prevId = At(l, i - 1)
    BY <2>1, NodeAt
  <2> QED BY <1>1, <2>1, <2>2, <2>3, Members
<1>3. IsAt(r)
  <2>1. \A k \in 1..Len(l) : r[k] = IF k = 1 THEN d.tail ELSE d.nodes[r[k - 1]].prevId
    BY <1>1, <1>2
  <2>2. r = [k \in 1..Len(l) |-> r[k]]
    OBVIOUS
  <2> HIDE DEF r
  <2> QED BY <1>1, <2>1, <2>2
<1>4. PICK at : IsAt(at) /\ TailList(d) = [k \in 1..d.size |-> at[k]]
  <2>1. \E at : IsAt(at)
    BY <1>3
  <2> QED BY <2>1 DEF TailList
<1>5. \A k \in 1..Len(l) : at[k] = IF k = 1 THEN d.tail ELSE d.nodes[at[k - 1]].prevId
  BY <1>1, <1>4
<1>6. Reverse(l) = r
  BY DEF Reverse
<1>7. r = [k \in 1..Len(l) |-> r[k]]
  OBVIOUS
<1> HIDE DEF IsAt, r
<1>8. \A k \in 1..Len(l) : at[k] = r[k]
  <2>1. Len(l) >= 1 => at[1] = r[1]
    BY <1>1, <1>5
  <2>2. \A k \in 1..Len(l) : k # 1 /\ at[k - 1] = r[k - 1] => at[k] = r[k]
    BY <1>2, <1>5
  <2> QED BY <1>1, <2>1, <2>2, SameReading
<1> QED BY <1>1, <1>4, <1>6, <1>7, <1>8

-----------------------------------------------------------------------------
(* The calls, on the list that the struct describes.                       *)

\* What insert does to the list: the node lands in a place for its ICR, the
\* named one when the hint is valid, and the other ICRs stay.
Gains(d, l, e, id, icr, k) ==
  /\ Place(d, l, icr, k)
  /\ Linked(e, InsertAt(l, k, id))
  /\ e.nodes[id].ICR = icr
  /\ \A a \in Addresses : a # id => e.nodes[a].ICR = d.nodes[a].ICR

LEMMA InsertCall ==
  ASSUME NEW d, NEW l, Linked(d, l), NEW id \in Ids, ~Holds(d, id), NEW icr \in Nat, icr # 0,
         NEW p \in Addresses, NEW n \in Addresses
  PROVE  \E k \in 1..(Len(l) + 1) : Gains(d, l, Inserted(d, id, icr, p, n), id, icr, k)
<1> DEFINE e == Inserted(d, id, icr, p, n)
<1>1. id \in Addresses /\ id \notin ToSet(l)
  BY InAndOut, NullIsNobody
<1>2. PICK k \in 1..(Len(l) + 1) :
        /\ Place(d, l, icr, k)
        /\ LinksIn(e, d, id, icr, At(l, k - 1), At(l, k))
  BY <1>1, InsertedLinks
<1> HIDE DEF e
<1>3. Linked(e, InsertAt(l, k, id))
  BY <1>1, <1>2, InsertionLinked
<1>4. e.nodes[id].ICR = icr /\ \A a \in Addresses : a # id => e.nodes[a].ICR = d.nodes[a].ICR
  BY <1>2 DEF LinksIn
<1>5. Gains(d, l, e, id, icr, k)
  BY <1>2, <1>3, <1>4 DEF Gains
<1> QED BY <1>5 DEF e

\* A valid hint names the neighbours that the node gets.
LEMMA HintedCall ==
  ASSUME NEW d, NEW l, Linked(d, l), NEW id \in Ids, ~Holds(d, id), NEW icr \in Nat, icr # 0,
         NEW p \in Addresses, NEW n \in Addresses, ValidInsertPosition(d, icr, p, n)
  PROVE  Between(Inserted(d, id, icr, p, n), id, p, n)
<1> DEFINE e == Inserted(d, id, icr, p, n)
<1>1. id \in Addresses /\ id \notin ToSet(l) /\ l \in Seq(Ids) /\ Len(l) \in Nat
  BY InAndOut, NullIsNobody, LenProperties DEF Linked
<1>2. PICK k \in 1..(Len(l) + 1) :
        /\ p = At(l, k - 1) /\ n = At(l, k)
        /\ LinksIn(e, d, id, icr, At(l, k - 1), At(l, k))
  BY <1>1, InsertedLinks
<1> HIDE DEF e
<1>3. LinksIn(e, d, id, icr, p, n)
  BY <1>2
<1>4. p # NULL => p # id
  <2>1. k - 1 \in Int /\ (k - 1 \in 1..Len(l) => At(l, k - 1) \in ToSet(l))
    BY <1>1, Members
  <2>2. At(l, k - 1) # NULL => k - 1 \in 1..Len(l)
    BY <1>1, <2>1, Members
  <2> QED BY <1>1, <1>2, <2>1, <2>2
<1>5. n # NULL => n # id
  <2>1. k \in Int /\ (k \in 1..Len(l) => At(l, k) \in ToSet(l))
    BY <1>1, Members
  <2>2. At(l, k) # NULL => k \in 1..Len(l)
    BY <1>1, <2>1, Members
  <2> QED BY <1>1, <1>2, <2>1, <2>2
<1>6. e.nodes[id].prevId = p /\ e.nodes[id].nextId = n
  BY <1>3 DEF LinksIn
<1>7. (p # NULL => e.nodes[p].nextId = id) /\ (n # NULL => e.nodes[n].prevId = id)
  BY <1>3, <1>4, <1>5 DEF LinksIn
<1>8. Between(e, id, p, n)
  BY <1>6, <1>7 DEF Between
<1> QED BY <1>8 DEF e

\* What remove does to the list.
Loses(d, l, e, id, k) ==
  /\ k \in 1..Len(l) /\ l[k] = id
  /\ Linked(e, RemoveAt(l, k))
  /\ e.size = d.size - 1
  /\ e.nodes[id] = NoNode
  /\ \A a \in Addresses : a # id => e.nodes[a].ICR = d.nodes[a].ICR

LEMMA RemoveCall ==
  ASSUME NEW d, NEW l, Linked(d, l), NEW id \in Ids, Holds(d, id)
  PROVE  \E k \in 1..Len(l) : Loses(d, l, Removed(d, id), id, k)
<1> DEFINE e == Removed(d, id)
<1>1. l \in Seq(Ids) /\ id \in ToSet(l)
  BY InAndOut, NullIsNobody DEF Linked
<1>2. PICK k \in 1..Len(l) : l[k] = id
  BY <1>1, Members
<1>3. LinksOut(e, d, l[k], At(l, k - 1), At(l, k + 1))
  BY <1>2, RemovedLinks
<1> HIDE DEF e
<1>4. Linked(e, RemoveAt(l, k))
  BY <1>3, RemovalLinked
<1>5. e.nodes[id] = NoNode /\ e.size = d.size - 1
      /\ \A a \in Addresses : a # id => e.nodes[a].ICR = d.nodes[a].ICR
  BY <1>2, <1>3 DEF LinksOut
<1>6. Loses(d, l, e, id, k)
  BY <1>2, <1>4, <1>5 DEF Loses
<1> QED BY <1>6 DEF e

-----------------------------------------------------------------------------
(* The invariant: the struct describes a list of at most maxSize owners,   *)
(* and the calls on it are calls on the abstract list.                     *)

LinkedList == Linked(data, FromHead) /\ data.size <= MaxSize

ICRsOf(d) == [id \in Ids |-> d.nodes[id].ICR]

\* The abstract calls, from a list l with ICRs r to a list m with ICRs q.
Enters(l, r, m, q, id, icr) ==
  /\ id \notin ToSet(l) /\ Len(l) < MaxSize /\ icr # 0
  /\ m \in Abstract!Placements(l, r, id, icr) /\ q = [r EXCEPT ![id] = icr]

Moves(l, r, m, q, id, icr) ==
  /\ id \in ToSet(l) /\ icr # 0
  /\ m \in Abstract!Replacements(l, r, id, icr) /\ q = [r EXCEPT ![id] = icr]

Leaves(l, r, m, q, id) ==
  /\ id \in ToSet(l)
  /\ m = Abstract!Without(l, id) /\ q = [r EXCEPT ![id] = 0]

LEMMA PlaceFits ==
  ASSUME NEW l \in Seq(Ids), NEW d, NEW r, \A a \in ToSet(l) : d.nodes[a].ICR = r[a],
         NEW id, NEW icr, NEW k \in 1..(Len(l) + 1), Place(d, l, icr, k)
  PROVE  InsertAt(l, k, id) \in Abstract!Placements(l, r, id, icr)
<1>1. Len(l) \in Nat /\ \A i \in 1..Len(l) : l[i] \in ToSet(l)
  BY Members
<1>2. Abstract!Fits(l, r, icr, k)
  <2>1. ASSUME NEW i \in 1..(k - 1)
        PROVE  r[l[i]] >= icr
    <3>1. i \in 1..Len(l) /\ d.nodes[l[i]].ICR >= icr
      BY <1>1 DEF Place
    <3> QED BY <1>1, <3>1
  <2>2. ASSUME NEW i \in k..Len(l)
        PROVE  icr >= r[l[i]]
    <3>1. i \in 1..Len(l) /\ icr >= d.nodes[l[i]].ICR
      BY <1>1 DEF Place
    <3> QED BY <1>1, <3>1
  <2> QED BY <2>1, <2>2 DEF Abstract!Fits
<1>3. InsertAt(l, k, id) = Abstract!InsertAt(l, k, id)
  BY DEF InsertAt, Abstract!InsertAt
<1> QED BY <1>2, <1>3 DEF Abstract!Placements

LEMMA InsertStep ==
  ASSUME NEW d, NEW l, Linked(d, l), d.size <= MaxSize,
         NEW id \in Ids, NEW icr \in Nat, NEW p \in Addresses, NEW n \in Addresses,
         CanInsert(d, id, icr)
  PROVE  LET e == Inserted(d, id, icr, p, n)
         IN  /\ Linked(e, HeadList(e)) /\ e.size <= MaxSize
             /\ Enters(l, ICRsOf(d), HeadList(e), ICRsOf(e), id, icr)
<1> DEFINE e == Inserted(d, id, icr, p, n)
<1>1. /\ l \in Seq(Ids) /\ IsInjective(l) /\ Len(l) \in Nat /\ d.size = Len(l)
      /\ icr # 0 /\ ~Holds(d, id) /\ d.size < MaxSize /\ id \notin ToSet(l) /\ MaxSize \in Nat
  <2>1. l \in Seq(Ids) /\ IsInjective(l) /\ Len(l) \in Nat /\ d.size = Len(l)
    BY LenProperties DEF Linked, Chained
  <2>2. icr # 0 /\ ~Holds(d, id) /\ d.size # MaxSize
    BY DEF CanInsert
  <2>3. id \notin ToSet(l)
    BY <2>2, InAndOut, NullIsNobody
  <2> QED BY <2>1, <2>2, <2>3, SortedTrovesAssumption
<1>2. PICK k \in 1..(Len(l) + 1) : Gains(d, l, e, id, icr, k)
  BY <1>1, InsertCall
<1> HIDE DEF e
<1>3. HeadList(e) = InsertAt(l, k, id) /\ Linked(e, HeadList(e))
  BY <1>2, HeadListIs DEF Gains
<1>4. e.size <= MaxSize
  <2>1. e.size = Len(l) + 1
    BY <1>1, <1>2, ListWith DEF Gains, Linked, Chained
  <2> QED BY <1>1, <2>1
<1>5. ICRsOf(e) = [ICRsOf(d) EXCEPT ![id] = icr]
  BY <1>2, NullIsNobody DEF Gains, ICRsOf
<1>6. HeadList(e) \in Abstract!Placements(l, ICRsOf(d), id, icr)
  <2>1. \A a \in ToSet(l) : d.nodes[a].ICR = ICRsOf(d)[a]
    BY <1>1, Members DEF ICRsOf
  <2> QED BY <1>1, <1>2, <1>3, <2>1, PlaceFits DEF Gains
<1>7. Enters(l, ICRsOf(d), HeadList(e), ICRsOf(e), id, icr)
  BY <1>1, <1>5, <1>6 DEF Enters
<1> QED BY <1>3, <1>4, <1>7 DEF e

\* The place the abstract list removes is the one the node has.
LEMMA WithoutIs ==
  ASSUME NEW l \in Seq(Ids), IsInjective(l), NEW k \in 1..Len(l)
  PROVE  Abstract!Without(l, l[k]) = RemoveAt(l, k)
<1>1. DOMAIN l = 1..Len(l)
  BY Members
<1>2. (CHOOSE j \in DOMAIN l : l[j] = l[k]) = k
  BY <1>1 DEF IsInjective
<1> QED BY <1>2 DEF Abstract!Without, Abstract!RemoveAt, RemoveAt

LEMMA RemoveStep ==
  ASSUME NEW d, NEW l, Linked(d, l), d.size <= MaxSize, NEW id \in Ids, Holds(d, id)
  PROVE  LET e == Removed(d, id)
         IN  /\ Linked(e, HeadList(e)) /\ e.size < MaxSize /\ ~Holds(e, id)
             /\ Leaves(l, ICRsOf(d), HeadList(e), ICRsOf(e), id)
<1> DEFINE e == Removed(d, id)
<1>1. /\ l \in Seq(Ids) /\ IsInjective(l) /\ Len(l) \in Nat /\ d.size = Len(l)
      /\ id \in ToSet(l) /\ MaxSize \in Nat
  BY LenProperties, InAndOut, NullIsNobody, SortedTrovesAssumption DEF Linked, Chained
<1>2. PICK k \in 1..Len(l) : Loses(d, l, e, id, k)
  BY RemoveCall
<1> HIDE DEF e
<1>3. HeadList(e) = RemoveAt(l, k) /\ Linked(e, HeadList(e))
  BY <1>2, HeadListIs DEF Loses
<1>4. HeadList(e) = Abstract!Without(l, id)
  BY <1>1, <1>2, <1>3, WithoutIs DEF Loses
<1>5. e.size < MaxSize /\ ~Holds(e, id)
  BY <1>1, <1>2, NodeOutside DEF Loses, Holds
<1>6. ICRsOf(e) = [ICRsOf(d) EXCEPT ![id] = 0]
  BY <1>2, NullIsNobody, NodeOutside DEF Loses, ICRsOf
<1>7. Leaves(l, ICRsOf(d), HeadList(e), ICRsOf(e), id)
  BY <1>1, <1>4, <1>6 DEF Leaves
<1> QED BY <1>3, <1>5, <1>7 DEF e

LEMMA ReInsertStep ==
  ASSUME NEW d, NEW l, Linked(d, l), d.size <= MaxSize,
         NEW id \in Ids, NEW icr \in Nat, NEW p \in Addresses, NEW n \in Addresses,
         Holds(d, id), CanInsert(Removed(d, id), id, icr)
  PROVE  LET e == Inserted(Removed(d, id), id, icr, p, n)
         IN  /\ Linked(e, HeadList(e)) /\ e.size <= MaxSize
             /\ Moves(l, ICRsOf(d), HeadList(e), ICRsOf(e), id, icr)
<1> DEFINE c == Removed(d, id)
           e == Inserted(c, id, icr, p, n)
           r == HeadList(c)
<1>1. /\ Linked(c, r) /\ c.size < MaxSize /\ ~Holds(c, id)
      /\ r = Abstract!Without(l, id) /\ ICRsOf(c) = [ICRsOf(d) EXCEPT ![id] = 0]
  BY RemoveStep DEF Leaves
<1>2. /\ l \in Seq(Ids) /\ IsInjective(l) /\ id \in ToSet(l) /\ icr # 0
      /\ r \in Seq(Ids) /\ IsInjective(r) /\ c.size = Len(r) /\ Len(r) \in Nat /\ MaxSize \in Nat
  BY <1>1, LenProperties, InAndOut, NullIsNobody, SortedTrovesAssumption
     DEF Linked, Chained, CanInsert
<1> HIDE DEF c
<1>3. id \notin ToSet(r)
  BY <1>1, InAndOut, NullIsNobody
<1>4. PICK k \in 1..(Len(r) + 1) : Gains(c, r, e, id, icr, k)
  <2> HIDE DEF e, r
  <2>1. \E k \in 1..(Len(r) + 1) : Gains(c, r, Inserted(c, id, icr, p, n), id, icr, k)
    BY <1>1, <1>2, InsertCall
  <2> QED BY <2>1 DEF e
<1> HIDE DEF e, r
<1>5. HeadList(e) = InsertAt(r, k, id) /\ Linked(e, HeadList(e))
  BY <1>4, HeadListIs DEF Gains
<1>6. e.size <= MaxSize
  <2>1. e.size = Len(r) + 1
    BY <1>2, <1>3, <1>4, ListWith DEF Gains, Linked, Chained
  <2> QED BY <1>1, <1>2, <2>1
<1>7. \A a \in Ids : a # id => c.nodes[a].ICR = ICRsOf(d)[a]
  <2>1. \A a \in Ids : a # id => ICRsOf(c)[a] = ICRsOf(d)[a]
    BY <1>1 DEF ICRsOf
  <2> QED BY <2>1 DEF ICRsOf
<1>8. ICRsOf(e) = [ICRsOf(d) EXCEPT ![id] = icr]
  <2>1. e.nodes[id].ICR = icr /\ \A a \in Ids : a # id => e.nodes[a].ICR = ICRsOf(d)[a]
    BY <1>4, <1>7, NullIsNobody DEF Gains
  <2> QED BY <2>1 DEF ICRsOf
<1>9. HeadList(e) \in Abstract!Replacements(l, ICRsOf(d), id, icr)
  <2>1. \A a \in ToSet(r) : c.nodes[a].ICR = ICRsOf(d)[a]
    BY <1>2, <1>3, <1>7, Members
  <2>2. HeadList(e) \in Abstract!Placements(r, ICRsOf(d), id, icr)
    BY <1>2, <1>4, <1>5, <2>1, PlaceFits DEF Gains
  <2> QED BY <1>1, <2>2 DEF Abstract!Replacements
<1>10. Moves(l, ICRsOf(d), HeadList(e), ICRsOf(e), id, icr)
  BY <1>2, <1>8, <1>9 DEF Moves
<1> QED BY <1>5, <1>6, <1>10 DEF e, c

LEMMA InitialList == Init => LinkedList /\ FromHead = <<>> /\ ICRsOf(data) = [id \in Ids |-> 0]
<1> SUFFICES ASSUME Init
             PROVE  LinkedList /\ FromHead = <<>> /\ ICRsOf(data) = [id \in Ids |-> 0]
  OBVIOUS
<1>1. /\ data.head = NULL /\ data.tail = NULL /\ data.size = 0
      /\ data.nodes = [a \in Addresses |-> NoNode]
      /\ data = [head |-> NULL, tail |-> NULL, size |-> 0, nodes |-> data.nodes]
  BY DEF Init
<1>2. \A a \in Addresses : data.nodes[a] = NoNode
  BY <1>1
<1>3. DataType(data)
  <2>1. NoNode \in Node /\ NULL \in Addresses
    BY NullIsNobody DEF NoNode, Node
  <2>2. data.nodes \in [Addresses -> Node]
    BY <1>1, <2>1
  <2> QED BY <1>1, <2>1, <2>2 DEF DataType
<1>4. /\ <<>> \in Seq(Ids) /\ Len(<<>>) = 0 /\ DOMAIN <<>> = {}
  OBVIOUS
<1>5. PICK l : l = <<>>
  OBVIOUS
<1>6. l \in Seq(Ids) /\ Len(l) = 0 /\ DOMAIN l = {} /\ 1..Len(l) = {}
  BY <1>4, <1>5
<1>7. Linked(data, l)
  <2>1. IsInjective(l)
    BY <1>6 DEF IsInjective
  <2>2. At(l, 1) = NULL /\ At(l, Len(l)) = NULL
    BY <1>6 DEF At
  <2>3. Chained(data, l)
    BY <1>1, <1>2, <1>6, <2>2 DEF Chained
  <2>4. Ordered(data, l)
    BY <1>6 DEF Ordered
  <2> QED BY <1>3, <1>6, <2>1, <2>3, <2>4 DEF Linked
<1>8. FromHead = <<>>
  BY <1>5, <1>7, HeadListIs, ReadFromHead
<1>9. data.size <= MaxSize
  BY <1>1, SortedTrovesAssumption
<1>10. ICRsOf(data) = [id \in Ids |-> 0]
  BY <1>2, NullIsNobody, NodeOutside DEF ICRsOf
<1> QED BY <1>5, <1>7, <1>8, <1>9, <1>10 DEF LinkedList

-----------------------------------------------------------------------------
(* The steps of the linked list are steps of the abstract one.             *)

LEMMA AbstractCalls ==
  ASSUME FromHead \in Seq(Ids), NEW id
  PROVE  /\ \A icr : Enters(FromHead, ICRsOf(data), FromHead', ICRsOf(data'), id, icr)
                     => Abstract!InsertSorted(id, icr)
         /\ \A icr : Moves(FromHead, ICRsOf(data), FromHead', ICRsOf(data'), id, icr)
                     => Abstract!ReInsertSorted(id, icr)
         /\ Leaves(FromHead, ICRsOf(data), FromHead', ICRsOf(data'), id)
                     => Abstract!RemoveSorted(id)
<1>1. Abstract!Contains(FromHead, id) <=> id \in ToSet(FromHead)
  <2>1. DOMAIN FromHead = 1..Len(FromHead)
    BY LenProperties
  <2> QED BY <2>1 DEF Abstract!Contains, ToSet
<1>2. /\ ICRsOf(data) = [x \in Ids |-> data.nodes[x].ICR]
      /\ ICRsOf(data') = [x \in Ids |-> data.nodes[x].ICR]'
  BY DEF ICRsOf
<1>3. ASSUME NEW icr, Enters(FromHead, ICRsOf(data), FromHead', ICRsOf(data'), id, icr)
      PROVE  Abstract!InsertSorted(id, icr)
  BY <1>1, <1>2, <1>3 DEF Enters, Abstract!InsertSorted
<1>4. ASSUME NEW icr, Moves(FromHead, ICRsOf(data), FromHead', ICRsOf(data'), id, icr)
      PROVE  Abstract!ReInsertSorted(id, icr)
  BY <1>1, <1>2, <1>4 DEF Moves, Abstract!ReInsertSorted
<1>5. ASSUME Leaves(FromHead, ICRsOf(data), FromHead', ICRsOf(data'), id)
      PROVE  Abstract!RemoveSorted(id)
  BY <1>1, <1>2, <1>5 DEF Leaves, Abstract!RemoveSorted
<1> QED BY <1>3, <1>4, <1>5

LEMMA ReadNext == FromHead' = HeadList(data')
BY DEF FromHead, Follow, HeadList

LEMMA StepIsAbstract ==
  ASSUME LinkedList, [Next]_data
  PROVE  LinkedList' /\ [Abstract!NextSorted]_(Abstract!sortedVars)
<1> DEFINE l == FromHead
<1>1. Linked(data, l) /\ data.size <= MaxSize /\ FromHead \in Seq(Ids) /\ ICRs \subseteq Nat
  BY SortedTrovesAssumption DEF LinkedList, Linked
<1>2. Linked(data', HeadList(data')) /\ data'.size <= MaxSize => LinkedList'
  BY ReadNext DEF LinkedList
<1> HIDE DEF l
<1>3. ASSUME NEW id \in Ids, NEW icr \in ICRs, NEW p \in Addresses, NEW n \in Addresses,
             Insert(id, icr, p, n)
      PROVE  LinkedList' /\ Abstract!NextSorted
  <2>1. CanInsert(data, id, icr) /\ data' = Inserted(data, id, icr, p, n) /\ icr \in Nat
    BY <1>1, <1>3 DEF Insert
  <2> DEFINE e == Inserted(data, id, icr, p, n)
  <2>2. /\ Linked(e, HeadList(e)) /\ e.size <= MaxSize
        /\ Enters(l, ICRsOf(data), HeadList(e), ICRsOf(e), id, icr)
    BY <1>1, <2>1, InsertStep
  <2> HIDE DEF e
  <2>3. data' = e
    BY <2>1 DEF e
  <2>4. Enters(FromHead, ICRsOf(data), FromHead', ICRsOf(data'), id, icr)
    BY <2>2, <2>3, ReadNext DEF l
  <2>5. Abstract!InsertSorted(id, icr)
    BY <1>1, <2>4, AbstractCalls
  <2> QED BY <1>2, <2>2, <2>3, <2>5 DEF Abstract!NextSorted
<1>4. ASSUME NEW id \in Ids, NEW icr \in ICRs, NEW p \in Addresses, NEW n \in Addresses,
             ReInsert(id, icr, p, n)
      PROVE  LinkedList' /\ Abstract!NextSorted
  <2> DEFINE e == Inserted(Removed(data, id), id, icr, p, n)
  <2>1. /\ Holds(data, id) /\ CanInsert(Removed(data, id), id, icr) /\ icr \in Nat
        /\ data' = e
    BY <1>1, <1>4 DEF ReInsert
  <2>2. /\ Linked(e, HeadList(e)) /\ e.size <= MaxSize
        /\ Moves(l, ICRsOf(data), HeadList(e), ICRsOf(e), id, icr)
    BY <1>1, <2>1, ReInsertStep
  <2> HIDE DEF e
  <2>3. Moves(FromHead, ICRsOf(data), FromHead', ICRsOf(data'), id, icr)
    BY <2>1, <2>2, ReadNext DEF l
  <2>4. Abstract!ReInsertSorted(id, icr)
    BY <1>1, <2>3, AbstractCalls
  <2> QED BY <1>2, <2>1, <2>2, <2>4 DEF Abstract!NextSorted
<1>5. ASSUME NEW id \in Ids, RemoveNode(id)
      PROVE  LinkedList' /\ Abstract!NextSorted
  <2> DEFINE e == Removed(data, id)
  <2>1. Holds(data, id) /\ data' = e
    BY <1>5 DEF RemoveNode
  <2>2. /\ Linked(e, HeadList(e)) /\ e.size < MaxSize
        /\ Leaves(l, ICRsOf(data), HeadList(e), ICRsOf(e), id)
    BY <1>1, <2>1, RemoveStep
  <2>3. e.size <= MaxSize
    <3>1. e.size \in Nat
      BY <2>2 DEF Linked, DataType
    <3> QED BY <2>2, <3>1, SortedTrovesAssumption
  <2> HIDE DEF e
  <2>4. Leaves(FromHead, ICRsOf(data), FromHead', ICRsOf(data'), id)
    BY <2>1, <2>2, ReadNext DEF l
  <2>5. Abstract!RemoveSorted(id)
    BY <1>1, <2>4, AbstractCalls
  <2> QED BY <1>2, <2>1, <2>2, <2>3, <2>5 DEF Abstract!NextSorted
<1>6. CASE UNCHANGED data
  <2>1. FromHead' = FromHead
    BY <1>6, ReadNext, ReadFromHead
  <2>2. [x \in Ids |-> data.nodes[x].ICR]' = [x \in Ids |-> data.nodes[x].ICR]
    BY <1>6
  <2> QED BY <1>6, <2>1, <2>2 DEF LinkedList, Abstract!sortedVars
<1>7. CASE Next
  BY <1>3, <1>4, <1>5, <1>7 DEF Next
<1> QED BY <1>6, <1>7

-----------------------------------------------------------------------------
(* What the invariant says.                                                *)

LEMMA LinkedListTypes == LinkedList => TypeOK
<1> SUFFICES ASSUME LinkedList PROVE TypeOK
  OBVIOUS
<1>1. DataType(data) /\ data.size <= MaxSize /\ MaxSize \in Nat
  BY SortedTrovesAssumption DEF LinkedList, Linked
<1> QED BY <1>1 DEF DataType, TypeOK

LEMMA ReversedTwice ==
  ASSUME NEW l \in Seq(Ids)
  PROVE  Reverse(Reverse(l)) = l
<1>1. Len(l) \in Nat /\ l = [i \in 1..Len(l) |-> l[i]]
  BY LenProperties
<1> DEFINE r == [i \in 1..Len(l) |-> l[(Len(l) - i) + 1]]
<1>2. Reverse(l) = r /\ Len(r) = Len(l)
  BY <1>1 DEF Reverse
<1>3. Reverse(r) = [i \in 1..Len(l) |-> r[(Len(l) - i) + 1]]
  BY <1>2 DEF Reverse
<1>4. ASSUME NEW i \in 1..Len(l)
      PROVE  r[(Len(l) - i) + 1] = l[i]
  <2>1. (Len(l) - i) + 1 \in 1..Len(l) /\ (Len(l) - ((Len(l) - i) + 1)) + 1 = i
    BY <1>1
  <2> QED BY <2>1
<1> HIDE DEF r
<1> QED BY <1>1, <1>2, <1>3, <1>4

LEMMA LinkedListReads == LinkedList => WellLinked
<1> SUFFICES ASSUME LinkedList PROVE WellLinked
  OBVIOUS
<1> DEFINE l == FromHead
<1>1. /\ Linked(data, l) /\ l \in Seq(Ids) /\ IsInjective(l)
      /\ data.size = Len(l) /\ data.head = At(l, 1) /\ data.tail = At(l, Len(l)) /\ Len(l) \in Nat
  BY LenProperties DEF LinkedList, Linked, Chained
<1> HIDE DEF l
<1>2. FromHead = Reverse(FromTail)
  <2>1. FromTail = Reverse(l)
    BY <1>1, TailListIs, ReadFromTail
  <2> QED BY <1>1, <2>1, ReversedTwice DEF l
<1>3. ToSet(l) = {id \in Ids : Holds(data, id)}
  <2>1. ToSet(l) \subseteq Ids /\ \A a \in Ids : Holds(data, a) <=> a \in ToSet(l)
    BY <1>1, Members, InAndOut, NullIsNobody
  <2> QED BY <2>1
<1>4. data.size > 0 => data.nodes[data.tail].nextId = NULL /\ data.nodes[data.head].prevId = NULL
  <2> SUFFICES ASSUME data.size > 0
               PROVE  data.nodes[data.tail].nextId = NULL /\ data.nodes[data.head].prevId = NULL
    OBVIOUS
  <2>1. PICK n \in 1..Len(l) : n = Len(l)
    BY <1>1
  <2>2. data.nodes[l[n]].nextId = At(l, n + 1) /\ At(l, n + 1) = NULL /\ At(l, n) = l[n]
    BY <1>1, <2>1, Neighbours
  <2>3. PICK m \in 1..Len(l) : m = 1
    BY <1>1, <2>1
  <2>4. data.nodes[l[m]].prevId = At(l, m - 1) /\ At(l, m - 1) = NULL /\ At(l, m) = l[m]
    BY <1>1, <2>3, Neighbours
  <2> QED BY <1>1, <2>1, <2>2, <2>3, <2>4
<1>5. data.size = 0 => data.head = NULL /\ data.tail = NULL
  BY <1>1 DEF At
<1>6. \A a \in Addresses : ~Holds(data, a) => data.nodes[a] = NoNode
  BY <1>1, InAndOut DEF Linked, Chained
<1> QED BY <1>1, <1>2, <1>3, <1>4, <1>5, <1>6 DEF WellLinked, l

-----------------------------------------------------------------------------
LEMMA AlwaysLinkedList == Spec => []LinkedList
<1>1. Init => LinkedList
  BY InitialList
<1>2. LinkedList /\ [Next]_data => LinkedList'
  BY StepIsAbstract
<1> QED BY <1>1, <1>2, PTL DEF Spec

\* The struct Data keeps its type, its size within maxSize.
THEOREM TypesAlwaysKept == Spec => []TypeOK
<1>1. LinkedList => TypeOK
  BY LinkedListTypes
<1> QED BY <1>1, AlwaysLinkedList, PTL

\* Whatever hints the callers of insert and reInsert pass, and in whatever
\* order they call, both directions of the links describe the same list, which
\* holds each owner with a node once, ends in null at both ends, and leaves no
\* trace of a node that was removed.
THEOREM AlwaysWellLinked == Spec => []WellLinked
<1>1. LinkedList => WellLinked
  BY LinkedListReads
<1> QED BY <1>1, AlwaysLinkedList, PTL

\* The linked list with its hints implements the abstract sorted list: the
\* walks of _descendList and _ascendList end from any hint, at a place that
\* keeps the recorded ICRs in order, and every call that succeeds is a call
\* the abstract list allows.
THEOREM LinkedListIsSortedList == Spec => ImplementsSortedList
<1>1. Init => Abstract!InitSorted
  BY InitialList DEF Abstract!InitSorted, ICRsOf
<1>2. LinkedList /\ [Next]_data => [Abstract!NextSorted]_(Abstract!sortedVars)
  BY StepIsAbstract
<1> QED BY <1>1, <1>2, AlwaysLinkedList, PTL DEF Spec, ImplementsSortedList, Abstract!SpecSorted

\* A hint that is right when insert runs is honoured: the node gets exactly
\* the two neighbours the caller named.
THEOREM HintsAlwaysHonoured == Spec => ValidHintHonoured
<1> DEFINE Honours ==
             \A id \in Ids, icr \in ICRs, p, n \in Addresses :
               (Insert(id, icr, p, n) /\ ValidInsertPosition(data, icr, p, n))
                 => Between(data', id, p, n)
<1>1. LinkedList => Honours
  <2> SUFFICES ASSUME LinkedList,
                      NEW id \in Ids, NEW icr \in ICRs, NEW p \in Addresses, NEW n \in Addresses,
                      Insert(id, icr, p, n), ValidInsertPosition(data, icr, p, n)
               PROVE  Between(data', id, p, n)
    OBVIOUS
  <2>1. /\ Linked(data, FromHead) /\ icr \in Nat /\ icr # 0 /\ ~Holds(data, id)
        /\ data' = Inserted(data, id, icr, p, n)
    BY SortedTrovesAssumption DEF LinkedList, Insert, CanInsert
  <2> QED BY <2>1, HintedCall
<1> HIDE DEF Honours
<1>2. LinkedList /\ [Next]_data => [Honours]_data
  BY <1>1
<1>3. Spec => [][Honours]_data
  BY <1>2, AlwaysLinkedList, PTL DEF Spec
<1> QED BY <1>3 DEF ValidHintHonoured, Honours
=============================================================================
