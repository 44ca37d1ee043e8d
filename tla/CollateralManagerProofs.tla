----------------------- MODULE CollateralManagerProofs ------------------------
(***************************************************************************)
(* For any number of collaterals: the array, the counter and the indices   *)
(* agree after every sequence of additions, removals and moves, a move or  *)
(* a removal keeps the order of the others, and only live prices are       *)
(* stored.  The loops swap neighbours; each swap keeps the books, and the  *)
(* order of all but the collateral that is on its way.                     *)
(***************************************************************************)
EXTENDS CollateralManager, SequenceTheorems, Induction, TLAPS

\* An array of n places and the indices of the collaterals in S agree; the
\* place free is left out.
Agree(support, indices, S, n, free) ==
  /\ support \in [1..n -> Collaterals]
  /\ indices \in [Collaterals -> 0..MaxCollaterals]
  /\ \A i \in 0..n - 1 : i # free => support[i + 1] \in S /\ indices[support[i + 1]] = i
  /\ \A c \in S : /\ indices[c] \in 0..n - 1 /\ indices[c] # free
                  /\ support[indices[c] + 1] = c

SupportedSet == {c \in Collaterals : Supported(c)}

\* Two indices order the collaterals in S alike.
SameOrder(S, indices, before) ==
  \A a, b \in S : indices[a] < indices[b] <=> before[a] < before[b]

Neighbours(x, y) == x + 1 = y \/ y + 1 = x

\* The indices after the collaterals at x and y have changed places.
PlacesSwapped(S, support, indices, after, x, y) ==
  \A c \in S : after[c] = IF c = support[y + 1] THEN x
                          ELSE IF c = support[x + 1] THEN y ELSE indices[c]

LEMMA Places ==
  ASSUME NEW n \in 0..MaxCollaterals
  PROVE  /\ n \in Nat /\ MaxCollaterals \in Nat /\ n <= MaxCollaterals
         /\ \A x \in 0..n - 1 : x \in 0..MaxCollaterals /\ x + 1 \in 1..n
<1>1. MaxCollaterals \in Nat
  BY CollateralAssumption
<1> QED BY <1>1

-----------------------------------------------------------------------------
(* One swap.                                                               *)

LEMMA SwappedAgree ==
  ASSUME NEW n \in 0..MaxCollaterals, NEW S, NEW support, NEW indices,
         Agree(support, indices, S, n, n), NEW x \in 0..n - 1
  PROVE  support[x + 1] \in S /\ indices[support[x + 1]] = x
<1>1. n \in Nat
  BY Places
<1>2. x # n
  BY <1>1
<1> QED BY <1>2 DEF Agree

\* A swap of two places with both indices keeps array and indices together.
LEMMA SwapKeepsAgreement ==
  ASSUME NEW n \in 0..MaxCollaterals, NEW S \in SUBSET Collaterals, NEW support, NEW indices,
         Agree(support, indices, S, n, n),
         NEW x \in 0..n - 1, NEW y \in 0..n - 1, x # y
  PROVE  Agree(SwappedPlaces(support, x, y),
               [indices EXCEPT ![support[x + 1]] = y, ![support[y + 1]] = x], S, n, n)
<1> DEFINE a == support[x + 1]
           b == support[y + 1]
           support2 == SwappedPlaces(support, x, y)
           indices2 == [indices EXCEPT ![a] = y, ![b] = x]
<1>1. /\ n \in Nat /\ MaxCollaterals \in Nat /\ n <= MaxCollaterals
      /\ x + 1 \in 1..n /\ y + 1 \in 1..n
      /\ x \in 0..MaxCollaterals /\ y \in 0..MaxCollaterals
  BY Places
<1>0. a \in S /\ b \in S /\ indices[a] = x /\ indices[b] = y
  BY SwappedAgree
<1>2. /\ support \in [1..n -> Collaterals] /\ indices \in [Collaterals -> 0..MaxCollaterals]
      /\ a \in S /\ b \in S /\ indices[a] = x /\ indices[b] = y /\ a # b
      /\ a \in Collaterals /\ b \in Collaterals
  BY <1>0 DEF Agree
<1>3. /\ support2 \in [1..n -> Collaterals]
      /\ \A i \in 1..n : support2[i] = IF i = y + 1 THEN a ELSE IF i = x + 1 THEN b ELSE support[i]
  BY <1>1, <1>2 DEF SwappedPlaces
<1>4. /\ indices2 \in [Collaterals -> 0..MaxCollaterals]
      /\ \A c \in Collaterals :
           indices2[c] = IF c = b THEN x ELSE IF c = a THEN y ELSE indices[c]
  BY <1>1, <1>2
<1> HIDE DEF support2, indices2
<1>5. ASSUME NEW i \in 0..n - 1, i # n
      PROVE  support2[i + 1] \in S /\ indices2[support2[i + 1]] = i
  <2>1. i + 1 \in 1..n /\ support[i + 1] \in S /\ indices[support[i + 1]] = i
    BY <1>1, <1>5 DEF Agree
  <2> QED BY <1>1, <1>2, <1>3, <1>4, <2>1
<1>6. ASSUME NEW c \in S
      PROVE  indices2[c] \in 0..n - 1 /\ indices2[c] # n /\ support2[indices2[c] + 1] = c
  <2>1. indices[c] \in 0..n - 1 /\ support[indices[c] + 1] = c /\ c \in Collaterals
    BY <1>6 DEF Agree
  <2>2. CASE c = a
    <3>1. indices2[c] = y
      BY <1>2, <1>4, <2>2
    <3>2. support2[y + 1] = a
      BY <1>1, <1>3
    <3> QED BY <1>1, <2>2, <3>1, <3>2
  <2>3. CASE c = b
    <3>1. indices2[c] = x
      BY <1>2, <1>4, <2>3
    <3>2. x + 1 # y + 1
      BY <1>1
    <3>3. support2[x + 1] = b
      BY <1>1, <1>3, <3>2
    <3> QED BY <1>1, <2>3, <3>1, <3>3
  <2>4. CASE c # a /\ c # b
    <3>1. indices2[c] = indices[c] /\ indices[c] # x /\ indices[c] # y
      BY <1>2, <1>4, <2>1, <2>4
    <3>2. indices[c] + 1 \in 1..n
      BY <1>1, <2>1
    <3> QED BY <1>1, <1>3, <2>1, <3>1, <3>2
  <2> QED BY <2>2, <2>3, <2>4
<1> QED BY <1>3, <1>4, <1>5, <1>6 DEF Agree, support2, indices2, a, b

\* A swap of neighbours moves one of them a place on and changes the order of
\* no two others.
LEMMA SwapKeepsOrder ==
  ASSUME NEW n \in 0..MaxCollaterals, NEW S \in SUBSET Collaterals, NEW support, NEW indices,
         Agree(support, indices, S, n, n),
         NEW x \in 0..n - 1, NEW y \in 0..n - 1, Neighbours(x, y),
         NEW after, PlacesSwapped(S, support, indices, after, x, y)
  PROVE  after[support[x + 1]] = y /\ SameOrder(S \ {support[x + 1]}, after, indices)
<1> DEFINE a == support[x + 1]
           b == support[y + 1]
<1>1. /\ n \in Nat /\ n <= MaxCollaterals /\ MaxCollaterals \in Nat
      /\ x + 1 \in 1..n /\ y + 1 \in 1..n
  BY Places
<1>0. x # y /\ a \in S /\ b \in S /\ indices[a] = x /\ indices[b] = y
  BY SwappedAgree DEF Neighbours
<1>2. /\ indices \in [Collaterals -> 0..MaxCollaterals]
      /\ a \in S /\ b \in S /\ indices[a] = x /\ indices[b] = y /\ a # b
      /\ a \in Collaterals /\ b \in Collaterals
  BY <1>0, <1>1 DEF Agree
<1>3. \A c \in S :
        after[c] = IF c = b THEN x ELSE IF c = a THEN y ELSE indices[c]
  BY DEF PlacesSwapped
<1>4. \A c \in S : indices[c] \in 0..n - 1 /\ support[indices[c] + 1] = c
  BY DEF Agree
<1>5. ASSUME NEW c \in S \ {a, b}
      PROVE  /\ after[c] = indices[c] /\ indices[c] \in Nat
             /\ indices[c] # x /\ indices[c] # y
  BY <1>0, <1>1, <1>2, <1>3, <1>4
<1>6. ASSUME NEW c \in S \ {a}, NEW d \in S \ {a}
      PROVE  after[c] < after[d] <=> indices[c] < indices[d]
  <2>1. CASE c # b /\ d # b
    BY <1>5, <2>1
  <2>2. CASE c = b /\ d # b
    <3>1. /\ after[c] = x /\ indices[c] = y /\ after[d] = indices[d]
          /\ indices[d] \in Nat /\ indices[d] # x /\ indices[d] # y
      BY <1>2, <1>3, <1>5, <2>2
    <3> QED BY <1>0, <1>1, <3>1 DEF Neighbours
  <2>3. CASE c # b /\ d = b
    <3>1. /\ after[d] = x /\ indices[d] = y /\ after[c] = indices[c]
          /\ indices[c] \in Nat /\ indices[c] # x /\ indices[c] # y
      BY <1>2, <1>3, <1>5, <2>3
    <3> QED BY <1>0, <1>1, <3>1 DEF Neighbours
  <2>4. CASE c = b /\ d = b
    BY <1>0, <1>1, <1>2, <1>3, <2>4
  <2> QED BY <2>1, <2>2, <2>3, <2>4
<1>7. after[a] = y
  BY <1>2, <1>3
<1> QED BY <1>6, <1>7 DEF SameOrder

\* A swap in removeCollateral's loop: the place left out moves a place on.
LEMMA ShiftKeepsAgreement ==
  ASSUME NEW n \in 0..MaxCollaterals, NEW R \in SUBSET Collaterals, NEW book, NEW c,
         NEW x \in 0..n - 1, x + 1 \in 0..n - 1,
         Agree(book.support, book.index, R, n, x), book.support[x + 1] = c, c \in Collaterals
  PROVE  LET book2 == ShiftedOne(book, x)
         IN  /\ Agree(book2.support, book2.index, R, n, x + 1)
             /\ book2.support[(x + 1) + 1] = c
             /\ SameOrder(R, book2.index, book.index)
<1> DEFINE b == book.support[x + 2]
           support2 == SwappedPlaces(book.support, x, x + 1)
           index2 == [book.index EXCEPT ![b] = x]
<1>1. /\ n \in Nat /\ x \in 0..MaxCollaterals /\ x \in Nat
      /\ x + 1 \in 1..n /\ x + 2 \in 1..n /\ (x + 1) + 1 = x + 2 /\ x + 1 # x
  BY Places
<1>2. /\ book.support \in [1..n -> Collaterals] /\ book.index \in [Collaterals -> 0..MaxCollaterals]
      /\ b \in R /\ b \in Collaterals /\ book.index[b] = x + 1
  BY <1>1 DEF Agree
<1>3. /\ support2 \in [1..n -> Collaterals]
      /\ \A i \in 1..n : support2[i] = IF i = x + 2 THEN c
                                       ELSE IF i = x + 1 THEN b ELSE book.support[i]
  BY <1>1, <1>2 DEF SwappedPlaces
<1>4. /\ index2 \in [Collaterals -> 0..MaxCollaterals]
      /\ \A d \in Collaterals : index2[d] = IF d = b THEN x ELSE book.index[d]
  BY <1>1, <1>2
<1>5. /\ ShiftedOne(book, x).support = support2
      /\ ShiftedOne(book, x).index = index2
  BY DEF ShiftedOne
<1> HIDE DEF support2, index2
<1>6. ASSUME NEW i \in 0..n - 1, i # x + 1
      PROVE  support2[i + 1] \in R /\ index2[support2[i + 1]] = i
  <2>1. i + 1 \in 1..n
    BY Places
  <2>2. CASE i = x
    BY <1>1, <1>2, <1>3, <1>4, <2>2
  <2>3. CASE i # x
    <3>1. book.support[i + 1] \in R /\ book.index[book.support[i + 1]] = i
      BY <2>3 DEF Agree
    <3>2. support2[i + 1] = book.support[i + 1]
      BY <1>1, <1>3, <1>6, <2>1, <2>3
    <3>3. book.support[i + 1] # b
      BY <1>2, <1>6, <3>1
    <3> QED BY <1>4, <3>1, <3>2, <3>3
  <2> QED BY <2>2, <2>3
<1>7. ASSUME NEW d \in R
      PROVE  /\ index2[d] \in 0..n - 1 /\ index2[d] # x + 1
             /\ support2[index2[d] + 1] = d
             /\ d # b => index2[d] = book.index[d] /\ book.index[d] \in Nat
                          /\ book.index[d] # x /\ book.index[d] # x + 1
  <2>1. /\ book.index[d] \in 0..n - 1 /\ book.index[d] # x
        /\ book.support[book.index[d] + 1] = d /\ d \in Collaterals
    BY DEF Agree
  <2>2. CASE d = b
    BY <1>1, <1>3, <1>4, <2>1, <2>2
  <2>3. CASE d # b
    <3>1. index2[d] = book.index[d] /\ book.index[d] # x + 1
      <4>1. book.index[d] = x + 1 => d = b
        BY <1>1, <2>1
      <4> QED BY <1>4, <2>1, <2>3, <4>1
    <3>2. book.index[d] + 1 \in 1..n /\ book.index[d] + 1 # x + 1 /\ book.index[d] + 1 # x + 2
      BY <1>1, <2>1, <3>1
    <3>3. support2[book.index[d] + 1] = d
      BY <1>3, <2>1, <3>2
    <3>4. book.index[d] \in Nat
      BY <1>1, <2>1
    <3> QED BY <2>1, <2>3, <3>1, <3>3, <3>4
  <2> QED BY <2>2, <2>3
<1>8. Agree(support2, index2, R, n, x + 1)
  BY <1>3, <1>4, <1>6, <1>7 DEF Agree
<1>9. SameOrder(R, index2, book.index)
  <2>1. index2[b] = x /\ book.index[b] = x + 1
    BY <1>2, <1>4
  <2>2. ASSUME NEW d \in R, NEW e \in R
        PROVE  index2[d] < index2[e] <=> book.index[d] < book.index[e]
    <3>1. CASE d = b /\ e = b
      BY <1>1, <2>1, <3>1
    <3>2. CASE d = b /\ e # b
      BY <1>1, <1>7, <2>1, <3>2
    <3>3. CASE d # b /\ e = b
      BY <1>1, <1>7, <2>1, <3>3
    <3>4. CASE d # b /\ e # b
      BY <1>7, <3>4
    <3> QED BY <3>1, <3>2, <3>3, <3>4
  <2> QED BY <2>2 DEF SameOrder
<1>10. support2[(x + 1) + 1] = c
  BY <1>1, <1>3
<1> QED BY <1>5, <1>8, <1>9, <1>10

-----------------------------------------------------------------------------
(* The loops.  A recursive function over 0..n is what its recursion says:  *)
(* by induction one exists.                                                *)

LEMMA SwapsExist ==
  ASSUME NEW from, NEW to, MaxOf(from - to, to - from) \in Nat
  PROVE  LET d == MaxOf(from - to, to - from)
         IN  \E w : /\ w = [n \in 0..d |-> IF n = 0 THEN Book
                              ELSE Swapped(w[n - 1], OnTheWay(from, to, n - 1), OnTheWay(from, to, n))]
                    /\ Moved(from, to) = w[d]
<1> DEFINE d == MaxOf(from - to, to - from)
           Walk(w, k) == w = [n \in 0..k |-> IF n = 0 THEN Book
                              ELSE Swapped(w[n - 1], OnTheWay(from, to, n - 1), OnTheWay(from, to, n))]
           Walks(k) == \E w : Walk(w, k)
           T == {k \in 0..d : Walks(k)}
<1>1. Walks(0)
  <2>1. Walk([n \in 0..0 |-> Book], 0)
    OBVIOUS
  <2> QED BY <2>1
<1>2. ASSUME NEW k \in 0..(d - 1), Walks(k)
      PROVE  Walks(k + 1)
  <2>1. PICK w : Walk(w, k)
    BY <1>2
  <2> DEFINE v == [n \in 0..(k + 1) |-> IF n <= k THEN w[n]
                     ELSE Swapped(w[k], OnTheWay(from, to, k), OnTheWay(from, to, k + 1))]
  <2>2. \A n \in 0..(k + 1) :
          v[n] = IF n = 0 THEN Book
                 ELSE Swapped(v[n - 1], OnTheWay(from, to, n - 1), OnTheWay(from, to, n))
    <3> TAKE n \in 0..(k + 1)
    <3>1. CASE n = 0
      BY <2>1, <3>1
    <3>2. CASE n # 0 /\ n <= k
      BY <2>1, <3>2
    <3>3. CASE n = k + 1
      BY <2>1, <3>3
    <3> QED BY <3>1, <3>2, <3>3
  <2>3. Walk(v, k + 1)
    BY <2>2
  <2> QED BY <2>3
<1>3. Walks(d)
  <2> HIDE DEF Walks
  <2>1. 0 \in T /\ \A k \in 0..(d - 1) : k \in T => k + 1 \in T
    BY <1>1, <1>2
  <2> HIDE DEF T
  <2>2. 0..d \subseteq T
    <3> d \in Nat
      OBVIOUS
    <3> HIDE DEF d, Walk
    <3> QED BY <2>1, SetInduction
  <2>3. d \in T
    BY <2>2
  <2> QED BY <2>3 DEF T
<1> QED BY <1>3 DEF Moved

LEMMA ShiftsExist ==
  ASSUME NEW from, collateralsCount - 1 - from \in Nat
  PROVE  LET d == collateralsCount - 1 - from
         IN  \E w : /\ w = [n \in 0..d |-> IF n = 0 THEN Book
                                           ELSE ShiftedOne(w[n - 1], from + (n - 1))]
                    /\ ShiftedOut(from) = w[d]
<1> DEFINE d == collateralsCount - 1 - from
           Walk(w, k) == w = [n \in 0..k |-> IF n = 0 THEN Book
                                           ELSE ShiftedOne(w[n - 1], from + (n - 1))]
           Walks(k) == \E w : Walk(w, k)
           T == {k \in 0..d : Walks(k)}
<1>1. Walks(0)
  <2>1. Walk([n \in 0..0 |-> Book], 0)
    OBVIOUS
  <2> QED BY <2>1
<1>2. ASSUME NEW k \in 0..(d - 1), Walks(k)
      PROVE  Walks(k + 1)
  <2>1. PICK w : Walk(w, k)
    BY <1>2
  <2> DEFINE v == [n \in 0..(k + 1) |-> IF n <= k THEN w[n] ELSE ShiftedOne(w[k], from + k)]
  <2>2. \A n \in 0..(k + 1) :
          v[n] = IF n = 0 THEN Book ELSE ShiftedOne(v[n - 1], from + (n - 1))
    <3> TAKE n \in 0..(k + 1)
    <3>1. CASE n = 0
      BY <2>1, <3>1
    <3>2. CASE n # 0 /\ n <= k
      BY <2>1, <3>2
    <3>3. CASE n = k + 1
      BY <2>1, <3>3
    <3> QED BY <3>1, <3>2, <3>3
  <2>3. Walk(v, k + 1)
    BY <2>2
  <2> QED BY <2>3
<1>3. Walks(d)
  <2> HIDE DEF Walks
  <2>1. 0 \in T /\ \A k \in 0..(d - 1) : k \in T => k + 1 \in T
    BY <1>1, <1>2
  <2> HIDE DEF T
  <2>2. 0..d \subseteq T
    <3> d \in Nat
      OBVIOUS
    <3> HIDE DEF d, Walk
    <3> QED BY <2>1, SetInduction
  <2>3. d \in T
    BY <2>2
  <2> QED BY <2>3 DEF T
<1> QED BY <1>3 DEF ShiftedOut

LEMMA SwapMoves ==
  ASSUME NEW n \in 0..MaxCollaterals, NEW S \in SUBSET Collaterals, NEW book, NEW before, NEW c \in S,
         NEW x \in 0..n - 1, NEW y \in 0..n - 1, Neighbours(x, y),
         Agree(book.support, book.index, S, n, n), book.index[c] = x,
         SameOrder(S \ {c}, book.index, before)
  PROVE  LET book2 == Swapped(book, x, y)
         IN  /\ Agree(book2.support, book2.index, S, n, n) /\ book2.index[c] = y
             /\ SameOrder(S \ {c}, book2.index, before)
<1> DEFINE index2 == [book.index EXCEPT ![book.support[x + 1]] = y, ![book.support[y + 1]] = x]
<1>1. /\ Swapped(book, x, y).support = SwappedPlaces(book.support, x, y)
      /\ Swapped(book, x, y).index = index2
  BY DEF Swapped
<1>2. book.support[x + 1] = c
  BY DEF Agree
<1>3. x # y
  BY Places DEF Neighbours
<1>4. Agree(SwappedPlaces(book.support, x, y), index2, S, n, n)
  BY <1>3, SwapKeepsAgreement
<1>5. index2[c] = y /\ SameOrder(S \ {c}, index2, book.index)
  <2>1. /\ index2[book.support[x + 1]] = y
        /\ SameOrder(S \ {book.support[x + 1]}, index2, book.index)
    <3>1. /\ book.index \in [Collaterals -> 0..MaxCollaterals]
          /\ book.support[x + 1] \in S /\ book.support[y + 1] \in S
      BY SwappedAgree DEF Agree
    <3>2. PlacesSwapped(S, book.support, book.index, index2, x, y)
      BY <3>1 DEF PlacesSwapped
    <3> HIDE DEF index2
    <3> QED BY <3>2, SwapKeepsOrder, SMTT(60)
  <2> QED BY <1>2, <2>1
<1>6. SameOrder(S \ {c}, index2, before)
  BY <1>5 DEF SameOrder
<1> QED BY <1>1, <1>4, <1>5, <1>6

\* setCollateralPriority's loops bring the collateral to its place.
LEMMA MovedPlaces ==
  ASSUME collateralsCount \in 0..MaxCollaterals, NEW S \in SUBSET Collaterals, NEW c \in S,
         Agree(collateralSupport, index, S, collateralsCount, collateralsCount),
         NEW to \in 0..collateralsCount - 1
  PROVE  LET book == Moved(index[c], to)
         IN  /\ Agree(book.support, book.index, S, collateralsCount, collateralsCount)
             /\ book.index[c] = to /\ SameOrder(S \ {c}, book.index, index)
<1> DEFINE from == index[c]
           n == collateralsCount
           d == MaxOf(from - to, to - from)
           place(i) == OnTheWay(from, to, i)
           Walked(book, at) == /\ Agree(book.support, book.index, S, n, n) /\ book.index[c] = at
                               /\ SameOrder(S \ {c}, book.index, index)
<1>1. n \in Nat /\ from \in 0..n - 1 /\ from \in Int /\ to \in Int
  BY Places DEF Agree
<1>2. /\ d \in Nat /\ place(0) = from /\ place(d) = to
      /\ \A i \in 0..d : place(i) \in 0..n - 1
      /\ \A i \in 0..(d - 1) : Neighbours(place(i), place(i + 1))
  BY <1>1 DEF MaxOf, OnTheWay, Neighbours
<1>3. PICK w : /\ w = [i \in 0..d |-> IF i = 0 THEN Book
                                     ELSE Swapped(w[i - 1], place(i - 1), place(i))]
               /\ Moved(from, to) = w[d]
  BY <1>2, SwapsExist
<1> DEFINE T == {i \in 0..d : Walked(w[i], place(i))}
<1> HIDE DEF d, place
<1>4. 0 \in T
  <2>1. w[0] = Book
    BY <1>2, <1>3
  <2>2. Walked(Book, from)
    BY DEF Book, SameOrder
  <2> HIDE DEF Walked
  <2> QED BY <1>2, <2>1, <2>2
<1>5. ASSUME NEW i \in 0..(d - 1), i \in T
      PROVE  i + 1 \in T
  <2>1. i + 1 \in 0..d /\ (i + 1) - 1 = i /\ i + 1 # 0 /\ i \in 0..d
    BY <1>2
  <2>2. w[i + 1] = Swapped(w[i], place(i), place(i + 1))
    BY <1>3, <2>1
  <2>3. Walked(w[i], place(i))
    BY <1>5
  <2>4. /\ place(i) \in 0..n - 1 /\ place(i + 1) \in 0..n - 1
        /\ Neighbours(place(i), place(i + 1))
    BY <1>2, <2>1
  <2>5. /\ Agree(w[i].support, w[i].index, S, n, n) /\ w[i].index[c] = place(i)
        /\ SameOrder(S \ {c}, w[i].index, index)
    BY <2>3
  <2> DEFINE book2 == Swapped(w[i], place(i), place(i + 1))
  <2>6. /\ Agree(book2.support, book2.index, S, n, n) /\ book2.index[c] = place(i + 1)
        /\ SameOrder(S \ {c}, book2.index, index)
    BY <2>4, <2>5, SwapMoves
  <2>7. Walked(w[i + 1], place(i + 1))
    BY <2>2, <2>6
  <2> QED BY <2>1, <2>7
<1> HIDE DEF T
<1>6. 0..d \subseteq T
  BY <1>2, <1>4, <1>5, SetInduction
<1>7. Walked(w[d], place(d))
  <2>1. d \in 0..d /\ d \in T
    BY <1>2, <1>6
  <2> QED BY <2>1 DEF T
<1> QED BY <1>2, <1>3, <1>7

\* removeCollateral's loop brings the collateral to the end.
LEMMA ShiftedPlaces ==
  ASSUME collateralsCount \in 0..MaxCollaterals, NEW S \in SUBSET Collaterals, NEW c \in S,
         Agree(collateralSupport, index, S, collateralsCount, collateralsCount)
  PROVE  LET book == ShiftedOut(index[c])
         IN  /\ Agree(book.support, book.index, S \ {c}, collateralsCount, collateralsCount - 1)
             /\ SameOrder(S \ {c}, book.index, index)
<1> DEFINE from == index[c]
           n == collateralsCount
           d == n - 1 - from
           Walked(book, at) == /\ Agree(book.support, book.index, S \ {c}, n, at)
                               /\ book.support[at + 1] = c
                               /\ SameOrder(S \ {c}, book.index, index)
<1>1. n \in Nat /\ from \in 0..n - 1 /\ d \in Nat /\ from \in Int /\ from + d = n - 1
  BY Places DEF Agree
<1>2. PICK w : /\ w = [i \in 0..d |-> IF i = 0 THEN Book ELSE ShiftedOne(w[i - 1], from + (i - 1))]
               /\ ShiftedOut(from) = w[d]
  BY <1>1, ShiftsExist
<1> DEFINE T == {i \in 0..d : Walked(w[i], from + i)}
<1>3. \A i \in 0..(d - 1) : from + i \in 0..n - 1 /\ (from + i) + 1 \in 0..n - 1
                             /\ (from + i) + 1 = from + (i + 1)
  BY <1>1
<1> HIDE DEF d
<1>4. 0 \in T
  <2>1. w[0] = Book /\ from + 0 = from
    BY <1>1, <1>2
  <2>2. collateralSupport[from + 1] = c
    BY DEF Agree
  <2>3. ASSUME NEW i \in 0..n - 1, i # from
        PROVE  collateralSupport[i + 1] # c
    <3>1. i # n
      BY <1>1
    <3> QED BY <2>3, <3>1 DEF Agree
  <2>4. ASSUME NEW b \in S \ {c}
        PROVE  index[b] # from
    BY <2>2, <2>4 DEF Agree
  <2>5. \A i \in 0..n - 1 : i # n
    BY <1>1
  <2>6. Agree(collateralSupport, index, S \ {c}, n, from)
    BY <2>3, <2>4, <2>5 DEF Agree
  <2>7. Walked(Book, from)
    BY <2>2, <2>6 DEF Book, SameOrder
  <2> HIDE DEF Walked
  <2> QED BY <1>1, <2>1, <2>7
<1>5. ASSUME NEW i \in 0..(d - 1), i \in T
      PROVE  i + 1 \in T
  <2>1. i + 1 \in 0..d /\ (i + 1) - 1 = i /\ i + 1 # 0 /\ i \in 0..d
    BY <1>1
  <2>2. w[i + 1] = ShiftedOne(w[i], from + i)
    BY <1>2, <2>1
  <2>3. Walked(w[i], from + i)
    BY <1>5
  <2>4. /\ Agree(w[i + 1].support, w[i + 1].index, S \ {c}, n, (from + i) + 1)
        /\ w[i + 1].support[((from + i) + 1) + 1] = c
        /\ SameOrder(S \ {c}, w[i + 1].index, w[i].index)
    BY <1>3, <2>2, <2>3, ShiftKeepsAgreement
  <2>5. SameOrder(S \ {c}, w[i + 1].index, index)
    BY <2>3, <2>4 DEF SameOrder
  <2>6. Walked(w[i + 1], from + (i + 1))
    BY <1>3, <2>4, <2>5
  <2> QED BY <2>1, <2>6
<1> HIDE DEF T
<1>6. 0..d \subseteq T
  BY <1>1, <1>4, <1>5, SetInduction
<1>7. Walked(w[d], from + d)
  <2>1. d \in 0..d /\ d \in T
    BY <1>1, <1>6
  <2> QED BY <2>1 DEF T
<1> QED BY <1>1, <1>2, <1>7

-----------------------------------------------------------------------------
(* The array and the indices.                                              *)

BooksAgree ==
  /\ collateralSupport \in Seq(Collaterals)
  /\ collateralsCount \in 0..MaxCollaterals /\ Len(collateralSupport) = collateralsCount
  /\ collStatus \in [Collaterals -> CollStatuses]
  /\ Agree(collateralSupport, index, SupportedSet, collateralsCount, collateralsCount)

LEMMA AddKeepsBooks ==
  ASSUME BooksAgree, NEW c \in Collaterals, AddCollateral(c)
  PROVE  BooksAgree'
<1> DEFINE n == collateralsCount
           S == SupportedSet
<1>1. /\ n \in Nat /\ n + 1 \in 0..MaxCollaterals /\ n \in 0..MaxCollaterals
      /\ Len(collateralSupport) = n /\ collateralSupport \in Seq(Collaterals)
  BY Places DEF BooksAgree, AddCollateral
<1>2. Agree(collateralSupport, index, S, n, n) /\ c \notin S /\ S \subseteq Collaterals
  BY DEF BooksAgree, AddCollateral, SupportedSet
<1>3. collateralsCount' = n + 1 /\ SupportedSet' = S \cup {c}
      /\ collStatus' \in [Collaterals -> CollStatuses]
  BY DEF BooksAgree, AddCollateral, SupportedSet, Supported, CollStatuses
<1>4. /\ collateralSupport' \in Seq(Collaterals) /\ Len(collateralSupport') = n + 1
      /\ collateralSupport' \in [1..n + 1 -> Collaterals]
      /\ \A i \in 1..n : collateralSupport'[i] = collateralSupport[i]
      /\ collateralSupport'[n + 1] = c
  <2>1. collateralSupport' = Append(collateralSupport, c)
    BY DEF AddCollateral
  <2>2. /\ Append(collateralSupport, c) \in Seq(Collaterals)
        /\ Len(Append(collateralSupport, c)) = Len(collateralSupport) + 1
        /\ \A i \in 1..Len(collateralSupport) : Append(collateralSupport, c)[i] = collateralSupport[i]
        /\ Append(collateralSupport, c)[Len(collateralSupport) + 1] = c
    BY <1>1, AppendProperties
  <2>3. collateralSupport' \in [1..Len(collateralSupport') -> Collaterals]
    BY <2>1, <2>2, LenProperties
  <2> QED BY <1>1, <2>1, <2>2, <2>3
<1>5. /\ index' \in [Collaterals -> 0..MaxCollaterals]
      /\ \A d \in Collaterals : index'[d] = IF d = c THEN n ELSE index[d]
  BY <1>1, <1>2 DEF Agree, AddCollateral
<1>6. ASSUME NEW i \in 0..n
      PROVE  /\ collateralSupport'[i + 1] \in S \cup {c}
             /\ index'[collateralSupport'[i + 1]] = i
  <2>1. CASE i = n
    BY <1>1, <1>4, <1>5, <2>1
  <2>2. CASE i # n
    <3>1. i \in 0..n - 1 /\ i + 1 \in 1..n
      BY <1>1, <2>2
    <3>2. collateralSupport[i + 1] \in S /\ index[collateralSupport[i + 1]] = i
      BY <1>2, <2>2, <3>1 DEF Agree
    <3> QED BY <1>2, <1>4, <1>5, <3>1, <3>2
  <2> QED BY <2>1, <2>2
<1>7. ASSUME NEW d \in S \cup {c}
      PROVE  index'[d] \in 0..n /\ collateralSupport'[index'[d] + 1] = d
  <2>1. CASE d = c
    BY <1>1, <1>4, <1>5, <2>1
  <2>2. CASE d # c
    <3>1. index[d] \in 0..n - 1 /\ collateralSupport[index[d] + 1] = d /\ index'[d] = index[d]
      BY <1>2, <1>5, <2>2 DEF Agree
    <3>2. index[d] \in 0..n /\ index[d] + 1 \in 1..n
      BY <1>1, <3>1
    <3> QED BY <1>4, <3>1, <3>2
  <2> QED BY <2>1, <2>2
<1>8. (n + 1) - 1 = n /\ \A i \in 0..n : i # n + 1
  BY <1>1
<1>9. Agree(collateralSupport', index', S \cup {c}, n + 1, n + 1)
  <2> HIDE DEF n, S
  <2>1. \A i \in 0..(n + 1) - 1 : i # n + 1 =>
          collateralSupport'[i + 1] \in S \cup {c} /\ index'[collateralSupport'[i + 1]] = i
    BY <1>6, <1>8
  <2>2. \A d \in S \cup {c} : /\ index'[d] \in 0..(n + 1) - 1 /\ index'[d] # n + 1
                              /\ collateralSupport'[index'[d] + 1] = d
    BY <1>7, <1>8
  <2> QED BY <1>4, <1>5, <2>1, <2>2 DEF Agree
<1> QED BY <1>1, <1>3, <1>4, <1>9 DEF BooksAgree

\* An array of n places is a sequence of length n.
LEMMA ArrayIsSequence ==
  ASSUME NEW n \in Nat, NEW support \in [1..n -> Collaterals]
  PROVE  support \in Seq(Collaterals) /\ Len(support) = n
<1>1. support \in Seq(Collaterals)
  BY SeqDef
<1>2. DOMAIN support = 1..Len(support) /\ Len(support) \in Nat
  BY <1>1, LenProperties
<1> QED BY <1>1, <1>2

LEMMA MoveKeepsBooks ==
  ASSUME BooksAgree, NEW c \in Collaterals, NEW to \in 0..MaxCollaterals, SetCollateralPriority(c, to)
  PROVE  /\ BooksAgree' /\ index'[c] = to
         /\ SameOrder(SupportedSet \ {c}, index', index)
<1> DEFINE book == Moved(index[c], to)
           n == collateralsCount
<1>1. /\ n \in Nat /\ n \in 0..MaxCollaterals /\ to \in 0..n - 1
      /\ c \in SupportedSet /\ SupportedSet \subseteq Collaterals
      /\ Agree(collateralSupport, index, SupportedSet, n, n)
  BY Places DEF BooksAgree, SetCollateralPriority, SupportedSet, Supported
<1>2. /\ Agree(book.support, book.index, SupportedSet, n, n)
      /\ book.index[c] = to /\ SameOrder(SupportedSet \ {c}, book.index, index)
  BY <1>1, MovedPlaces
<1>3. /\ collateralSupport' = book.support /\ index' = book.index
      /\ collateralsCount' = n /\ collStatus' = collStatus
  BY DEF SetCollateralPriority
<1>4. SupportedSet' = SupportedSet
  BY <1>3 DEF SupportedSet, Supported
<1>5. collateralSupport' \in Seq(Collaterals) /\ Len(collateralSupport') = n
  BY <1>1, <1>2, <1>3, ArrayIsSequence DEF Agree
<1> HIDE DEF book, n
<1>6. BooksAgree'
  BY <1>1, <1>2, <1>3, <1>4, <1>5 DEF BooksAgree, n
<1> QED BY <1>2, <1>3, <1>6

\* Without the last place, which is the one left out, the books are complete.
LEMMA FrontAgrees ==
  ASSUME NEW n \in Nat, n # 0, NEW R, NEW support, NEW indices, Agree(support, indices, R, n, n - 1)
  PROVE  /\ Agree(Front(support), indices, R, n - 1, n - 1)
         /\ Front(support) \in Seq(Collaterals) /\ Len(Front(support)) = n - 1
<1>1. support \in [1..n -> Collaterals] /\ support \in Seq(Collaterals) /\ Len(support) = n
  BY ArrayIsSequence DEF Agree
<1>2. /\ Front(support) \in Seq(Collaterals) /\ Len(Front(support)) = n - 1
      /\ \A i \in 1..n - 1 : Front(support)[i] = support[i]
  <2>1. Front(support) = SubSeq(support, 1, n - 1)
    BY <1>1 DEF Front
  <2> QED BY <1>1, <2>1, SubSeqProperties
<1>3. Front(support) \in [1..n - 1 -> Collaterals]
  BY <1>2, LenProperties, ElementOfSeq
<1>4. ASSUME NEW i \in 0..(n - 1) - 1
      PROVE  Front(support)[i + 1] \in R /\ indices[Front(support)[i + 1]] = i
  <2>1. i \in 0..n - 1 /\ i # n - 1 /\ i + 1 \in 1..n - 1
    OBVIOUS
  <2> QED BY <1>2, <2>1 DEF Agree
<1>5. ASSUME NEW d \in R
      PROVE  /\ indices[d] \in 0..(n - 1) - 1 /\ indices[d] # n - 1
             /\ Front(support)[indices[d] + 1] = d
  <2>1. indices[d] \in 0..n - 1 /\ indices[d] # n - 1 /\ support[indices[d] + 1] = d
    BY DEF Agree
  <2>2. indices[d] \in 0..(n - 1) - 1 /\ indices[d] + 1 \in 1..n - 1
    BY <2>1
  <2> QED BY <1>2, <2>1, <2>2
<1> QED BY <1>2, <1>3, <1>4, <1>5 DEF Agree

LEMMA RemovalKeepsBooks ==
  ASSUME BooksAgree, NEW c \in Collaterals, RemoveCollateral(c)
  PROVE  BooksAgree' /\ SameOrder(SupportedSet \ {c}, index', index)
<1> DEFINE book == ShiftedOut(index[c])
           n == collateralsCount
           R == SupportedSet \ {c}
<1>1. /\ n \in Nat /\ n \in 0..MaxCollaterals
      /\ c \in SupportedSet /\ SupportedSet \subseteq Collaterals
      /\ Agree(collateralSupport, index, SupportedSet, n, n)
  BY Places DEF BooksAgree, RemoveCollateral, SupportedSet
<1>2. n # 0 /\ n - 1 \in 0..MaxCollaterals
  <2>1. index[c] \in 0..n - 1
    BY <1>1 DEF Agree
  <2> QED BY <1>1, <2>1, Places
<1>3. Agree(book.support, book.index, R, n, n - 1) /\ SameOrder(R, book.index, index)
  BY <1>1, ShiftedPlaces
<1>4. /\ collateralSupport' = Front(book.support)
      /\ index' = [book.index EXCEPT ![c] = 0]
      /\ collateralsCount' = n - 1
  BY DEF RemoveCollateral
<1>5. SupportedSet' = R /\ collStatus' \in [Collaterals -> CollStatuses]
  BY DEF RemoveCollateral, SupportedSet, Supported, BooksAgree, CollStatuses
<1> HIDE DEF book, n
<1>6. /\ Agree(Front(book.support), book.index, R, n - 1, n - 1)
      /\ Front(book.support) \in Seq(Collaterals) /\ Len(Front(book.support)) = n - 1
  BY <1>1, <1>2, <1>3, FrontAgrees
<1>7. /\ index' \in [Collaterals -> 0..MaxCollaterals]
      /\ \A d \in R : index'[d] = book.index[d]
  <2>1. book.index \in [Collaterals -> 0..MaxCollaterals] /\ 0 \in 0..MaxCollaterals
    BY <1>1, <1>3, Places DEF Agree
  <2> QED BY <1>1, <1>4, <2>1
<1>8. Agree(Front(book.support), index', R, n - 1, n - 1)
  <2>1. \A i \in 0..(n - 1) - 1 : i # n - 1 =>
          Front(book.support)[i + 1] \in R /\ index'[Front(book.support)[i + 1]] = i
    BY <1>6, <1>7 DEF Agree
  <2>2. \A d \in R : /\ index'[d] \in 0..(n - 1) - 1 /\ index'[d] # n - 1
                     /\ Front(book.support)[index'[d] + 1] = d
    BY <1>6, <1>7 DEF Agree
  <2> QED BY <1>6, <1>7, <2>1, <2>2 DEF Agree
<1>9. BooksAgree'
  BY <1>2, <1>4, <1>5, <1>6, <1>8 DEF BooksAgree
<1>10. SameOrder(R, index', index)
  BY <1>3, <1>7 DEF SameOrder
<1> QED BY <1>9, <1>10

LEMMA StatusKeepsBooks ==
  ASSUME BooksAgree, NEW c \in Collaterals, NEW status \in {"active", "pause"}, SetStatus(c, status)
  PROVE  BooksAgree'
<1>1. /\ collStatus' = [collStatus EXCEPT ![c] = status] /\ Supported(c)
      /\ UNCHANGED <<collateralSupport, collateralsCount, index>>
  BY DEF SetStatus
<1>2. collStatus' \in [Collaterals -> CollStatuses] /\ SupportedSet' = SupportedSet
  BY <1>1 DEF BooksAgree, CollStatuses, SupportedSet, Supported
<1> QED BY <1>1, <1>2 DEF BooksAgree

LEMMA BooksInit == Init => BooksAgree
<1> SUFFICES ASSUME Init PROVE BooksAgree
  OBVIOUS
<1>1. /\ collateralSupport = <<>> /\ collateralsCount = 0
      /\ collStatus = [c \in Collaterals |-> "nonSupport"]
      /\ index = [c \in Collaterals |-> 0]
  BY DEF Init
<1>2. /\ MaxCollaterals \in Nat /\ 0 \in 0..MaxCollaterals
      /\ 0..0 - 1 = {} /\ 1..0 = {}
  BY CollateralAssumption
<1>3. SupportedSet = {} /\ collStatus \in [Collaterals -> CollStatuses]
  BY <1>1 DEF SupportedSet, Supported, CollStatuses
<1>4. collateralSupport \in Seq(Collaterals) /\ Len(collateralSupport) = 0
  BY <1>1, EmptySeq
<1>5. collateralSupport \in [1..0 -> Collaterals]
  BY <1>4, LenProperties
<1>6. index \in [Collaterals -> 0..MaxCollaterals]
  BY <1>1, <1>2
<1> QED BY <1>1, <1>2, <1>3, <1>4, <1>5, <1>6 DEF BooksAgree, Agree

LEMMA OwnerKeepsBooks == BooksAgree /\ Owner => BooksAgree'
<1> SUFFICES ASSUME BooksAgree, Owner PROVE BooksAgree'
  OBVIOUS
<1> QED BY AddKeepsBooks, MoveKeepsBooks, RemovalKeepsBooks, StatusKeepsBooks DEF Owner

-----------------------------------------------------------------------------
(* The prices.                                                             *)

PriceTypes ==
  /\ feed \in [Priced -> Feeds]
  /\ oracleStatus \in [Priced -> OracleStatuses] /\ lastGoodPrice \in [Priced -> ScaledAnswers]

LEMMA Judgement ==
  ASSUME NEW f
  PROVE  /\ Judged(f) \in OracleStatuses
         /\ Judged(f) = "chainlinkWorking" =>
              /\ Health(f) = "live"
              /\ f.reachable /\ f.answer # Bad /\ ~Frozen(f) /\ ~PriceChangeAboveMax(f)
<1>1. Health(f) \in {"broken", "frozen", "live"}
  BY DEF Health
<1>2. Health(f) = "live" => ~Broken(f) /\ ~Frozen(f)
  BY DEF Health
<1>4. ~Broken(f) => f.reachable /\ f.answer # Bad
  BY DEF Broken
<1>5. /\ Judged(f) \in OracleStatuses
      /\ Judged(f) = "chainlinkWorking" => Health(f) = "live" /\ ~PriceChangeAboveMax(f)
  BY <1>1 DEF Judged, OracleStatuses
<1> QED BY <1>2, <1>4, <1>5

LEMMA FetchKeepsPrices ==
  ASSUME PriceTypes, NEW fetched, Fetch(fetched)
  PROVE  PriceTypes'
<1>1. ASSUME NEW c \in Priced PROVE Fetched(c) \in ScaledAnswers
  <2>1. CASE Judged(feed[c]) = "chainlinkWorking"
    <3>1. feed[c].answer \in Answers \cup {Bad} /\ feed[c].answer # Bad
      BY <2>1, Judgement DEF PriceTypes, Feeds
    <3> QED BY <2>1, <3>1 DEF Fetched, ScaledAnswers
  <2>2. CASE Judged(feed[c]) # "chainlinkWorking"
    BY <2>2 DEF Fetched, PriceTypes
  <2> QED BY <2>1, <2>2
<1>2. lastGoodPrice' \in [Priced -> ScaledAnswers]
  BY <1>1 DEF Fetch, PriceTypes
<1>3. oracleStatus' \in [Priced -> OracleStatuses]
  BY Judgement DEF Fetch, PriceTypes
<1> QED BY <1>2, <1>3 DEF Fetch, PriceTypes

LEMMA AgesNext == 0 \in Ages /\ \A age \in Ages : Older(age) \in Ages
  BY FeedAssumption DEF Ages, Older, MinOf

LEMMA FeedsKeepPrices ==
  ASSUME PriceTypes,
         \/ \E c \in Volatile : \/ \E answer \in Answers \cup {Bad} : Round(c, answer)
                               \/ \E reachable \in BOOLEAN : Reachable(c, reachable)
         \/ Tick
  PROVE  PriceTypes'
<1>1. Volatile \subseteq Priced
  BY CollateralAssumption DEF Priced
<1>2. ASSUME NEW c \in Volatile, NEW answer \in Answers \cup {Bad}, Round(c, answer)
      PROVE  PriceTypes'
  <2>1. WithRound(feed[c], answer) \in Feeds
    BY <1>1, AgesNext DEF PriceTypes, Feeds, WithRound
  <2> QED BY <1>1, <1>2, <2>1 DEF Round, PriceTypes, oracleVars
<1>3. ASSUME NEW c \in Volatile, NEW reachable \in BOOLEAN, Reachable(c, reachable)
      PROVE  PriceTypes'
  <2>1. [feed[c] EXCEPT !.reachable = reachable] \in Feeds
    BY <1>1 DEF PriceTypes, Feeds
  <2>2. feed' = [feed EXCEPT ![c] = [feed[c] EXCEPT !.reachable = reachable]]
    BY <1>1, <1>3 DEF Reachable
  <2> QED BY <1>1, <1>3, <2>1, <2>2 DEF Reachable, PriceTypes, oracleVars
<1>4. CASE Tick
  <2>1. ASSUME NEW c \in Priced PROVE [feed[c] EXCEPT !.age = Older(@)] \in Feeds
    BY AgesNext DEF PriceTypes, Feeds
  <2>2. feed' \in [Priced -> Feeds]
    BY <1>4, <2>1 DEF Tick, PriceTypes
  <2> QED BY <1>4, <2>2 DEF Tick, PriceTypes, oracleVars
<1> QED BY <1>2, <1>3, <1>4

LEMMA PricesInit == Init => PriceTypes
<1> SUFFICES ASSUME Init PROVE PriceTypes
  OBVIOUS
<1>1. PICK answer \in Answers : /\ feed = [c \in Priced |-> NewFeed(answer)]
                               /\ lastGoodPrice = [c \in Priced |-> Scaled(answer)]
  BY DEF Init
<1>2. NewFeed(answer) \in Feeds
  BY AgesNext DEF NewFeed, Feeds
<1>3. Scaled(answer) \in ScaledAnswers
  BY DEF ScaledAnswers
<1> QED BY <1>1, <1>2, <1>3 DEF Init, PriceTypes, OracleStatuses

-----------------------------------------------------------------------------
(* The theorems.                                                           *)

IInv == BooksAgree /\ PriceTypes

LEMMA IInvInit == Init => IInv
  BY BooksInit, PricesInit DEF IInv

LEMMA IInvStep == IInv /\ [Next]_vars => IInv'
<1> SUFFICES ASSUME IInv, [Next]_vars PROVE IInv'
  OBVIOUS
<1>1. CASE Owner
  <2>1. UNCHANGED <<feed, oracleVars>>
    BY <1>1 DEF Owner, AddCollateral, RemoveCollateral, SetCollateralPriority, SetStatus
  <2>2. PriceTypes'
    BY <2>1 DEF IInv, PriceTypes, oracleVars
  <2> QED BY <1>1, <2>2, OwnerKeepsBooks DEF IInv
<1>2. ASSUME UNCHANGED paramVars PROVE BooksAgree'
  BY <1>2 DEF IInv, BooksAgree, paramVars, SupportedSet, Supported
<1>3. ASSUME NEW fetched, Fetch(fetched) PROVE IInv'
  BY <1>2, <1>3, FetchKeepsPrices DEF IInv, Fetch
<1>4. CASE \/ \E c \in Volatile : \/ \E answer \in Answers \cup {Bad} : Round(c, answer)
                                \/ \E reachable \in BOOLEAN : Reachable(c, reachable)
           \/ Tick
  BY <1>2, <1>4, FeedsKeepPrices DEF IInv, Round, Reachable, Tick
<1>5. CASE UNCHANGED vars
  BY <1>2, <1>5 DEF vars, oracleVars, IInv, PriceTypes
<1> QED BY <1>1, <1>3, <1>4, <1>5 DEF Next, PriceUpdate, FetchPrice

LEMMA IInvAlways == Spec => []IInv
<1> QED BY IInvInit, IInvStep, PTL DEF Spec

LEMMA IInvAgrees == IInv => IndicesAgree
<1> SUFFICES ASSUME IInv PROVE IndicesAgree
  OBVIOUS
<1>1. TypeOK
  BY DEF IInv, BooksAgree, PriceTypes, Agree, TypeOK
<1>2. \A i \in 0..collateralsCount - 1 : i # collateralsCount
  BY DEF TypeOK
<1>3. /\ \A i \in 0..collateralsCount - 1 : Supported(At(i)) /\ index[At(i)] = i
      /\ \A c \in Collaterals : Supported(c) => index[c] \in 0..collateralsCount - 1 /\ At(index[c]) = c
  BY <1>2 DEF IInv, BooksAgree, Agree, SupportedSet, At
<1>4. \A c \in Collaterals : Supported(c) => index[c] < collateralsCount
  BY <1>1, <1>3, Places DEF TypeOK
<1> QED BY <1>1, <1>3, <1>4 DEF IndicesAgree, IInv, BooksAgree

\* The array, the counter, the indices and the statuses agree after every
\* sequence of additions, removals and moves, for any number of collaterals.
THEOREM IndicesAlwaysAgree == Spec => []IndicesAgree
<1> QED BY IInvAlways, IInvAgrees, PTL

\* A collateral moved gets its place; neither a move nor a removal changes the
\* order of the others.
THEOREM OrderOfOthersKept == Spec => OthersKeepOrder
<1> DEFINE Kept ==
      \A c \in Collaterals :
       /\ \A newIndex \in 0..MaxCollaterals : SetCollateralPriority(c, newIndex) => index'[c] = newIndex
       /\ (RemoveCollateral(c) \/ \E newIndex \in 0..MaxCollaterals : SetCollateralPriority(c, newIndex)) =>
            \A a, b \in {At(i) : i \in 0..collateralsCount - 1} \ {c} :
              index[a] < index[b] => index'[a] < index'[b]
<1>1. IInv => Kept
  <2> SUFFICES ASSUME IInv, NEW c \in Collaterals
               PROVE  /\ \A newIndex \in 0..MaxCollaterals :
                           SetCollateralPriority(c, newIndex) => index'[c] = newIndex
                      /\ (RemoveCollateral(c) \/ \E newIndex \in 0..MaxCollaterals :
                                                    SetCollateralPriority(c, newIndex)) =>
                           \A a, b \in {At(i) : i \in 0..collateralsCount - 1} \ {c} :
                             index[a] < index[b] => index'[a] < index'[b]
    OBVIOUS
  <2>1. {At(i) : i \in 0..collateralsCount - 1} \subseteq SupportedSet
    <3>1. \A i \in 0..collateralsCount - 1 : i # collateralsCount
      BY Places DEF IInv, BooksAgree
    <3>2. \A i \in 0..collateralsCount - 1 : collateralSupport[i + 1] \in SupportedSet
      BY <3>1 DEF IInv, BooksAgree, Agree
    <3> HIDE DEF SupportedSet
    <3> QED BY <3>2 DEF At
  <2>2. RemoveCollateral(c) => SameOrder(SupportedSet \ {c}, index', index)
    BY RemovalKeepsBooks DEF IInv
  <2>3. \A newIndex \in 0..MaxCollaterals : SetCollateralPriority(c, newIndex) =>
          index'[c] = newIndex /\ SameOrder(SupportedSet \ {c}, index', index)
    BY MoveKeepsBooks DEF IInv
  <2> QED BY <2>1, <2>2, <2>3 DEF SameOrder
<1> QED BY <1>1, IInvAlways, PTL DEF OthersKeepOrder

\* Only the answer of a feed that is reachable, not broken, not frozen and did
\* not jump is stored.
THEOREM OnlyLivePricesStored == Spec => OnlyLivePrices
<1> DEFINE Live ==
      \A c \in Priced :
       lastGoodPrice'[c] # lastGoodPrice[c] \/
         (oracleStatus'[c] = "chainlinkWorking" /\ oracleStatus[c] # "chainlinkWorking") =>
         /\ feed[c].reachable /\ feed[c].age <= TIMEOUT
         /\ ChangeComputable(feed[c]) /\ ~PriceChangeAboveMax(feed[c])
         /\ lastGoodPrice'[c] = Scaled(feed[c].answer)
<1>1. IInv /\ [Next]_vars => Live
  <2> SUFFICES ASSUME IInv, [Next]_vars PROVE Live
    OBVIOUS
  <2>1. ASSUME NEW fetched, Fetch(fetched) PROVE Live
    <3>1. \A c \in Priced : feed[c].age \in Nat /\ TIMEOUT \in Nat
      BY FeedAssumption DEF IInv, PriceTypes, Feeds, Ages
    <3>2. \A c \in fetched \cap Priced : Judged(feed[c]) = "chainlinkWorking" =>
            /\ feed[c].reachable /\ feed[c].age <= TIMEOUT
            /\ ChangeComputable(feed[c]) /\ ~PriceChangeAboveMax(feed[c])
      <4> SUFFICES ASSUME NEW c \in fetched \cap Priced, Judged(feed[c]) = "chainlinkWorking"
                   PROVE  /\ feed[c].reachable /\ feed[c].age <= TIMEOUT
                          /\ ChangeComputable(feed[c]) /\ ~PriceChangeAboveMax(feed[c])
        OBVIOUS
      <4>1. /\ Health(feed[c]) = "live" /\ feed[c].reachable
            /\ ~Frozen(feed[c]) /\ ~PriceChangeAboveMax(feed[c])
        BY Judgement
      <4>2. feed[c].age <= TIMEOUT BY <3>1, <4>1 DEF Frozen
      <4>3. ChangeComputable(feed[c]) BY <2>1, <4>1 DEF Fetch
      <4> QED BY <4>1, <4>2, <4>3
    <3>3. \A c \in Priced :
            /\ lastGoodPrice'[c] = IF c \in fetched THEN Fetched(c) ELSE lastGoodPrice[c]
            /\ oracleStatus'[c] = IF c \in fetched THEN Judged(feed[c]) ELSE oracleStatus[c]
      BY <2>1 DEF Fetch
    <3> QED BY <3>2, <3>3 DEF Fetched
  <2>2. CASE UNCHANGED oracleVars
    BY <2>2 DEF oracleVars
  <2>3. CASE Owner
    BY <2>2, <2>3 DEF Owner, AddCollateral, RemoveCollateral, SetCollateralPriority, SetStatus
  <2> QED BY <2>1, <2>2, <2>3 DEF Next, PriceUpdate, FetchPrice, Round, Reachable, Tick, vars
<1> QED BY <1>1, IInvAlways, PTL DEF Spec, OnlyLivePrices
=============================================================================
