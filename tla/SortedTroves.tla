---------------------------- MODULE SortedTroves ----------------------------
(***************************************************************************)
(* The doubly linked list of SortedTroves.sol, with the hints its callers  *)
(* pass: insert and reInsert take the two neighbours between which the     *)
(* caller expects the node to land.  Hints come from off-chain code and    *)
(* may be anything: stale, swapped, a node that left the list, the node    *)
(* itself.  _findInsertPosition repairs a wrong hint by walking the list.  *)
(***************************************************************************)
EXTENDS Naturals, Sequences, SequencesExt

CONSTANTS
  Ids,      \* the addresses that may own a trove
  NULL,     \* address(0)
  ICRs,     \* the ICR values callers may pass, zero included
  MaxSize   \* data.maxSize, set once by setParams

ASSUME SortedTrovesAssumption ==
  /\ NULL \notin Ids
  /\ ICRs \subseteq Nat
  /\ MaxSize \in Nat \ {0}

VARIABLE data   \* the struct Data

Addresses == Ids \cup {NULL}

NoNode == [exists |-> FALSE, nextId |-> NULL, prevId |-> NULL, ICR |-> 0]

Node == [exists : BOOLEAN, nextId : Addresses, prevId : Addresses, ICR : Nat]

-----------------------------------------------------------------------------
(* The views, on a value d of the struct.                                  *)

Holds(d, id) == d.nodes[id].exists

\* Mutant: the lower neighbour's ICR is not compared.
ValidInsertPosition_UpperOnly(d, icr, p, n) ==
  \/ p = NULL /\ n = NULL /\ d.size = 0
  \/ p = NULL /\ n # NULL /\ d.head = n
  \/ p # NULL /\ n = NULL /\ d.tail = p /\ icr <= d.nodes[p].ICR
  \/ p # NULL /\ n # NULL /\ d.nodes[p].nextId = n /\ d.nodes[p].ICR >= icr

ValidInsertPosition(d, icr, p, n) ==
  \/ p = NULL /\ n = NULL /\ d.size = 0
  \/ p = NULL /\ n # NULL /\ d.head = n /\ icr >= d.nodes[n].ICR
  \/ p # NULL /\ n = NULL /\ d.tail = p /\ icr <= d.nodes[p].ICR
  \/ /\ p # NULL /\ n # NULL
     /\ d.nodes[p].nextId = n
     /\ d.nodes[p].ICR >= icr
     /\ icr >= d.nodes[n].ICR

DescendList(d, icr, start) ==
  LET walk[p \in Addresses] ==
        LET n == d.nodes[p].nextId
        IN  IF p = NULL \/ ValidInsertPosition(d, icr, p, n)
              THEN <<p, n>> ELSE walk[n]
  IN  IF d.head = start /\ icr >= d.nodes[start].ICR
        THEN <<NULL, start>> ELSE walk[start]

AscendList(d, icr, start) ==
  LET walk[n \in Addresses] ==
        LET p == d.nodes[n].prevId
        IN  IF n = NULL \/ ValidInsertPosition(d, icr, p, n)
              THEN <<p, n>> ELSE walk[p]
  IN  IF d.tail = start /\ icr <= d.nodes[start].ICR
        THEN <<start, NULL>> ELSE walk[start]

\* A hint that left the list, or whose ICR moved past icr, is dropped.
FindInsertPosition(d, icr, prevHint, nextHint) ==
  LET p == IF Holds(d, prevHint) /\ icr <= d.nodes[prevHint].ICR THEN prevHint ELSE NULL
      n == IF Holds(d, nextHint) /\ icr >= d.nodes[nextHint].ICR THEN nextHint ELSE NULL
  IN  CASE p = NULL /\ n = NULL -> DescendList(d, icr, d.head)
        [] p = NULL /\ n # NULL -> AscendList(d, icr, n)
        [] OTHER                -> DescendList(d, icr, p)

-----------------------------------------------------------------------------
(* The updates, as functions of the struct.                                *)

\* Mutant: a full list accepts one more node.
CanInsert_WhenFull(d, id, icr) == d.size <= MaxSize /\ ~Holds(d, id) /\ icr # 0

CanInsert(d, id, icr) == d.size # MaxSize /\ ~Holds(d, id) /\ icr # 0

\* Mutant: the hint is never used as it stands.
Inserted_HintIgnored(d, id, icr, prevHint, nextHint) ==
  LET pos == FindInsertPosition(d, icr, NULL, NULL)
      p == pos[1]
      n == pos[2]
  IN  [head  |-> IF p = NULL THEN id ELSE d.head,
       tail  |-> IF n = NULL THEN id ELSE d.tail,
       size  |-> d.size + 1,
       nodes |-> [d.nodes EXCEPT
                    ![id] = [exists |-> TRUE, nextId |-> n, prevId |-> p, ICR |-> icr],
                    ![p].nextId = IF p = NULL THEN @ ELSE id,
                    ![n].prevId = IF n = NULL THEN @ ELSE id]]

\* _insert: link the node between its neighbours; a missing neighbour means
\* the node becomes the head, the tail, or both.
Inserted(d, id, icr, prevHint, nextHint) ==
  LET pos == IF ValidInsertPosition(d, icr, prevHint, nextHint)
               THEN <<prevHint, nextHint>>
               ELSE FindInsertPosition(d, icr, prevHint, nextHint)
      p == IF pos[1] = NULL \/ pos[2] # NULL THEN pos[1] ELSE d.tail
      n == IF pos[2] = NULL \/ pos[1] # NULL THEN pos[2] ELSE d.head
  IN  [head  |-> IF pos[1] = NULL THEN id ELSE d.head,
       tail  |-> IF pos[2] = NULL THEN id ELSE d.tail,
       size  |-> d.size + 1,
       nodes |-> [d.nodes EXCEPT
                    ![id] = [exists |-> TRUE, nextId |-> n, prevId |-> p, ICR |-> icr],
                    ![p].nextId = IF p = NULL THEN @ ELSE id,
                    ![n].prevId = IF n = NULL THEN @ ELSE id]]

\* Mutant: the neighbours are joined but the ends of the list stay.
Removed_EndsKept(d, id) ==
  LET p == d.nodes[id].prevId
      n == d.nodes[id].nextId
  IN  [d EXCEPT !.size = @ - 1,
                !.nodes = [d.nodes EXCEPT ![p].nextId = IF p = NULL THEN @ ELSE n,
                                          ![n].prevId = IF n = NULL THEN @ ELSE p,
                                          ![id] = NoNode]]

\* _remove: unlink the node and clear its storage.
Removed(d, id) ==
  LET p == IF id = d.head THEN NULL ELSE d.nodes[id].prevId
      n == IF id # d.head /\ id = d.tail THEN NULL ELSE d.nodes[id].nextId
      unlinked == [d.nodes EXCEPT
                     ![p].nextId = IF id = d.head THEN @ ELSE n,
                     ![n].prevId = IF id # d.head /\ id = d.tail THEN @ ELSE p]
  IN  IF d.size > 1
        THEN [head  |-> IF id = d.head THEN n ELSE d.head,
              tail  |-> IF id # d.head /\ id = d.tail THEN p ELSE d.tail,
              size  |-> d.size - 1,
              nodes |-> [unlinked EXCEPT ![id] = NoNode]]
        ELSE [head |-> NULL, tail |-> NULL, size |-> d.size - 1,
              nodes |-> [d.nodes EXCEPT ![id] = NoNode]]

-----------------------------------------------------------------------------
Init == data = [head |-> NULL, tail |-> NULL, size |-> 0,
                nodes |-> [a \in Addresses |-> NoNode]]

\* insert, called by BorrowerOperations.openTrove
Insert(id, icr, prevHint, nextHint) ==
  /\ CanInsert(data, id, icr)
  /\ data' = Inserted(data, id, icr, prevHint, nextHint)

\* remove, called by TroveManager._closeTrove
RemoveNode(id) ==
  /\ Holds(data, id)
  /\ data' = Removed(data, id)

\* reInsert, called by adjustTrove, partial redemptions and updateTroves
ReInsert(id, icr, prevHint, nextHint) ==
  /\ Holds(data, id)
  /\ icr # 0
  /\ CanInsert(Removed(data, id), id, icr)
  /\ data' = Inserted(Removed(data, id), id, icr, prevHint, nextHint)

Next ==
  \/ \E id \in Ids, icr \in ICRs, p, n \in Addresses :
        Insert(id, icr, p, n) \/ ReInsert(id, icr, p, n)
  \/ \E id \in Ids : RemoveNode(id)

Spec == Init /\ [][Next]_data

-----------------------------------------------------------------------------
(* The list the links describe, read from the head down and from the tail  *)
(* up.  At most size nodes are read, so that a broken link shows as a      *)
(* wrong list and not as an endless walk.                                  *)

Follow(start, Step(_)) ==
  LET at[k \in 1..data.size] == IF k = 1 THEN start ELSE Step(at[k - 1])
  IN  [k \in 1..data.size |-> at[k]]

FromHead == Follow(data.head, LAMBDA a : data.nodes[a].nextId)
FromTail == Follow(data.tail, LAMBDA a : data.nodes[a].prevId)

\* Type correctness of the struct Data.
TypeOK ==
  data \in [head : Addresses, tail : Addresses, size : 0..MaxSize,
            nodes : [Addresses -> Node]]

\* Whatever hints the callers passed, both directions of the links describe
\* the same list, which holds each node with `exists` exactly once and ends
\* in null at both ends; a node outside the list keeps no trace of an
\* earlier stay (_remove deletes it), and nodes[address(0)], which the walks
\* read when they fall off an end, is never written.
WellLinked ==
  /\ FromHead = Reverse(FromTail)
  /\ ToSet(FromHead) = {id \in Ids : Holds(data, id)}
  /\ IsInjective(FromHead)
  /\ data.size > 0 => data.nodes[data.tail].nextId = NULL /\ data.nodes[data.head].prevId = NULL
  /\ data.size = 0 => data.head = NULL /\ data.tail = NULL
  /\ \A a \in Addresses : ~Holds(data, a) => data.nodes[a] = NoNode

\* Every call on the linked list is a call on the abstract sorted list: for
\* every hint the node lands where the recorded ICRs stay in order, no other
\* owner moves relative to the rest, and no call is refused or accepted that
\* the abstract list would not refuse or accept.
Abstract == INSTANCE SortedList
              WITH list <- FromHead,
                   recorded <- [id \in Ids |-> data.nodes[id].ICR]

ImplementsSortedList == Abstract!SpecSorted

\* A hint that is still right when the call runs is honoured: the node lands
\* exactly between the two neighbours the caller named (validInsertPosition),
\* which is what lets callers avoid the walk and choose among equal ICRs.
Between(d, id, p, n) ==
  /\ p # NULL => d.nodes[id].prevId = p /\ d.nodes[p].nextId = id
  /\ n # NULL => d.nodes[id].nextId = n /\ d.nodes[n].prevId = id

ValidHintHonoured ==
  [][\A id \in Ids, icr \in ICRs, p, n \in Addresses :
       (Insert(id, icr, p, n) /\ ValidInsertPosition(data, icr, p, n))
         => Between(data', id, p, n)]_data
=============================================================================
