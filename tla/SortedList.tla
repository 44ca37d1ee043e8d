----------------------------- MODULE SortedList -----------------------------
(***************************************************************************)
(* What SortedTroves promises to the rest of the system: an ordered list   *)
(* of trove owners, largest recorded ICR first.  The ICR of an owner is    *)
(* the one handed to insert / reInsert; it stays as recorded until the     *)
(* next reInsert, whatever happens to prices, rewards or interest in       *)
(* between.  A caller's hint can only choose among the positions that      *)
(* keep the list ordered, so here the position is any such position.       *)
(*                                                                         *)
(* The operators on plain values are used by the modules that keep a list  *)
(* of their own; the specification at the end is what module SortedTroves  *)
(* (the doubly linked list of the contract) is shown to implement.         *)
(***************************************************************************)
EXTENDS Naturals, Sequences, SequencesExt

CONSTANTS
  Ids,      \* the addresses that may own a trove
  ICRs,     \* the ICR values callers may hand to the list, zero included
  MaxSize   \* data.maxSize

ASSUME SortedListAssumption ==
  /\ ICRs \subseteq Nat
  /\ MaxSize \in Nat \ {0}

VARIABLES
  list,      \* the owners in the list, head first
  recorded   \* [Ids -> Nat]: the ICR recorded for each owner, 0 when absent

sortedVars == <<list, recorded>>

-----------------------------------------------------------------------------
(* Operators on a list l and the recorded ICRs r.                          *)

IsSortedBy(l, r) == \A i, j \in 1..Len(l) : i < j => r[l[i]] >= r[l[j]]

\* Mutant: only the nodes above are compared.
Fits_AboveOnly(l, r, icr, k) == \A i \in 1..(k - 1) : r[l[i]] >= icr

\* A node with the given ICR may stand at position k.
Fits(l, r, icr, k) ==
  /\ \A i \in 1..(k - 1) : r[l[i]] >= icr
  /\ \A i \in k..Len(l) : icr >= r[l[i]]

\* The list l without id, which is in it.
Without(l, id) == RemoveAt(l, CHOOSE k \in DOMAIN l : l[k] = id)

\* The lists that an insertion of id may produce, over all hints.
Placements(l, r, id, icr) ==
  {InsertAt(l, k, id) : k \in {p \in 1..(Len(l) + 1) : Fits(l, r, icr, p)}}

\* The lists that a re-insertion of id may produce, over all hints.
Replacements(l, r, id, icr) == Placements(Without(l, id), r, id, icr)

\* A list is ordered by the ICRs r when it is sorted by them, holds nobody
\* twice, and r is nonzero for exactly the owners in it.
OrderedBy(l, r) ==
  /\ l \in Seq(Ids)
  /\ IsInjective(l)
  /\ DOMAIN r = Ids
  /\ IsSortedBy(l, r)
  /\ \A id \in Ids : r[id] # 0 <=> id \in ToSet(l)

\* The invariant of the list.
OrderedList == OrderedBy(list, recorded)

-----------------------------------------------------------------------------
InitSorted ==
  /\ list = <<>>
  /\ recorded = [id \in Ids |-> 0]

InsertSorted(id, icr) ==
  /\ ~Contains(list, id)
  /\ Len(list) < MaxSize
  /\ icr # 0
  /\ list' \in Placements(list, recorded, id, icr)
  /\ recorded' = [recorded EXCEPT ![id] = icr]

RemoveSorted(id) ==
  /\ Contains(list, id)
  /\ list' = Without(list, id)
  /\ recorded' = [recorded EXCEPT ![id] = 0]

ReInsertSorted(id, icr) ==
  /\ Contains(list, id)
  /\ icr # 0
  /\ list' \in Replacements(list, recorded, id, icr)
  /\ recorded' = [recorded EXCEPT ![id] = icr]

NextSorted ==
  \/ \E id \in Ids, icr \in ICRs : InsertSorted(id, icr) \/ ReInsertSorted(id, icr)
  \/ \E id \in Ids : RemoveSorted(id)

SpecSorted == InitSorted /\ [][NextSorted]_sortedVars
=============================================================================
