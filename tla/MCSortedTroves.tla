--------------------------- MODULE MCSortedTroves ---------------------------
(* The linked list on a small set of owners. *)
EXTENDS SortedTroves

CONSTANTS a1, a2, a3, a4

MCIds == {a1, a2, a3, a4}
=============================================================================
