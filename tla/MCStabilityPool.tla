-------------------------- MODULE MCStabilityPool ---------------------------
(* The StabilityPool on small instances. *)
EXTENDS StabilityPool, TLC

CONSTANTS u1, u2, weth, steth

UserSymmetry == Permutations(Users)

One == {weth}
OneOffset(debt, amount) == [debt |-> debt, coll |-> [c \in One |-> amount]]
OneOffsets == {OneOffset(4, 1), OneOffset(13, 2), OneOffset(14, 2)}
LargeOffsets == {OneOffset(1, 0), OneOffset(8, 0), OneOffset(1, 64)}
LossOffsets == {OneOffset(1, 0), OneOffset(4, 0), OneOffset(26, 0)}

Two == {weth, steth}
TwoOffsets == {[debt |-> 4, coll |-> [c \in Two |-> 2]], [debt |-> 4, coll |-> (weth :> 2) @@ (steth :> 0)]}
=============================================================================
