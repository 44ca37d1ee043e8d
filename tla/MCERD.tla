------------------------------- MODULE MCERD --------------------------------
(* The whole system on small instances. *)
EXTENDS ERDProperties

CONSTANTS a1, a2, a3, weth, steth

OwnerSymmetry == Permutations(Ids)

One == {weth}
OneSupport == <<weth>>
Amount(x) == [c \in One |-> x]
OneDeposits == {Amount(4)}
TwoSizes == {Amount(4), Amount(5)}
OneTopUps == {Amount(2)}
OnePrices == {Amount(5), Amount(3)}
LargePrices == {Amount(18), Amount(15), Amount(14)}

Two == {weth, steth}
TwoSupport == <<weth, steth>>
Pair(x, y) == (weth :> x) @@ (steth :> y)
TwoDeposits == {Pair(4, 0), Pair(1, 3)}
TwoTopUps == {Pair(1, 0)}
TwoPrices == {Pair(5, 5), Pair(5, 1)}

\* Mixed deposits of equal value, for the runs that look for one counterexample.
MixedDeposits == {Pair(4, 0), Pair(2, 2), Pair(0, 4)}
EqualPrices == {Pair(5, 5), Pair(2, 2)}
LargeDeposits == {Pair(4, 4)}

\* A large trove beside one whose collateral is too small for the large stakes.
Dust == {Amount(200), Amount(1), Amount(3)}
DustTopUps == {Amount(200)}
DustPrices == {Amount(30), Amount(9)}
=============================================================================
