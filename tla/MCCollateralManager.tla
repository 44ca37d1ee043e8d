------------------------ MODULE MCCollateralManager -------------------------
(* The feed of one collateral changes; the other collaterals are there to  *)
(* be added, moved and removed around it.                                  *)
EXTENDS CollateralManager

CONSTANTS weth, steth, reth
Three == {weth, steth, reth}
=============================================================================
