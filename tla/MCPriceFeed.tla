---------------------------- MODULE MCPriceFeed -----------------------------
(* Prices of a few digits: 210 is within the allowed difference of 200,    *)
(* and 420 is within the allowed change of 210 but not of 200.  They are   *)
(* answers of three digits scaled down to two, where 4 becomes 0, or of    *)
(* one digit scaled up.                                                    *)
EXTENDS PriceFeed
=============================================================================
