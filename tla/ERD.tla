-------------------------------- MODULE ERD ---------------------------------
(***************************************************************************)
(* The whole system: borrowers, liquidators, redeemers, depositors of the  *)
(* StabilityPool, the price and the owner's gas compensation act in any    *)
(* order.  Every action is one transaction.                                *)
(***************************************************************************)
EXTENDS TroveManagerLiquidations, TroveManagerRedemptions

CONSTANTS
  Deposits,        \* the collateral openTrove may bring (a set of Amounts)
  TopUps,          \* the collateral an adjustment may bring or take
  Loans,           \* the USDE openTrove may ask for
  Changes,         \* the USDE an adjustment may draw or repay
  StabilityAmounts, \* the USDE moved in and out of the StabilityPool
  RedemptionAmounts, \* the USDE a redemption may ask for
  Refreshed,       \* the owners updateTroves is called for
  Prices,          \* the prices, each a value per unit of every collateral
  GasCompensations, \* the values of USDE_GAS_COMPENSATION, the first included
  CollCap,         \* bound: the most of one collateral in the Active- and DefaultPool
  SurplusCap,      \* bound: the most of one collateral an owner leaves unclaimed
  MaxE             \* bound: the largest sum per unit staked

ASSUME ERDAssumption ==
  /\ Deposits \subseteq Amounts /\ TopUps \subseteq Amounts
  /\ Loans \subseteq Nat /\ Changes \subseteq Nat
  /\ StabilityAmounts \subseteq Nat /\ RedemptionAmounts \subseteq Nat
  /\ Refreshed \subseteq Borrowers
  /\ Prices \subseteq [Collaterals -> Nat \ {0}]
  /\ GasCompensations \subseteq Nat \ {0}
  /\ CollCap \in Nat /\ SurplusCap \in Nat /\ MaxE \in Nat

-----------------------------------------------------------------------------
\* What the Chainlink and Tellor oracles say, through PriceFeed.fetchPrice.
SetPrice(prices) ==
  /\ price' = prices
  /\ UNCHANGED <<troveVars, stakeVars, snapshotVars, systemSnapshotVars, rewardVars,
                 debtVars, eToken, poolVars, surplus, usdeVars, USDE_GAS_COMPENSATION>>

MoveToStabilityPool(amount) ==
  /\ wallets' = wallets - amount
  /\ totalUSDEDeposits' = totalUSDEDeposits + amount
  /\ UNCHANGED <<troveVars, stakeVars, snapshotVars, systemSnapshotVars, rewardVars,
                 debtVars, eToken, poolVars, surplus, gasPool, envVars>>

ProvideToSP(amount) ==
  /\ amount > 0 /\ amount <= wallets
  /\ MoveToStabilityPool(amount)

\* withdrawFromSP: not while the owner at the tail of the list is below the
\* MCR (the ICR of address(0), the tail of an empty list, is infinite).
WithdrawFromSP(amount) ==
  /\ amount > 0 /\ amount <= totalUSDEDeposits
  /\ list # <<>> => CurrentICR(Last(list)) >= MCR
  /\ MoveToStabilityPool(-amount)

Init ==
  /\ InitTroveManager
  /\ price \in Prices
  /\ USDE_GAS_COMPENSATION \in GasCompensations

-----------------------------------------------------------------------------
BorrowerCall(b) ==
  \/ \E coll \in Deposits, amount \in Loans, rate \in BorrowingRates :
        OpenTrove(b, coll, amount, rate)
  \/ \E in \in TopUps : AdjustTrove(b, in, Zeros, 0, FALSE, 0)
  \/ \E out \in TopUps : AdjustTrove(b, Zeros, out, 0, FALSE, 0)
  \/ \E change \in Changes, rate \in BorrowingRates : AdjustTrove(b, Zeros, Zeros, change, TRUE, rate)
  \/ \E change \in Changes : AdjustTrove(b, Zeros, Zeros, change, FALSE, 0)
  \/ \E in, out \in TopUps \cup {Zeros}, change \in Changes, isIncrease \in BOOLEAN,
        rate \in BorrowingRates : AdjustTrove(b, in, out, change, isIncrease, rate)
  \/ CloseTrove(b)
  \/ ClaimCollateral(b)

\* Any sequence of distinct owners: an owner listed twice is passed over.
Liquidation ==
  \/ \E n \in 1..Cardinality(Borrowers) : LiquidateTroves(n)
  \/ \E S \in SUBSET Borrowers : \E owners \in SetToSeqs(S) : BatchLiquidate(owners)

Redemption ==
  \/ \E amount \in RedemptionAmounts, p \in DOMAIN list, n \in 1..Cardinality(Borrowers),
        hintFresh \in BOOLEAN, rate \in RedemptionRates :
        RedeemCollateral(amount, p, n, hintFresh, rate)
  \/ \E b \in Refreshed : UpdateTrove(b)

Environment ==
  \/ \E prices \in Prices : SetPrice(prices)
  \/ \E gas \in GasCompensations : SetGasCompensation(gas)
  \/ \E amount \in StabilityAmounts : ProvideToSP(amount) \/ WithdrawFromSP(amount)

WithinBounds ==
  \A c \in Collaterals :
    /\ activeColl'[c] + defaultColl'[c] <= CollCap
    /\ \A b \in Borrowers : surplus'[b][c] <= SurplusCap
    /\ E_Coll'[c] <= MaxE /\ E_USDEDebt'[c] <= MaxE

Next ==
  /\ (\E b \in Borrowers : BorrowerCall(b)) \/ Liquidation \/ Redemption \/ Environment
  /\ WithinBounds

Spec == Init /\ [][Next]_vars
=============================================================================
