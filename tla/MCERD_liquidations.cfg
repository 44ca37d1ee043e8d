\* Three owners, one collateral.  At 18 every trove is safe; at 15 and 14 the
\* system may be in recovery mode, with the smaller troves just above the MCR
\* at 15, between 100% and the MCR at 14, and below 100% once they took rewards
\* in.  The StabilityPool can offset no, one or two troves, or a part of one
\* that took rewards in.
\* The system stops when the bounds leave no call to make.
CONSTANTS
  a1 = a1
  a2 = a2
  a3 = a3
  weth = weth
  steth = steth
  Ids = {a1, a2, a3}
  ICRs = {0}
  MaxSize = 3
  Collaterals <- One
  CollateralSupport <- OneSupport
  WETH = weth
  DECIMAL_PRECISION = 100
  MAX_UINT256 = 100000
  MCR = 110
  CCR = 130
  PERCENT_DIVISOR = 4
  MIN_NET_DEBT = 40
  MarketCap = 160
  BorrowingRates = {5}
  RECOVERY_FEE = 0
  RedemptionRates = {0}
  Deposits <- TwoSizes
  TopUps = {}
  Loans = {40}
  Changes = {}
  StabilityAmounts = {52}
  RedemptionAmounts = {}
  Refreshed = {}
  Prices <- LargePrices
  GasCompensations = {10}
  CollCap = 12
  SurplusCap = 1
  MaxE = 700
SPECIFICATION Spec
CHECK_DEADLOCK FALSE
SYMMETRY OwnerSymmetry
INVARIANT TypeOK
INVARIANT USDEBacked
INVARIANT ActiveDebtExact
INVARIANT CollateralHeld
INVARIANT OwnersAgree
INVARIANT TotalsAddUp
INVARIANT RewardsCovered
PROPERTY CappedLiquidation
PROPERTY NeverEmptied
