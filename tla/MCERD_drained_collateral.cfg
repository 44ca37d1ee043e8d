\* Troves of two collaterals and partial redemptions that drain one of them.
CONSTANTS
  a1 = a1
  a2 = a2
  a3 = a3
  weth = weth
  steth = steth
  Ids = {a1, a2, a3}
  ICRs = {0}
  MaxSize = 3
  Collaterals <- Two
  CollateralSupport <- TwoSupport
  WETH = weth
  DECIMAL_PRECISION = 100
  MAX_UINT256 = 100000
  MCR = 110
  CCR = 130
  PERCENT_DIVISOR = 4
  MIN_NET_DEBT = 8
  MarketCap = 42
  BorrowingRates = {0}
  RECOVERY_FEE = 0
  RedemptionRates = {0}
  Deposits <- LargeDeposits
  TopUps = {}
  Loans = {12}
  Changes = {}
  StabilityAmounts = {8}
  RedemptionAmounts = {4}
  Refreshed = {a1, a2, a3}
  Prices <- TwoPrices
  GasCompensations = {2}
  CollCap = 12
  SurplusCap = 4
  MaxE = 400
SPECIFICATION Spec
CHECK_DEADLOCK FALSE
SYMMETRY OwnerSymmetry
INVARIANT CollateralHeld
