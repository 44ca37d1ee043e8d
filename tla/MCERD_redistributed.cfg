\* Troves of one collateral each beside troves of both.
CONSTANTS
  a1 = a1
  a2 = a2
  a3 = a3
  weth = weth
  steth = steth
  Ids = {a1, a2, a3}
  ICRs = {0}
  MaxSize = 3
  Collaterals <- Two
  CollateralSupport <- TwoSupport
  WETH = weth
  DECIMAL_PRECISION = 100
  MAX_UINT256 = 100000
  MCR = 110
  CCR = 130
  PERCENT_DIVISOR = 4
  MIN_NET_DEBT = 8
  MarketCap = 30
  BorrowingRates = {0}
  RECOVERY_FEE = 0
  RedemptionRates = {0}
  Deposits <- MixedDeposits
  TopUps = {}
  Loans = {8}
  Changes = {}
  StabilityAmounts = {}
  RedemptionAmounts = {}
  Refreshed = {a1, a2, a3}
  Prices <- EqualPrices
  GasCompensations = {2}
  CollCap = 12
  SurplusCap = 4
  MaxE = 400
SPECIFICATION Spec
CHECK_DEADLOCK FALSE
SYMMETRY OwnerSymmetry
INVARIANT Redistributed
