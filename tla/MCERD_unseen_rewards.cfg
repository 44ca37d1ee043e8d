\* A redistribution whose collateral per stake rounds to zero and whose debt per
\* stake does not: RewardsSeen is refuted.
CONSTANTS
  a1 = a1
  a2 = a2
  a3 = a3
  weth = weth
  steth = steth
  Ids = {a1, a2, a3}
  ICRs = {0}
  MaxSize = 3
  Collaterals <- One
  CollateralSupport <- OneSupport
  WETH = weth
  DECIMAL_PRECISION = 100
  MAX_UINT256 = 100000
  MCR = 110
  CCR = 130
  PERCENT_DIVISOR = 4
  MIN_NET_DEBT = 8
  MarketCap = 100
  BorrowingRates = {0}
  RECOVERY_FEE = 0
  RedemptionRates = {0}
  Deposits <- Dust
  TopUps <- DustTopUps
  Loans = {8}
  Changes = {}
  StabilityAmounts = {}
  RedemptionAmounts = {}
  Refreshed = {}
  Prices <- DustPrices
  GasCompensations = {2}
  CollCap = 408
  SurplusCap = 4
  MaxE = 120
SPECIFICATION Spec
CHECK_DEADLOCK FALSE
SYMMETRY OwnerSymmetry
INVARIANT RewardsSeen
