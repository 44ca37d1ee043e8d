\* Two collaterals of which one changes its price; a trove holds one of them
\* or both.
CONSTANTS
  a1 = a1
  a2 = a2
  a3 = a3
  weth = weth
  steth = steth
  Ids = {a1, a2, a3}
  ICRs = {0}
  MaxSize = 3
  Collaterals <- Two
  CollateralSupport <- TwoSupport
  WETH = weth
  DECIMAL_PRECISION = 100
  MAX_UINT256 = 100000
  MCR = 110
  CCR = 130
  PERCENT_DIVISOR = 4
  MIN_NET_DEBT = 8
  MarketCap = 30
  BorrowingRates = {0}
  RECOVERY_FEE = 0
  RedemptionRates = {0}
  Deposits <- TwoDeposits
  TopUps = {}
  Loans = {8}
  Changes = {}
  StabilityAmounts = {8}
  RedemptionAmounts = {8}
  Refreshed = {}
  Prices <- TwoPrices
  GasCompensations = {2}
  CollCap = 12
  SurplusCap = 3
  MaxE = 350
SPECIFICATION Spec
CHECK_DEADLOCK FALSE
SYMMETRY OwnerSymmetry
INVARIANT RewardsCovered
PROPERTY LowPriorityFirst
