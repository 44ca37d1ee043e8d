\* Redemptions of less and of more than the debt of one trove, after prices
\* moved and rewards came in.
CONSTANTS
  a1 = a1
  a2 = a2
  a3 = a3
  weth = weth
  steth = steth
  Ids = {a1, a2, a3}
  ICRs = {0}
  MaxSize = 3
  Collaterals <- One
  CollateralSupport <- OneSupport
  WETH = weth
  DECIMAL_PRECISION = 100
  MAX_UINT256 = 100000
  MCR = 110
  CCR = 130
  PERCENT_DIVISOR = 4
  MIN_NET_DEBT = 8
  MarketCap = 36
  BorrowingRates = {0}
  RECOVERY_FEE = 0
  RedemptionRates = {50}
  Deposits <- OneDeposits
  TopUps = {}
  Loans = {8, 14}
  Changes = {}
  StabilityAmounts = {}
  RedemptionAmounts = {6, 20}
  Refreshed = {}
  Prices <- OnePrices
  GasCompensations = {2}
  CollCap = 12
  SurplusCap = 2
  MaxE = 200
SPECIFICATION Spec
CHECK_DEADLOCK FALSE
SYMMETRY OwnerSymmetry
PROPERTY RedeemedAtFaceValue
PROPERTY RedemptionSparesTheRest
INVARIANT ListSorted
