\* Two owners who adjust and close their troves in every way, and a gas
\* compensation that changes under open troves.
CONSTANTS
  a1 = a1
  a2 = a2
  a3 = a3
  weth = weth
  steth = steth
  Ids = {a1, a2}
  ICRs = {0}
  MaxSize = 2
  Collaterals <- One
  CollateralSupport <- OneSupport
  WETH = weth
  DECIMAL_PRECISION = 100
  MAX_UINT256 = 100000
  MCR = 110
  CCR = 130
  PERCENT_DIVISOR = 4
  MIN_NET_DEBT = 8
  MarketCap = 30
  BorrowingRates = {0}
  RECOVERY_FEE = 0
  RedemptionRates = {0}
  Deposits <- OneDeposits
  TopUps <- OneTopUps
  Loans = {8}
  Changes = {4}
  StabilityAmounts = {}
  RedemptionAmounts = {}
  Refreshed = {a1, a2}
  Prices <- OnePrices
  GasCompensations = {1, 2}
  CollCap = 8
  SurplusCap = 4
  MaxE = 400
SPECIFICATION Spec
CHECK_DEADLOCK FALSE
SYMMETRY OwnerSymmetry
PROPERTY BorrowersKeepNormalMode
PROPERTY BorrowersHelpRecovery
INVARIANT NoDustTroves
INVARIANT ReservesComplete
