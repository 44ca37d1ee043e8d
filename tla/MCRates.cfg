\* Two owners, five seconds and five calls in any order between them.
CONSTANTS
  o1 = o1
  o2 = o2
  Owners = {o1, o2}
  RAY = 10
  SECONDS_PER_YEAR = 2
  BorrowRates = {0, 8}
  DECIMAL_PRECISION = 1000
  SECONDS_IN_ONE_MINUTE = 2
  MINUTE_DECAY_FACTOR = 700
  BETA = 2
  BorrowingFeeFloor = 0
  MaxBorrowingFee = 250
  RedemptionFeeFloor = 1
  RecoveryFee = 0
  USDE_GAS_COMPENSATION = 2
  MIN_NET_DEBT = 2
  Loans = {5}
  Repayments = {3}
  MaxTime = 5
  MaxCalls = 5
SPECIFICATION Spec
CHECK_DEADLOCK FALSE
SYMMETRY OwnerSymmetry
INVARIANT TypeOK
INVARIANT ClearsExactly
PROPERTY SupplyMatchesDebt
INVARIANT DecaysInStep
PROPERTY OthersOweTheSame
