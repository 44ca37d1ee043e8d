\* Deposits that together outgrow a pool above DECIMAL_PRECISION.
CONSTANTS
  u1 = u1
  u2 = u2
  weth = weth
  steth = steth
  Users = {u1, u2}
  NoFrontEnd = NoFrontEnd
  Collaterals <- One
  Removable = {}
  Registrants = {}
  DECIMAL_PRECISION = 16
  SCALE_FACTOR = 4
  ProvideAmounts = {20}
  WithdrawAmounts = {}
  Offsets <- LossOffsets
  DepositCap = 40
  CollCap = 64
  SumCap = 10000
  MaxEpoch = 0
  MaxScale = 1
SPECIFICATION Spec
INVARIANT ErrorFavoursPool
CHECK_DEADLOCK FALSE
