\* An amount of collateral that is large against DECIMAL_PRECISION.
CONSTANTS
  u1 = u1
  u2 = u2
  weth = weth
  steth = steth
  Users = {u1}
  NoFrontEnd = NoFrontEnd
  Collaterals <- One
  Removable = {}
  Registrants = {}
  DECIMAL_PRECISION = 16
  SCALE_FACTOR = 4
  ProvideAmounts = {13}
  WithdrawAmounts = {}
  Offsets <- LargeOffsets
  DepositCap = 14
  CollCap = 64
  SumCap = 10000
  MaxEpoch = 0
  MaxScale = 1
SPECIFICATION Spec
INVARIANT GainsCovered
CHECK_DEADLOCK FALSE
