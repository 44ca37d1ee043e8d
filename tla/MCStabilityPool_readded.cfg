\* A collateral is removed and added again.
CONSTANTS
  u1 = u1
  u2 = u2
  weth = weth
  steth = steth
  Users = {u1, u2}
  NoFrontEnd = NoFrontEnd
  Collaterals <- Two
  Removable = {steth}
  Registrants = {}
  DECIMAL_PRECISION = 16
  SCALE_FACTOR = 4
  ProvideAmounts = {5, 9}
  WithdrawAmounts = {100}
  Offsets <- TwoOffsets
  DepositCap = 14
  CollCap = 6
  SumCap = 100
  MaxEpoch = 1
  MaxScale = 2
SPECIFICATION SpecWithSupportChanges
INVARIANT GainsSinceSnapshots
CHECK_DEADLOCK FALSE
