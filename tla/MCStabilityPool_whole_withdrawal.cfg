\* A deposit that cannot be withdrawn in one piece.
CONSTANTS
  u1 = u1
  u2 = u2
  weth = weth
  steth = steth
  Users = {u1, u2}
  NoFrontEnd = NoFrontEnd
  Collaterals <- One
  Removable = {}
  Registrants = {u1, u2}
  DECIMAL_PRECISION = 16
  SCALE_FACTOR = 4
  ProvideAmounts = {5, 9}
  WithdrawAmounts = {100}
  Offsets <- OneOffsets
  DepositCap = 14
  CollCap = 3
  SumCap = 100
  MaxEpoch = 1
  MaxScale = 2
SPECIFICATION Spec
INVARIANT WholeWithdrawal
CHECK_DEADLOCK FALSE
