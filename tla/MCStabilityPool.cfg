\* Two depositors, a pool that is emptied once and rescaled twice.
CONSTANTS
  u1 = u1
  u2 = u2
  weth = weth
  steth = steth
  Users = {u1, u2}
  NoFrontEnd = NoFrontEnd
  Collaterals <- One
  Removable = {}
  Registrants = {u1, u2}
  DECIMAL_PRECISION = 16
  SCALE_FACTOR = 4
  ProvideAmounts = {5, 9}
  WithdrawAmounts = {5}
  Offsets <- OneOffsets
  DepositCap = 14
  CollCap = 2
  SumCap = 100
  MaxEpoch = 1
  MaxScale = 2
SPECIFICATION Spec
SYMMETRY UserSymmetry
INVARIANT TypeOK
INVARIANT SnapshotsNotAhead
INVARIANT DepositsCovered
INVARIANT GainsCovered
PROPERTY OthersUntouched
PROPERTY OffsetOnlyConverts
CHECK_DEADLOCK FALSE
