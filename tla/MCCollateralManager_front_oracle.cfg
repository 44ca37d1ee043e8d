\* Two collaterals whose prices move.
CONSTANTS
  weth = weth
  steth = steth
  reth = reth
  Collaterals <- Three
  WETH = weth
  Volatile = {steth, reth}
  MaxCollaterals = 3
  Answers = {20, 42}
  CHAINLINK_DIGITS = 1
  TARGET_DIGITS = 2
  DECIMAL_PRECISION = 100
  MAX_PRICE_DEVIATION_FROM_PREVIOUS_ROUND = 50
  TIMEOUT = 1
SPECIFICATION Spec
PROPERTY AllPricesUpdated
