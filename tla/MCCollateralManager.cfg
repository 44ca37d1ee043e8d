\* Every order of three collaterals, each active or paused, with a feed
\* that halves, doubles, freezes, breaks and recovers; its answers are scaled
\* down, the smallest of them to nothing.
CONSTANTS
  weth = weth
  steth = steth
  reth = reth
  Collaterals <- Three
  WETH = weth
  Volatile = {steth}
  MaxCollaterals = 3
  Answers = {4, 2000, 4200}
  CHAINLINK_DIGITS = 3
  TARGET_DIGITS = 2
  DECIMAL_PRECISION = 100
  MAX_PRICE_DEVIATION_FROM_PREVIOUS_ROUND = 50
  TIMEOUT = 1
SPECIFICATION Spec
INVARIANT IndicesAgree
PROPERTY OthersKeepOrder
PROPERTY OnlyLivePrices
