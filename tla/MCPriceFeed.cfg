\* Rounds, outages, stale and bad answers of both oracles, in any order.
\* Chainlink's answers are scaled down, the smallest of them to nothing.
CONSTANTS
  Answers = {4, 2000, 2100, 4200}
  TellorValues = {2, 4}
  CHAINLINK_DIGITS = 3
  TELLOR_DIGITS = 0
  TARGET_DIGITS = 2
  DECIMAL_PRECISION = 100
  MAX_PRICE_DEVIATION_FROM_PREVIOUS_ROUND = 50
  MAX_PRICE_DIFFERENCE_BETWEEN_ORACLES = 5
  TIMEOUT = 1
SPECIFICATION Spec
INVARIANT TypeOK
PROPERTY OnlyGoodPrices
PROPERTY DistrustUntilAgreement
PROPERTY TrustReturns
