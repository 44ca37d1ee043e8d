\* The aggregator's calls may revert.
CONSTANTS
  Answers = {20, 21, 42}
  TellorValues = {2, 4}
  CHAINLINK_DIGITS = 1
  TELLOR_DIGITS = 0
  TARGET_DIGITS = 2
  DECIMAL_PRECISION = 100
  MAX_PRICE_DEVIATION_FROM_PREVIOUS_ROUND = 50
  MAX_PRICE_DIFFERENCE_BETWEEN_ORACLES = 5
  TIMEOUT = 1
SPECIFICATION Spec
PROPERTY FallsBackToTellor
