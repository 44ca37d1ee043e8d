------------------------------ MODULE BaseRate ------------------------------
(***************************************************************************)
(* The base rate of TroveManager.sol, from which the fees of borrowing and *)
(* redeeming follow: redemptions raise it, and it decays with every whole  *)
(* minute since the last operation that set lastFeeOperationTime.          *)
(***************************************************************************)
EXTENDS TroveDebt

CONSTANTS
  DECIMAL_PRECISION,
  SECONDS_IN_ONE_MINUTE,
  MINUTE_DECAY_FACTOR,
  BETA,
  BorrowingFeeFloor,
  MaxBorrowingFee,
  RedemptionFeeFloor,
  RecoveryFee

ASSUME BaseRateAssumption ==
  /\ DECIMAL_PRECISION \in Nat \ {0}
  /\ SECONDS_IN_ONE_MINUTE \in Nat \ {0}
  /\ MINUTE_DECAY_FACTOR \in 0..DECIMAL_PRECISION
  /\ BETA \in Nat \ {0}
  /\ {BorrowingFeeFloor, MaxBorrowingFee, RedemptionFeeFloor, RecoveryFee} \subseteq Nat

VARIABLES
  baseRate,
  lastFeeOperationTime,
  raised             \* history: the rate the last redemption set, and when

feeVars == <<baseRate, lastFeeOperationTime, raised>>

MinOf(a, b) == IF a < b THEN a ELSE b

DecMul(x, y) == (x * y + DECIMAL_PRECISION \div 2) \div DECIMAL_PRECISION

\* One round of _decPow's exponentiation by squaring, as long as n > 1.
Squared(s) ==
  IF s.n <= 1 THEN s
  ELSE [n |-> s.n \div 2, x |-> DecMul(s.x, s.x), y |-> IF s.n % 2 = 0 THEN s.y ELSE DecMul(s.x, s.y)]

\* _decPow; its cap of 1000 years is left out.
DecPow(base, minutes) ==
  LET loop[i \in 0..minutes] ==
        IF i = 0 THEN [n |-> minutes, x |-> base, y |-> DECIMAL_PRECISION] ELSE Squared(loop[i - 1])
  IN  IF minutes = 0 THEN DECIMAL_PRECISION ELSE DecMul(loop[minutes].x, loop[minutes].y)

TimePassed == now - lastFeeOperationTime

\* calcDecayedBaseRate
DecayedBaseRate ==
  (baseRate * DecPow(MINUTE_DECAY_FACTOR, TimePassed \div SECONDS_IN_ONE_MINUTE))
    \div DECIMAL_PRECISION

RedemptionRate(rate) == MinOf(RedemptionFeeFloor + rate, DECIMAL_PRECISION)
BorrowingRate(rate) == MinOf(BorrowingFeeFloor + rate, MaxBorrowingFee)
BorrowingFee(rate, amount) == (BorrowingRate(rate) * amount) \div DECIMAL_PRECISION

\* Mutant: every operation starts a new minute.
UpdateLastFeeOpTime_Always == lastFeeOperationTime' = now

UpdateLastFeeOpTime ==
  lastFeeOperationTime' =
    IF TimePassed >= SECONDS_IN_ONE_MINUTE THEN now ELSE lastFeeOperationTime

DecayBaseRateFromBorrowing ==
  /\ DecayedBaseRate \in 0..DECIMAL_PRECISION
  /\ baseRate' = DecayedBaseRate
  /\ UpdateLastFeeOpTime
  /\ UNCHANGED raised

\* _updateBaseRateFromRedemption and updateBaseRate: value was redeemed out
\* of the given supply.
UpdateBaseRateFromRedemption(value, supply) ==
  LET fraction == (value * DECIMAL_PRECISION) \div supply
      rate == MinOf(DecayedBaseRate + fraction \div BETA, DECIMAL_PRECISION)
  IN  /\ rate \in 1..DECIMAL_PRECISION
      /\ baseRate' = rate
      /\ raised' = [rate |-> rate, at |-> now]
      /\ UpdateLastFeeOpTime

InitFees ==
  /\ baseRate = 0
  /\ lastFeeOperationTime = 0
  /\ raised = [rate |-> 0, at |-> 0]
=============================================================================
