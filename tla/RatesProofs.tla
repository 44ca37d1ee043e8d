---------------------------- MODULE RatesProofs -----------------------------
(***************************************************************************)
(* What is proved of Rates.  Closing a trove always takes off its whole    *)
(* debt (ClearsExactly): the index is at least one in every reachable      *)
(* state, and from one on the rounding of RayDiv undoes that of RayMul.    *)
(* A call changes nothing of what the other owners owe (OthersOweTheSame): *)
(* the shares add up to their total, so that without a total nobody owes   *)
(* anything, and with one the index written is the factor every balance    *)
(* had before.  And the supply matches the debt (SupplyMatchesDebt): the   *)
(* gap between them moves by the rounding of one amount in each call.      *)
(* The base rate decays in step with the time (DecaysInStep): both it and  *)
(* the powers of _decPow are compared with a decay that is not rounded.    *)
(***************************************************************************)
EXTENDS Rates, Induction, TLAPS

-----------------------------------------------------------------------------
(* Arithmetic.                                                             *)

LEMMA NatProduct == ASSUME NEW a \in Nat, NEW b \in Nat PROVE a * b \in Nat
  BY Z3

LEMMA ProductBounds ==
  ASSUME NEW a \in Nat, NEW b \in Nat, NEW c \in Nat, b <= c
  PROVE  a * b <= a * c
  BY Z3

\* The quotient is the only number the remainder is right for.
LEMMA Quotient ==
  ASSUME NEW n \in Int, NEW d \in Nat \ {0}, NEW q \in Int,
         q * d <= n, n < q * d + d
  PROVE  n \div d = q
  <1>1. /\ (n \div d) \in Int
        /\ d * (n \div d) <= n
        /\ n < d * (n \div d) + d
    BY Z3
  <1>2. CASE n \div d <= q - 1
    <2>1. d * (n \div d) <= d * (q - 1) BY <1>1, <1>2, Z3
    <2> QED BY <1>1, <2>1, Z3
  <1>3. CASE n \div d >= q + 1
    <2>1. d * (n \div d) >= d * (q + 1) BY <1>1, <1>3, Z3
    <2> QED BY <1>1, <2>1, Z3
  <1> QED BY <1>1, <1>2, <1>3

LEMMA QuotientBounds ==
  ASSUME NEW n \in Int, NEW d \in Nat \ {0}
  PROVE  /\ n \div d \in Int
         /\ (n \div d) * d <= n
         /\ n < (n \div d) * d + d
  BY Z3

LEMMA QuotientNat ==
  ASSUME NEW n \in Nat, NEW d \in Nat \ {0}
  PROVE  n \div d \in Nat
  BY Z3

-----------------------------------------------------------------------------
(* RayMul and RayDiv.                                                      *)

LEMMA Half == RAY \in Nat \ {0} /\ RAY \div 2 \in Nat /\ RAY = 2 * (RAY \div 2)
  BY TroveDebtAssumption, Z3

LEMMA RayMulType == ASSUME NEW a \in Nat, NEW b \in Nat PROVE RayMul(a, b) \in Nat
  <1>1. a * b + RAY \div 2 \in Nat BY NatProduct, Half
  <1> QED BY <1>1, QuotientNat, Half DEF RayMul

\* Multiplying by one or more makes no number smaller.
LEMMA RayMulGrows ==
  ASSUME NEW a \in Nat, NEW b \in Nat, a >= RAY
  PROVE  RayMul(a, b) >= b
  <1> DEFINE n == a * b + RAY \div 2
             q == n \div RAY
  <1>1. a * b >= RAY * b BY ProductBounds, Half, Z3
  <1>2. n \in Nat BY NatProduct, Half
  <1>3. q \in Int /\ n < q * RAY + RAY BY <1>2, QuotientBounds, Half
  <1>4. CASE q <= b - 1
    <2>1. q * RAY <= (b - 1) * RAY BY <1>3, <1>4, Half, Z3
    <2>2. (b - 1) * RAY = RAY * b - RAY BY Half, Z3
    <2> HIDE DEF q, n
    <2>3. n < RAY * b BY <2>1, <2>2, <1>3, <1>2, Half, NatProduct, Z3
    <2> QED BY <2>3, <1>1, <1>2, NatProduct, Half DEF n
  <1> QED BY <1>3, <1>4 DEF RayMul

\* From one on, RayDiv undoes what RayMul rounded.
LEMMA RoundTrip ==
  ASSUME NEW s \in Nat, NEW i \in Nat, i >= RAY
  PROVE  RayDiv(RayMul(s, i), i) = s
  <1> DEFINE h == RAY \div 2
             m == RayMul(s, i)
             k == i \div 2
  <1>1. /\ h \in Nat /\ RAY = 2 * h /\ h > 0
        /\ k \in Nat /\ 2 * k <= i /\ i < 2 * k + 2 /\ h <= k
    BY Half, Z3
  <1>2. s * i \in Nat /\ m \in Nat BY NatProduct, RayMulType
  <1>3. m * RAY <= s * i + h /\ s * i + h < m * RAY + RAY
    BY <1>1, <1>2, QuotientBounds, Half DEF RayMul
  <1>4. m * RAY \in Nat BY <1>2, NatProduct, Half
  <1> HIDE DEF h, m, k
  <1>5. /\ s * i <= m * RAY + k
        /\ m * RAY + k < s * i + i
    <2>1. s * i < m * RAY + h BY <1>1, <1>2, <1>3, <1>4
    <2>2. CASE i = RAY
      <3>1. k = h BY <2>2 DEF k, h
      <3> QED BY <3>1, <2>1, <2>2, <1>1, <1>2, <1>3, <1>4
    <2>3. CASE i # RAY
      <3>1. i > 2 * h BY <2>3, <1>1
      <3>2. h + k < i BY <3>1, <1>1
      <3> QED BY <3>2, <2>1, <1>1, <1>2, <1>3, <1>4
    <2> QED BY <2>2, <2>3
  <1>6. (m * RAY + k) \div i = s
    BY <1>5, <1>1, <1>2, <1>4, Quotient, Half
  <1> QED BY <1>6 DEF RayDiv, m, k

LEMMA RayDivType ==
  ASSUME NEW a \in Int, NEW i \in Nat \ {0}
  PROVE  RayDiv(a, i) \in Int
  <1>1. a * RAY + i \div 2 \in Int BY Half, QuotientNat, Z3
  <1> QED BY <1>1, QuotientBounds DEF RayDiv

LEMMA CompoundedGrows ==
  ASSUME NEW rate \in Nat, NEW elapsed \in Nat
  PROVE  CompoundedInterest(rate, elapsed) \in Nat /\ CompoundedInterest(rate, elapsed) >= RAY
  <1> DEFINE perSecond == rate \div SECONDS_PER_YEAR
             squared == RayMul(perSecond, perSecond)
             cubed == RayMul(squared, perSecond)
             pairs == elapsed * (elapsed - 1)
             triples == IF elapsed > 2 THEN pairs * (elapsed - 2) ELSE 0
  <1>1. perSecond \in Nat BY QuotientNat, TroveDebtAssumption
  <1>2. squared \in Nat /\ cubed \in Nat BY <1>1, RayMulType
  <1>3. pairs \in Nat
    <2>1. CASE elapsed = 0 BY <2>1, Z3
    <2>2. CASE elapsed - 1 \in Nat BY <2>2, NatProduct
    <2> QED BY <2>1, <2>2
  <1>4. triples \in Nat
    <2>1. CASE elapsed > 2 BY <2>1, <1>3, NatProduct, elapsed - 2 \in Nat
    <2> QED BY <2>1
  <1> HIDE DEF perSecond, squared, cubed, pairs, triples
  <1>5. /\ perSecond * elapsed \in Nat
        /\ (pairs * squared) \div 2 \in Nat
        /\ (triples * cubed) \div 6 \in Nat
    BY <1>1, <1>2, <1>3, <1>4, NatProduct, QuotientNat
  <1> QED BY <1>5, Half DEF CompoundedInterest, perSecond, squared, cubed, pairs, triples

-----------------------------------------------------------------------------
(* The index and the balances.                                             *)

LEMMA IndexGrows ==
  ASSUME DebtTypeOK
  PROVE  /\ NormalizedDebt \in Nat /\ NormalizedDebt >= borrowIndex
         /\ NewIndex \in Nat /\ NewIndex >= borrowIndex
  <1>1. currentBorrowRate \in Nat /\ Elapsed \in Nat
    BY TroveDebtAssumption DEF DebtTypeOK, Elapsed
  <1>2. /\ CompoundedInterest(currentBorrowRate, Elapsed) \in Nat
        /\ CompoundedInterest(currentBorrowRate, Elapsed) >= RAY
    BY <1>1, CompoundedGrows
  <1>3. borrowIndex \in Nat BY DEF DebtTypeOK
  <1>4. NormalizedDebt \in Nat /\ NormalizedDebt >= borrowIndex
    <2> HIDE DEF CompoundedInterest
    <2> QED BY <1>2, <1>3, RayMulType, RayMulGrows DEF NormalizedDebt
  <1> QED BY <1>3, <1>4 DEF NewIndex

LEMMA BalanceType ==
  ASSUME DebtTypeOK, NEW o \in Owners
  PROVE  BalanceOf(o) \in Nat
  BY IndexGrows, RayMulType DEF BalanceOf, DebtTypeOK

LEMMA InterestType == ASSUME DebtTypeOK PROVE InterestMinted \in Int
  <1>1. ASSUME NEW a \in Int, NEW b \in Nat PROVE RayMul(a, b) \in Int
    <2>1. a * b + RAY \div 2 \in Int BY Half, Z3
    <2> QED BY <2>1, QuotientBounds, Half DEF RayMul
  <1> QED BY <1>1, IndexGrows DEF InterestMinted, DebtTypeOK

\* What every call that changes a debt keeps.
LEMMA DebtStep ==
  ASSUME DebtTypeOK, NEW o \in Owners, NEW amount \in Int,
         IncreaseTroveDebt(o, amount) \/ DecreaseTroveDebt(o, amount),
         UNCHANGED now
  PROVE  DebtTypeOK'
  <1> DEFINE scaled == RayDiv(amount, NewIndex)
  <1>1. NewIndex \in Nat /\ NewIndex >= RAY /\ NewIndex # 0
    BY IndexGrows, Half DEF DebtTypeOK
  <1>2. scaled \in Int BY <1>1, RayDivType
  <1>3. UpdateState /\ UpdateInterestRates /\ scaled > 0
    BY DEF IncreaseTroveDebt, DecreaseTroveDebt, AddDebt, SubDebt
  <1>4. /\ borrowIndex' \in Nat /\ borrowIndex' >= RAY
        /\ lastUpdateTimestamp' \in 0..now'
        /\ currentBorrowRate' \in BorrowRates \cup {0}
    BY <1>1, <1>3 DEF UpdateState, UpdateInterestRates, DebtTypeOK
  <1>5. scaledBalance' \in [Owners -> Nat] /\ scaledTotalSupply' \in Int
    <2> HIDE DEF scaled
    <2>1. CASE AddDebt(o, amount)
      BY <2>1, <1>2, <1>3 DEF AddDebt, DebtTypeOK, scaled
    <2>2. CASE SubDebt(o, amount)
      <3>1. scaledBalance[o] - scaled \in Nat
        BY <2>2, <1>2 DEF SubDebt, DebtTypeOK, scaled
      <3>2. scaledBalance' = [scaledBalance EXCEPT ![o] = @ - scaled]
        BY <2>2 DEF SubDebt, scaled
      <3>3. scaledTotalSupply' = scaledTotalSupply - scaled
        BY <2>2 DEF SubDebt, scaled
      <3> QED BY <3>1, <3>2, <3>3, <1>2 DEF DebtTypeOK
    <2> QED BY <2>1, <2>2 DEF IncreaseTroveDebt, DecreaseTroveDebt
  <1> QED BY <1>4, <1>5 DEF DebtTypeOK

LEMMA SettleStep ==
  ASSUME TypeOK, NEW minted \in Int, NEW burned \in Int, Settle(minted, burned)
  PROVE  supply' \in Int /\ calls' \in 0..MaxCalls /\ now' = now
  BY InterestType, RatesAssumption DEF Settle, TypeOK

LEMMA FeeType ==
  ASSUME NEW rate \in Nat, NEW amount \in Nat
  PROVE  BorrowingFee(rate, amount) \in Nat /\ (rate * amount) \div DECIMAL_PRECISION \in Nat
  <1>1. BorrowingRate(rate) \in Nat BY BaseRateAssumption DEF BorrowingRate, MinOf
  <1> QED BY <1>1, NatProduct, QuotientNat, BaseRateAssumption DEF BorrowingFee

LEMMA FeeTimeStep ==
  ASSUME TypeOK, UpdateLastFeeOpTime, UNCHANGED now
  PROVE  lastFeeOperationTime' \in 0..now'
  BY DEF TypeOK, DebtTypeOK, UpdateLastFeeOpTime

LEMMA BorrowStep ==
  ASSUME TypeOK, NEW o \in Owners, NEW amount \in Loans, NEW fee \in Nat, Borrow(o, amount, fee)
  PROVE  /\ DebtTypeOK' /\ now' = now
         /\ supply' \in Int /\ calls' \in 0..MaxCalls /\ defaultDebt' \in Nat
  <1>1. amount + fee \in Int BY RatesAssumption
  <1>2. supply' \in Int /\ calls' \in 0..MaxCalls /\ now' = now
    BY <1>1, SettleStep DEF Borrow
  <1>3. DebtTypeOK' BY <1>1, <1>2, DebtStep DEF Borrow, TypeOK
  <1> QED BY <1>2, <1>3 DEF Borrow, TypeOK

-----------------------------------------------------------------------------
LEMMA TypeInit == Init => TypeOK
  <1> SUFFICES ASSUME Init PROVE TypeOK
    OBVIOUS
  <1>1. DebtTypeOK BY Half DEF Init, InitDebt, DebtTypeOK
  <1>2. raised = [rate |-> 0, at |-> 0] BY DEF Init, InitFees
  <1> QED BY <1>1, <1>2, BaseRateAssumption, RatesAssumption DEF Init, InitFees, TypeOK

LEMMA TypeStep == TypeOK /\ [Next]_vars => TypeOK'
  <1> SUFFICES ASSUME TypeOK, [Next]_vars PROVE TypeOK'
    OBVIOUS
  <1> USE DEF TypeOK
  <1>1. ASSUME NEW o \in Owners, NEW amount \in Loans, BorrowInNormalMode(o, amount)
        PROVE  TypeOK'
    <2>1. DecayedBaseRate \in 0..DECIMAL_PRECISION /\ baseRate' = DecayedBaseRate
      BY <1>1 DEF BorrowInNormalMode, DecayBaseRateFromBorrowing
    <2>2. BorrowingFee(DecayedBaseRate, amount) \in Nat
      <3>1. DecayedBaseRate \in Nat BY <2>1, BaseRateAssumption
      <3>2. amount \in Nat BY RatesAssumption
      <3> HIDE DEF DecayedBaseRate
      <3> QED BY <3>1, <3>2, FeeType
    <2>3. /\ DebtTypeOK' /\ now' = now
          /\ supply' \in Int /\ calls' \in 0..MaxCalls /\ defaultDebt' \in Nat
      BY <1>1, <2>2, BorrowStep DEF BorrowInNormalMode
    <2>4. lastFeeOperationTime' \in 0..now' /\ raised' = raised
      BY <1>1, <2>3, FeeTimeStep DEF BorrowInNormalMode, DecayBaseRateFromBorrowing
    <2> QED BY <2>1, <2>3, <2>4
  <1>2. ASSUME NEW o \in Owners, NEW amount \in Loans, BorrowInRecoveryMode(o, amount)
        PROVE  TypeOK'
    <2>1. (RecoveryFee * amount) \div DECIMAL_PRECISION \in Nat
      BY FeeType, BaseRateAssumption, RatesAssumption
    <2>2. /\ DebtTypeOK' /\ now' = now
          /\ supply' \in Int /\ calls' \in 0..MaxCalls /\ defaultDebt' \in Nat
      BY <1>2, <2>1, BorrowStep DEF BorrowInRecoveryMode
    <2> QED BY <1>2, <2>2 DEF BorrowInRecoveryMode, feeVars
  <1>3. ASSUME NEW o \in Owners, NEW amount \in Repayments, Repay(o, amount)
        PROVE  TypeOK'
    <2>1. supply' \in Int /\ calls' \in 0..MaxCalls /\ now' = now
      BY <1>3, SettleStep, RatesAssumption DEF Repay
    <2>2. DebtTypeOK' BY <1>3, <2>1, DebtStep, RatesAssumption DEF Repay
    <2> QED BY <1>3, <2>1, <2>2 DEF Repay, feeVars
  <1>4. ASSUME NEW o \in Owners, NEW amount \in Repayments, Redeem(o, amount)
        PROVE  TypeOK'
    <2> DEFINE lot == MinOf(amount, BalanceOf(o))
    <2>1. lot \in Nat /\ BalanceOf(o) \in Nat BY BalanceType, RatesAssumption DEF MinOf
    <2>2. supply' \in Int /\ calls' \in 0..MaxCalls /\ now' = now
      BY <1>4, <2>1, SettleStep DEF Redeem
    <2>3. DecreaseTroveDebt(o, BalanceOf(o)) \/ DecreaseTroveDebt(o, lot)
      BY <1>4 DEF Redeem, CloseDebt
    <2>4. DebtTypeOK' BY <2>1, <2>2, <2>3, DebtStep
    <2>5. /\ baseRate' \in 1..DECIMAL_PRECISION
          /\ raised' = [rate |-> baseRate', at |-> now]
          /\ UpdateLastFeeOpTime
      BY <1>4 DEF Redeem, UpdateBaseRateFromRedemption
    <2>6. lastFeeOperationTime' \in 0..now' BY <2>2, <2>5, FeeTimeStep
    <2>7. now \in Nat /\ defaultDebt' = defaultDebt BY <1>4 DEF Redeem, DebtTypeOK
    <2> QED BY <2>2, <2>4, <2>5, <2>6, <2>7, BaseRateAssumption
  <1>5. ASSUME NEW o \in Owners, CloseTrove(o)
        PROVE  TypeOK'
    <2>1. BalanceOf(o) \in Nat BY BalanceType
    <2>2. supply' \in Int /\ calls' \in 0..MaxCalls /\ now' = now
      BY <1>5, <2>1, SettleStep DEF CloseTrove
    <2>3. DebtTypeOK' BY <1>5, <2>1, <2>2, DebtStep DEF CloseTrove, CloseDebt
    <2> QED BY <1>5, <2>2, <2>3 DEF CloseTrove, feeVars
  <1>6. ASSUME NEW o \in Owners, Liquidate(o)
        PROVE  TypeOK'
    <2>1. BalanceOf(o) \in Nat BY BalanceType
    <2>2. supply' \in Int /\ calls' \in 0..MaxCalls /\ now' = now
      BY <1>6, SettleStep, RatesAssumption DEF Liquidate
    <2>3. DebtTypeOK' BY <1>6, <2>1, <2>2, DebtStep DEF Liquidate, CloseDebt
    <2>4. defaultDebt' \in Nat BY <1>6, <2>1, RatesAssumption DEF Liquidate
    <2> QED BY <1>6, <2>2, <2>3, <2>4 DEF Liquidate, feeVars
  <1>7. ASSUME NEW o \in Owners, ApplyPendingRewards(o)
        PROVE  TypeOK'
    <2>1. supply' \in Int /\ calls' \in 0..MaxCalls /\ now' = now
      BY <1>7, SettleStep DEF ApplyPendingRewards
    <2>2. DebtTypeOK' BY <1>7, <2>1, DebtStep DEF ApplyPendingRewards
    <2> QED BY <1>7, <2>1, <2>2 DEF ApplyPendingRewards, feeVars
  <1>8. CASE Tick BY <1>8 DEF Tick, DebtTypeOK, debtVars, feeVars
  <1>9. CASE UNCHANGED vars BY <1>9 DEF vars, DebtTypeOK, debtVars, feeVars
  <1> QED BY <1>1, <1>2, <1>3, <1>4, <1>5, <1>6, <1>7, <1>8, <1>9 DEF Next

\* The index never falls below one, whatever the borrow rates, the lengths of
\* time and the roundings are, and the types are kept.
THEOREM TypesAlwaysKept == Spec => []TypeOK
  <1>1. Init => TypeOK BY TypeInit
  <1>2. TypeOK /\ [Next]_vars => TypeOK' BY TypeStep
  <1> QED BY <1>1, <1>2, PTL DEF Spec

LEMMA ExactWhenTyped == TypeOK => ClearsExactly
  <1> SUFFICES ASSUME TypeOK, NEW o \in Owners
               PROVE  RayDiv(BalanceOf(o), NormalizedDebt) = scaledBalance[o]
    BY DEF ClearsExactly
  <1>1. NormalizedDebt \in Nat /\ NormalizedDebt >= RAY
    BY IndexGrows, Half DEF TypeOK, DebtTypeOK
  <1>2. scaledBalance[o] \in Nat BY DEF TypeOK, DebtTypeOK
  <1> QED BY <1>1, <1>2, RoundTrip DEF BalanceOf

\* _closeTrove takes off what balanceOf rounded, and yet exactly all: for
\* every index and every balance that can be reached.
THEOREM DebtsClearExactly == Spec => []ClearsExactly
  <1>1. TypeOK => ClearsExactly BY ExactWhenTyped
  <1> QED BY <1>1, TypesAlwaysKept, PTL

-----------------------------------------------------------------------------
(* The total of the shares.                                                *)

\* _totalSupply is the sum of _balances.
SharesAddUp == scaledTotalSupply = SumFunctionOnSet(scaledBalance, Owners)

\* A call that changes a debt brings the index up to the present.
Called ==
  /\ UpdateState /\ now' = now /\ currentBorrowRate' \in BorrowRates
  /\ \E o \in Owners, s \in Int :
       /\ scaledBalance' = [scaledBalance EXCEPT ![o] = @ + s]
       /\ scaledTotalSupply' = scaledTotalSupply + s

LEMMA DebtCalled ==
  ASSUME TypeOK, NEW o \in Owners, NEW amount \in Int,
         IncreaseTroveDebt(o, amount) \/ DecreaseTroveDebt(o, amount), now' = now
  PROVE  Called
  <1> DEFINE s == RayDiv(amount, NewIndex)
  <1>1. s \in Int
    BY IndexGrows, RayDivType, Half DEF TypeOK, DebtTypeOK
  <1>2. /\ scaledBalance \in [Owners -> Nat] /\ scaledTotalSupply \in Int
        /\ UpdateState /\ UpdateInterestRates
    BY DEF TypeOK, DebtTypeOK, IncreaseTroveDebt, DecreaseTroveDebt
  <1>3. CASE AddDebt(o, amount)
    BY <1>1, <1>2, <1>3 DEF AddDebt, Called, UpdateInterestRates
  <1>4. CASE SubDebt(o, amount)
    <2> DEFINE t == 0 - s
    <2>1. /\ scaledBalance' = [scaledBalance EXCEPT ![o] = @ - s]
          /\ scaledTotalSupply' = scaledTotalSupply - s
      BY <1>4 DEF SubDebt
    <2> HIDE DEF s
    <2>2. t \in Int /\ scaledBalance[o] - s = scaledBalance[o] + t
          /\ scaledTotalSupply - s = scaledTotalSupply + t
      BY <1>1, <1>2
    <2>3. /\ scaledBalance' = [scaledBalance EXCEPT ![o] = @ + t]
          /\ scaledTotalSupply' = scaledTotalSupply + t
      BY <1>2, <2>1, <2>2
    <2> HIDE DEF t
    <2> QED BY <1>2, <2>2, <2>3 DEF Called, UpdateInterestRates
  <1> QED BY <1>3, <1>4 DEF IncreaseTroveDebt, DecreaseTroveDebt

\* Every step is such a call, the passing of a second, or none.
LEMMA StepsAreCalls ==
  ASSUME TypeOK, [Next]_vars
  PROVE  Called \/ Tick \/ UNCHANGED vars
  <1>1. ASSUME NEW o \in Owners, NEW amount \in Loans, NEW fee \in Nat, Borrow(o, amount, fee)
        PROVE  Called
    BY <1>1, DebtCalled, RatesAssumption DEF Borrow, Settle
  <1>2. ASSUME NEW o \in Owners, NEW amount \in Loans, BorrowInNormalMode(o, amount)
        PROVE  Called
    <2> DEFINE fee == BorrowingFee(DecayedBaseRate, amount)
    <2>1. fee \in Nat
      <3>1. DecayedBaseRate \in Nat
        BY <1>2, BaseRateAssumption DEF BorrowInNormalMode, DecayBaseRateFromBorrowing
      <3>2. amount \in Nat
        BY RatesAssumption
      <3> HIDE DEF DecayedBaseRate
      <3> QED BY <3>1, <3>2, FeeType
    <2>2. Borrow(o, amount, fee)
      BY <1>2 DEF BorrowInNormalMode
    <2> HIDE DEF fee
    <2> QED BY <1>1, <2>1, <2>2
  <1>3. ASSUME NEW o \in Owners, NEW amount \in Loans, BorrowInRecoveryMode(o, amount)
        PROVE  Called
    <2>1. (RecoveryFee * amount) \div DECIMAL_PRECISION \in Nat
      BY FeeType, BaseRateAssumption, RatesAssumption
    <2> QED BY <1>1, <1>3, <2>1 DEF BorrowInRecoveryMode
  <1>4. ASSUME NEW o \in Owners, NEW amount \in Repayments, Repay(o, amount)
        PROVE  Called
    BY <1>4, DebtCalled, RatesAssumption DEF Repay, Settle
  <1>5. ASSUME NEW o \in Owners, CloseDebt(o), now' = now
        PROVE  Called
    <2>1. BalanceOf(o) \in Int
      BY BalanceType DEF TypeOK
    <2> QED BY <1>5, <2>1, DebtCalled DEF CloseDebt
  <1>6. ASSUME NEW o \in Owners, NEW amount \in Repayments, Redeem(o, amount)
        PROVE  Called
    <2> DEFINE lot == MinOf(amount, BalanceOf(o))
    <2>1. lot \in Int
      BY BalanceType, RatesAssumption DEF MinOf, TypeOK
    <2>2. /\ CloseDebt(o) \/ DecreaseTroveDebt(o, lot)
          /\ now' = now
      BY <1>6 DEF Redeem, Settle
    <2> HIDE DEF lot
    <2> QED BY <1>5, <2>1, <2>2, DebtCalled
  <1>7. ASSUME NEW o \in Owners, CloseTrove(o) \/ Liquidate(o)
        PROVE  Called
    BY <1>5, <1>7 DEF CloseTrove, Liquidate, Settle
  <1>8. ASSUME NEW o \in Owners, ApplyPendingRewards(o)
        PROVE  Called
    BY <1>8, DebtCalled DEF ApplyPendingRewards, Settle, TypeOK
  <1> QED BY <1>2, <1>3, <1>4, <1>6, <1>7, <1>8 DEF Next

\* Each call changes total and shares by the same.
LEMMA SharesStep == TypeOK /\ SharesAddUp /\ [Next]_vars => SharesAddUp'
  <1> SUFFICES ASSUME TypeOK, SharesAddUp, [Next]_vars PROVE SharesAddUp'
    OBVIOUS
  <1>1. TypeOK'
    BY TypeStep
  <1>2. CASE Called
    <2>1. PICK o \in Owners, s \in Int :
            /\ scaledBalance' = [scaledBalance EXCEPT ![o] = @ + s]
            /\ scaledTotalSupply' = scaledTotalSupply + s
      BY <1>2 DEF Called
    <2>2. PICK f, g : f = scaledBalance /\ g = scaledBalance'
      OBVIOUS
    <2>3. /\ f \in [Owners -> Nat] /\ g = [f EXCEPT ![o] = @ + s] /\ IsFiniteSet(Owners)
      BY <2>1, <2>2, TroveDebtAssumption DEF TypeOK, DebtTypeOK
    <2>4. \A y \in Owners : f[y] \in Int /\ g[y] \in Int
      <3> TAKE y \in Owners
      <3>1. g = scaledBalance' /\ scaledBalance' \in [Owners -> Nat]
        BY <1>1, <2>2 DEF TypeOK, DebtTypeOK
      <3> QED BY <2>3, <3>1
    <2>5. \A y \in Owners \ {o} : g[y] = f[y]
      BY <2>3
    <2>6. g[o] = f[o] + s
      BY <2>3
    <2>7. SumFunctionOnSet(g, Owners) = SumFunctionOnSet(f, Owners) - f[o] + g[o]
      <3>1. IsFiniteSet(Owners) /\ o \in Owners
        BY <2>3
      <3> QED BY <3>1, <2>4, <2>5, SumReplacedAt
    <2>8. SumFunctionOnSet(f, Owners) \in Int /\ f[o] \in Int /\ s \in Int
      <3>1. IsFiniteSet(Owners) /\ Owners \in SUBSET Owners
        BY <2>3
      <3> QED BY <3>1, <2>4, SumWithout
    <2>9. /\ scaledTotalSupply = SumFunctionOnSet(f, Owners)
          /\ scaledTotalSupply' = SumFunctionOnSet(f, Owners) + s
      BY <2>1, <2>2 DEF SharesAddUp
    <2> QED BY <2>2, <2>6, <2>7, <2>8, <2>9 DEF SharesAddUp
  <1>3. CASE UNCHANGED <<scaledBalance, scaledTotalSupply>>
    BY <1>3 DEF SharesAddUp
  <1> QED BY <1>2, <1>3, StepsAreCalls DEF Tick, vars, debtVars

LEMMA SharesInit == Init => SharesAddUp
  <1> SUFFICES ASSUME Init PROVE SharesAddUp
    OBVIOUS
  <1>1. \A o \in Owners : scaledBalance[o] = 0
    BY DEF Init, InitDebt
  <1> QED BY <1>1, SumOfZeros, TroveDebtAssumption DEF SharesAddUp, Init, InitDebt

-----------------------------------------------------------------------------
(* The index at the end of a call.                                         *)

\* No time, no interest.
LEMMA NoTimeNoInterest ==
  ASSUME NEW rate \in Nat, NEW i \in Nat
  PROVE  RayMul(CompoundedInterest(rate, 0), i) = i
  <1> DEFINE perSecond == rate \div SECONDS_PER_YEAR
             squared == RayMul(perSecond, perSecond)
             cubed == RayMul(squared, perSecond)
  <1>1. perSecond \in Nat
    BY QuotientNat, TroveDebtAssumption
  <1>2. squared \in Nat /\ cubed \in Nat
    BY <1>1, RayMulType
  <1> HIDE DEF perSecond, squared, cubed
  <1>3. /\ CompoundedInterest(rate, 0)
             = RAY + perSecond * 0 + ((0 * (0 - 1)) * squared) \div 2 + (0 * cubed) \div 6
    BY DEF CompoundedInterest, perSecond, squared, cubed
  <1>4. perSecond * 0 = 0 /\ 0 * (0 - 1) = 0 /\ 0 * squared = 0 /\ 0 * cubed = 0 /\ 0 \div 2 = 0 /\ 0 \div 6 = 0
    BY <1>1, <1>2, Z3
  <1>5. CompoundedInterest(rate, 0) = RAY
    BY <1>3, <1>4, Half
  <1>6. (RAY * i + RAY \div 2) \div RAY = i
    <2>1. RAY * i \in Nat /\ i * RAY = RAY * i
      BY Half, NatProduct, Z3
    <2>2. RAY * i + RAY \div 2 \in Int /\ i * RAY <= RAY * i + RAY \div 2
          /\ RAY * i + RAY \div 2 < i * RAY + RAY
      BY <2>1, Half
    <2> QED BY <2>2, Half, Quotient
  <1> QED BY <1>5, <1>6 DEF RayMul

\* After a call, the factor of every balance is the index just written.
LEMMA IndexAfterCall ==
  ASSUME TypeOK, TypeOK', Called
  PROVE  NormalizedDebt' = borrowIndex' /\ borrowIndex' = NewIndex
  <1>1. /\ now \in Nat /\ now' = now /\ lastUpdateTimestamp' = now /\ borrowIndex' = NewIndex
        /\ currentBorrowRate' \in Nat /\ borrowIndex' \in Nat
    BY TroveDebtAssumption DEF TypeOK, DebtTypeOK, Called, UpdateState
  <1>2. Elapsed' = 0
    BY <1>1 DEF Elapsed
  <1>3. NormalizedDebt' = RayMul(CompoundedInterest(currentBorrowRate', 0), borrowIndex')
    BY <1>2 DEF NormalizedDebt
  <1>4. RayMul(CompoundedInterest(currentBorrowRate', 0), borrowIndex') = borrowIndex'
    BY <1>1, NoTimeNoInterest
  <1> QED BY <1>1, <1>3, <1>4

\* Nothing owes nothing.
LEMMA NothingOwed == ASSUME NEW i \in Nat PROVE RayMul(0, i) = 0
  <1>1. 0 * i = 0
    BY Z3
  <1>2. RAY \div 2 \in Int /\ 0 * RAY <= RAY \div 2 /\ RAY \div 2 < 0 * RAY + RAY
    BY Half, Z3
  <1>3. (RAY \div 2) \div RAY = 0
    BY <1>2, Half, Quotient
  <1> QED BY <1>1, <1>3, Half DEF RayMul

-----------------------------------------------------------------------------
(* Time makes no debt smaller.                                             *)

LEMMA QuotientGrows ==
  ASSUME NEW m \in Int, NEW n \in Int, m <= n, NEW d \in Nat \ {0}
  PROVE  m \div d <= n \div d
  <1> DEFINE q == m \div d
             r == n \div d
  <1>1. q \in Int /\ r \in Int /\ q * d <= m /\ n < r * d + d
    BY QuotientBounds
  <1> HIDE DEF q, r
  <1>2. CASE q >= r + 1
    <2>1. q * d >= (r + 1) * d
      BY <1>1, <1>2, Z3
    <2>2. (r + 1) * d = r * d + d
      BY <1>1, Z3
    <2>3. q * d \in Int /\ r * d \in Int
      BY <1>1, Z3
    <2> QED BY <1>1, <2>1, <2>2, <2>3
  <1>3. CASE q <= r
    BY <1>3 DEF q, r
  <1> QED BY <1>1, <1>2, <1>3

LEMMA RayMulMonotone ==
  ASSUME NEW a \in Nat, NEW b \in Nat, NEW c \in Nat, b <= c
  PROVE  RayMul(a, b) <= RayMul(a, c) /\ RayMul(b, a) <= RayMul(c, a)
  <1>1. a * b \in Nat /\ a * c \in Nat /\ a * b <= a * c /\ b * a = a * b /\ c * a = a * c
    BY NatProduct, ProductBounds, Z3
  <1>2. /\ a * b + RAY \div 2 \in Int /\ a * c + RAY \div 2 \in Int
        /\ a * b + RAY \div 2 <= a * c + RAY \div 2
    BY <1>1, Half
  <1>3. (a * b + RAY \div 2) \div RAY <= (a * c + RAY \div 2) \div RAY
    BY <1>2, QuotientGrows, Half
  <1> QED BY <1>1, <1>3 DEF RayMul

\* One second more.
LEMMA InterestGrows ==
  ASSUME NEW rate \in Nat, NEW elapsed \in Nat
  PROVE  CompoundedInterest(rate, elapsed) <= CompoundedInterest(rate, elapsed + 1)
  <1> DEFINE perSecond == rate \div SECONDS_PER_YEAR
             squared == RayMul(perSecond, perSecond)
             cubed == RayMul(squared, perSecond)
             Pairs(e) == e * (e - 1)
             Triples(e) == IF e > 2 THEN Pairs(e) * (e - 2) ELSE 0
  <1>1. perSecond \in Nat
    BY QuotientNat, TroveDebtAssumption
  <1>2. squared \in Nat /\ cubed \in Nat
    BY <1>1, RayMulType
  <1>3. Pairs(elapsed) \in Nat /\ Pairs(elapsed + 1) \in Nat /\ Pairs(elapsed) <= Pairs(elapsed + 1)
    <2>1. Pairs(elapsed + 1) = elapsed * elapsed + elapsed
      BY Z3
    <2>2. Pairs(elapsed) = elapsed * elapsed - elapsed
      BY Z3
    <2>3. elapsed * elapsed \in Nat /\ elapsed * elapsed >= elapsed
      <3>1. CASE elapsed = 0
        BY <3>1, Z3
      <3>2. CASE elapsed >= 1
        BY <3>2, Z3
      <3> QED BY <3>1, <3>2
    <2> HIDE DEF Pairs
    <2> QED BY <2>1, <2>2, <2>3
  <1> HIDE DEF perSecond, squared, cubed, Pairs
  <1>4. Triples(elapsed) \in Nat /\ Triples(elapsed + 1) \in Nat /\ Triples(elapsed) <= Triples(elapsed + 1)
    <2>1. CASE elapsed > 2
      <3>1. elapsed - 2 \in Nat /\ elapsed - 1 \in Nat /\ elapsed + 1 > 2
        BY <2>1
      <3>2. /\ Triples(elapsed) = Pairs(elapsed) * (elapsed - 2)
            /\ Triples(elapsed + 1) = Pairs(elapsed + 1) * (elapsed - 1)
        <4>1. (elapsed + 1) - 2 = elapsed - 1
          OBVIOUS
        <4> QED BY <2>1, <3>1, <4>1
      <3>3. /\ Pairs(elapsed) * (elapsed - 2) \in Nat
            /\ Pairs(elapsed + 1) * (elapsed - 1) \in Nat
            /\ Pairs(elapsed) * (elapsed - 1) \in Nat
        BY <1>3, <3>1, NatProduct
      <3>4. Pairs(elapsed) * (elapsed - 2) <= Pairs(elapsed) * (elapsed - 1)
        <4>1. elapsed - 2 <= elapsed - 1
          OBVIOUS
        <4> QED BY <1>3, <3>1, <4>1, ProductBounds
      <3>5. Pairs(elapsed) * (elapsed - 1) <= Pairs(elapsed + 1) * (elapsed - 1)
        <4>1. /\ (elapsed - 1) * Pairs(elapsed) <= (elapsed - 1) * Pairs(elapsed + 1)
          BY <1>3, <3>1, ProductBounds
        <4>2. /\ (elapsed - 1) * Pairs(elapsed) = Pairs(elapsed) * (elapsed - 1)
              /\ (elapsed - 1) * Pairs(elapsed + 1) = Pairs(elapsed + 1) * (elapsed - 1)
          BY <1>3, <3>1, Z3
        <4> QED BY <4>1, <4>2
      <3> HIDE DEF Triples
      <3> QED BY <3>2, <3>3, <3>4, <3>5
    <2>2. CASE ~(elapsed > 2)
      <3>1. Triples(elapsed) = 0
        BY <2>2
      <3>2. Triples(elapsed + 1) \in Nat
        <4>1. CASE elapsed + 1 > 2
          <5>1. (elapsed + 1) - 2 \in Nat
            BY <4>1
          <5> QED BY <1>3, <4>1, <5>1, NatProduct
        <4>2. CASE ~(elapsed + 1 > 2)
          BY <4>2
        <4> QED BY <4>1, <4>2
      <3> HIDE DEF Triples
      <3> QED BY <3>1, <3>2
    <2> QED BY <2>1, <2>2
  <1> HIDE DEF Triples
  <1>5. /\ perSecond * elapsed \in Nat /\ perSecond * (elapsed + 1) \in Nat
        /\ perSecond * elapsed <= perSecond * (elapsed + 1)
    BY <1>1, NatProduct, ProductBounds
  <1>6. ASSUME NEW a \in Nat, NEW b \in Nat, a <= b, NEW c \in Nat, NEW d \in Nat \ {0}
        PROVE  /\ (a * c) \div d \in Nat /\ (b * c) \div d \in Nat
               /\ (a * c) \div d <= (b * c) \div d
    <2>1. a * c \in Nat /\ b * c \in Nat /\ a * c <= b * c
      <3>1. c * a <= c * b /\ c * a = a * c /\ c * b = b * c
        BY <1>6, ProductBounds, Z3
      <3> QED BY <3>1, NatProduct
    <2>2. a * c \in Int /\ b * c \in Int
      BY <2>1
    <2>3. (a * c) \div d \in Nat /\ (b * c) \div d \in Nat
      BY <2>1, QuotientNat
    <2>4. (a * c) \div d <= (b * c) \div d
      BY <2>1, <2>2, QuotientGrows
    <2> QED BY <2>3, <2>4
  <1>7. /\ (Pairs(elapsed) * squared) \div 2 \in Nat /\ (Pairs(elapsed + 1) * squared) \div 2 \in Nat
        /\ (Pairs(elapsed) * squared) \div 2 <= (Pairs(elapsed + 1) * squared) \div 2
    BY <1>2, <1>3, <1>6
  <1>8. /\ (Triples(elapsed) * cubed) \div 6 \in Nat /\ (Triples(elapsed + 1) * cubed) \div 6 \in Nat
        /\ (Triples(elapsed) * cubed) \div 6 <= (Triples(elapsed + 1) * cubed) \div 6
    BY <1>2, <1>4, <1>6
  <1>9. \A e \in Nat : CompoundedInterest(rate, e) =
          RAY + perSecond * e + (Pairs(e) * squared) \div 2 + (Triples(e) * cubed) \div 6
    BY DEF CompoundedInterest, perSecond, squared, cubed, Pairs, Triples
  <1>10. /\ CompoundedInterest(rate, elapsed) =
              RAY + perSecond * elapsed + (Pairs(elapsed) * squared) \div 2 + (Triples(elapsed) * cubed) \div 6
         /\ CompoundedInterest(rate, elapsed + 1) =
              RAY + perSecond * (elapsed + 1) + (Pairs(elapsed + 1) * squared) \div 2
                  + (Triples(elapsed + 1) * cubed) \div 6
    BY <1>9
  <1> QED BY <1>5, <1>7, <1>8, <1>10, Half

LEMMA TickGrows ==
  ASSUME TypeOK, TypeOK', Tick, NEW o \in Owners
  PROVE  BalanceOf(o)' >= BalanceOf(o)
  <1>1. /\ currentBorrowRate' = currentBorrowRate /\ borrowIndex' = borrowIndex
        /\ scaledBalance' = scaledBalance /\ Elapsed \in Nat /\ Elapsed' = Elapsed + 1
        /\ currentBorrowRate \in Nat /\ borrowIndex \in Nat /\ scaledBalance[o] \in Nat
    BY TroveDebtAssumption DEF Tick, debtVars, Elapsed, TypeOK, DebtTypeOK
  <1> DEFINE before == CompoundedInterest(currentBorrowRate, Elapsed)
             after == CompoundedInterest(currentBorrowRate, Elapsed + 1)
  <1>2. before \in Nat /\ after \in Nat /\ before <= after
    <2>1. Elapsed + 1 \in Nat
      BY <1>1
    <2> HIDE DEF Elapsed
    <2> QED BY <1>1, <2>1, CompoundedGrows, InterestGrows
  <1>3. NormalizedDebt = RayMul(before, borrowIndex) /\ NormalizedDebt' = RayMul(after, borrowIndex)
    BY <1>1 DEF NormalizedDebt
  <1> HIDE DEF before, after
  <1>4. NormalizedDebt \in Nat /\ NormalizedDebt' \in Nat /\ NormalizedDebt <= NormalizedDebt'
    BY <1>1, <1>2, <1>3, RayMulType, RayMulMonotone
  <1>5. /\ BalanceOf(o) = RayMul(scaledBalance[o], NormalizedDebt)
        /\ BalanceOf(o)' = RayMul(scaledBalance[o], NormalizedDebt')
    BY <1>1 DEF BalanceOf
  <1>6. PICK n, m : n = NormalizedDebt /\ m = NormalizedDebt'
    OBVIOUS
  <1>7. RayMul(scaledBalance[o], n) <= RayMul(scaledBalance[o], m)
    BY <1>1, <1>4, <1>6, RayMulMonotone
  <1>8. RayMul(scaledBalance[o], n) \in Nat /\ RayMul(scaledBalance[o], m) \in Nat
    BY <1>1, <1>4, <1>6, RayMulType
  <1> QED BY <1>5, <1>6, <1>7, <1>8

\* The call of one owner leaves what the others owe: if there is any debt, the
\* index written is the factor their balances had before it.
LEMMA CallSpares ==
  ASSUME TypeOK, TypeOK', SharesAddUp, Called, NEW o \in Owners, scaledBalance'[o] = scaledBalance[o]
  PROVE  BalanceOf(o)' = BalanceOf(o)
  <1>1. /\ BalanceOf(o)' = RayMul(scaledBalance[o], NewIndex)
        /\ BalanceOf(o) = RayMul(scaledBalance[o], NormalizedDebt)
    BY IndexAfterCall DEF BalanceOf
  <1>2. CASE scaledTotalSupply # 0
    BY <1>1, <1>2 DEF NewIndex
  <1>3. CASE scaledTotalSupply = 0
    <2>1. IsFiniteSet(Owners) /\ \A x \in Owners : scaledBalance[x] \in Nat
      BY TroveDebtAssumption DEF TypeOK, DebtTypeOK
    <2>2. scaledBalance[o] <= SumFunctionOnSet(scaledBalance, Owners)
      BY <2>1, SumHolds
    <2>3. scaledBalance[o] = 0
      BY <1>3, <2>1, <2>2 DEF SharesAddUp
    <2>4. NewIndex \in Nat /\ NormalizedDebt \in Nat
      BY IndexGrows DEF TypeOK
    <2> QED BY <1>1, <2>3, <2>4, NothingOwed
  <1> QED BY <1>2, <1>3

LEMMA Bystanders ==
  ASSUME TypeOK, SharesAddUp, [Next]_vars
  PROVE  [\A o \in Owners :
            scaledBalance'[o] = scaledBalance[o] =>
              IF now' = now THEN BalanceOf(o)' = BalanceOf(o) ELSE BalanceOf(o)' >= BalanceOf(o)]_vars
  <1>1. TypeOK'
    BY TypeStep
  <1>2. CASE Called
    <2>1. now' = now
      BY <1>2 DEF Called
    <2> QED BY <1>1, <1>2, <2>1, CallSpares
  <1>3. CASE Tick
    <2>1. now' # now
      BY <1>3 DEF Tick, TypeOK, DebtTypeOK
    <2> QED BY <1>1, <1>3, <2>1, TickGrows
  <1> QED BY <1>2, <1>3, StepsAreCalls

\* For any owners, rates and unit: no call of borrowing, repaying, closing,
\* redeeming or liquidating changes what balanceOf says of another owner, and
\* the passing of time makes no debt smaller.
THEOREM OthersAlwaysOweTheSame == Spec => OthersOweTheSame
  <1>1. Init => TypeOK /\ SharesAddUp
    BY TypeInit, SharesInit
  <1>2. TypeOK /\ SharesAddUp /\ [Next]_vars => TypeOK' /\ SharesAddUp'
    BY TypeStep, SharesStep
  <1>3. TypeOK /\ SharesAddUp /\ [Next]_vars =>
          [\A o \in Owners :
              scaledBalance'[o] = scaledBalance[o] =>
                IF now' = now THEN BalanceOf(o)' = BalanceOf(o) ELSE BalanceOf(o)' >= BalanceOf(o)]_vars
    BY Bystanders
  <1> QED BY <1>1, <1>2, <1>3, PTL DEF Spec, OthersOweTheSame

-----------------------------------------------------------------------------
(* The supply and the debt.                                                *)

\* The debt at the time of the last call, over the supply: unlike the debt of the
\* present it does not move between the calls.
Gap == RayMul(scaledTotalSupply, borrowIndex) + defaultDebt - supply
Rounding == (1 + borrowIndex \div RAY) * calls
Balanced == Gap \in -Rounding..Rounding

LEMMA RayMulInt == ASSUME NEW t \in Int, NEW i \in Nat PROVE t * i \in Int /\ RayMul(t, i) \in Int
  <1>1. t * i \in Int /\ t * i + RAY \div 2 \in Int
    BY Half, Z3
  <1> QED BY <1>1, QuotientBounds, Half DEF RayMul

\* An amount turned into shares and back is off by no more than one and the
\* index: RayDiv by half an index, RayMul by half a unit twice.
LEMMA ShareError ==
  ASSUME NEW t \in Int, NEW a \in Int, NEW i \in Nat, i >= RAY
  PROVE  /\ RayDiv(a, i) \in Int
         /\ RayMul(t + RayDiv(a, i), i) - RayMul(t, i) - a \in (-(1 + i \div RAY))..(1 + i \div RAY)
  <1> DEFINE s == RayDiv(a, i)
             x == RayMul(t + s, i)
             y == RayMul(t, i)
             h == RAY \div 2
             half == i \div 2
             k == i \div RAY
  <1>1. /\ h \in Nat /\ RAY \in Nat \ {0} /\ i \in Nat \ {0}
        /\ half \in Nat /\ 2 * half <= i /\ i < 2 * half + 2
    BY Half, Z3
  <1>2. s \in Int
    BY <1>1, RayDivType
  <1>3. a * RAY \in Int /\ a * RAY + half \in Int
    BY <1>1, Z3
  <1>4. s * i <= a * RAY + half /\ a * RAY + half < s * i + i
    BY <1>1, <1>3, QuotientBounds DEF RayDiv
  <1>5. k \in Nat /\ k * RAY <= i /\ i < k * RAY + RAY
    BY <1>1, QuotientBounds, QuotientNat
  <1> HIDE DEF s
  <1>6. t + s \in Int
    BY <1>2
  <1>7. /\ x \in Int /\ x * RAY <= (t + s) * i + h /\ (t + s) * i + h < x * RAY + RAY
    <2>1. (t + s) * i + h \in Int
      BY <1>1, <1>6, RayMulInt
    <2> QED BY <1>1, <2>1, QuotientBounds DEF RayMul
  <1>8. /\ y \in Int /\ y * RAY <= t * i + h /\ t * i + h < y * RAY + RAY
    <2>1. t * i + h \in Int
      BY <1>1, RayMulInt
    <2> QED BY <1>1, <2>1, QuotientBounds DEF RayMul
  <1>9. (t + s) * i = t * i + s * i /\ t * i \in Int /\ s * i \in Int
    BY <1>1, <1>2, Z3
  <1> HIDE DEF x, y, h, half, k
  <1> DEFINE e == x - y - a
  <1>10. e \in Int /\ e * RAY = x * RAY - y * RAY - a * RAY
         /\ x * RAY \in Int /\ y * RAY \in Int /\ k * RAY \in Int /\ e * RAY \in Int
    BY <1>1, <1>5, <1>7, <1>8, Z3
  <1> HIDE DEF e
  <1>11. e * RAY < half + RAY /\ e * RAY > half - i - RAY
    BY <1>1, <1>3, <1>4, <1>7, <1>8, <1>9, <1>10
  <1>12. e <= 1 + k
    <2>1. CASE e >= k + 2
      <3>1. e * RAY >= (k + 2) * RAY /\ (k + 2) * RAY = k * RAY + 2 * RAY
        BY <1>1, <1>5, <1>10, <2>1, Z3
      <3> QED BY <1>1, <1>5, <1>10, <1>11, <3>1
    <2> QED BY <1>5, <1>10, <2>1
  <1>13. e >= -(1 + k)
    <2>1. CASE e <= -(k + 2)
      <3>1. e * RAY <= (-(k + 2)) * RAY /\ (-(k + 2)) * RAY = -(k * RAY) - 2 * RAY
        BY <1>1, <1>5, <1>10, <2>1, Z3
      <3> QED BY <1>1, <1>5, <1>10, <1>11, <3>1
    <2> QED BY <1>5, <1>10, <2>1
  <1> QED BY <1>2, <1>5, <1>10, <1>12, <1>13 DEF e, x, y, s, k

\* What a call does to supply and shares, for the amount a by which it raises or
\* lowers the debt of a trove.
Adds(a) == /\ scaledTotalSupply' = scaledTotalSupply + RayDiv(a, NewIndex)
           /\ supply' = supply + InterestMinted + a + (defaultDebt' - defaultDebt)
Takes(a) == /\ scaledTotalSupply' = scaledTotalSupply - RayDiv(a, NewIndex)
            /\ supply' = supply + InterestMinted - a + (defaultDebt' - defaultDebt)
Accounted == /\ borrowIndex' = NewIndex /\ calls' = calls + 1
             /\ \E a \in Int : Adds(a) \/ Takes(a)

LEMMA Regrouped ==
  ASSUME NEW x \in Int, NEW m \in Int, NEW b \in Int, NEW y \in Int, m - b = y
  PROVE  x + m - b = x + y
  OBVIOUS

LEMMA AddsAccounted ==
  ASSUME TypeOK, NEW o \in Owners, NEW a \in Int, NEW minted \in Int, NEW burned \in Int,
         IncreaseTroveDebt(o, a), Settle(minted, burned), defaultDebt' \in Nat,
         minted - burned = a + (defaultDebt' - defaultDebt)
  PROVE  Accounted
  <1>1. InterestMinted \in Int /\ supply \in Int /\ defaultDebt \in Nat
    BY InterestType DEF TypeOK
  <1>2. supply' = supply + InterestMinted + minted - burned /\ calls' = calls + 1
    BY DEF Settle
  <1>3. /\ scaledTotalSupply' = scaledTotalSupply + RayDiv(a, NewIndex) /\ borrowIndex' = NewIndex
    BY DEF IncreaseTroveDebt, AddDebt, UpdateState
  <1>4. supply' = supply + InterestMinted + a + (defaultDebt' - defaultDebt)
    <2> DEFINE x == supply + InterestMinted
               y == a + (defaultDebt' - defaultDebt)
    <2>1. x \in Int /\ y \in Int /\ minted - burned = y
      <3>1. x \in Int
        BY <1>1
      <3>2. defaultDebt' \in Int /\ defaultDebt \in Int
        BY <1>1
      <3>3. y \in Int
        BY <3>2
      <3>4. minted - burned = y
        OBVIOUS
      <3> QED BY <3>1, <3>3, <3>4
    <2>2. supply + InterestMinted + a + (defaultDebt' - defaultDebt) = x + y
      BY <1>1
    <2> HIDE DEF y
    <2>3. x + minted - burned = x + y
      <3> HIDE DEF x
      <3> QED BY <2>1, Regrouped
    <2> QED BY <1>2, <2>2, <2>3
  <1>5. Adds(a)
    BY <1>3, <1>4 DEF Adds
  <1> QED BY <1>2, <1>3, <1>5 DEF Accounted

LEMMA TakesAccounted ==
  ASSUME TypeOK, NEW o \in Owners, NEW a \in Int, NEW minted \in Int, NEW burned \in Int,
         DecreaseTroveDebt(o, a), Settle(minted, burned), defaultDebt' \in Nat,
         minted - burned = (defaultDebt' - defaultDebt) - a
  PROVE  Accounted
  <1>1. InterestMinted \in Int /\ supply \in Int /\ defaultDebt \in Nat
    BY InterestType DEF TypeOK
  <1>2. supply' = supply + InterestMinted + minted - burned /\ calls' = calls + 1
    BY DEF Settle
  <1>3. /\ scaledTotalSupply' = scaledTotalSupply - RayDiv(a, NewIndex) /\ borrowIndex' = NewIndex
    BY DEF DecreaseTroveDebt, SubDebt, UpdateState
  <1>4. supply' = supply + InterestMinted - a + (defaultDebt' - defaultDebt)
    <2> DEFINE x == supply + InterestMinted
               y == (defaultDebt' - defaultDebt) - a
    <2>1. x \in Int /\ y \in Int /\ minted - burned = y
      <3>1. x \in Int
        BY <1>1
      <3>2. defaultDebt' \in Int /\ defaultDebt \in Int
        BY <1>1
      <3>3. y \in Int
        BY <3>2
      <3>4. minted - burned = y
        OBVIOUS
      <3> QED BY <3>1, <3>3, <3>4
    <2>2. supply + InterestMinted - a + (defaultDebt' - defaultDebt) = x + y
      BY <1>1
    <2> HIDE DEF y
    <2>3. x + minted - burned = x + y
      <3> HIDE DEF x
      <3> QED BY <2>1, Regrouped
    <2> QED BY <1>2, <2>2, <2>3
  <1>5. Takes(a)
    BY <1>3, <1>4 DEF Takes
  <1> QED BY <1>2, <1>3, <1>5 DEF Accounted

\* What each call mints and burns is what it adds to the debt and takes off it.
LEMMA CallsAccounted ==
  ASSUME TypeOK, TypeOK', [Next]_vars
  PROVE  Accounted \/ Tick \/ UNCHANGED vars
  <1>1. /\ defaultDebt \in Nat /\ defaultDebt' \in Nat /\ USDE_GAS_COMPENSATION \in Nat
        /\ Loans \subseteq Nat /\ Repayments \subseteq Nat
        /\ \A o \in Owners : BalanceOf(o) \in Nat
    BY BalanceType, RatesAssumption DEF TypeOK
  <1>2. ASSUME NEW o \in Owners, NEW amount \in Loans, NEW fee \in Nat, Borrow(o, amount, fee)
        PROVE  Accounted
    <2> DEFINE a == amount + fee
    <2>1. a \in Int /\ a - 0 = a + (defaultDebt' - defaultDebt)
      BY <1>1, <1>2 DEF Borrow
    <2>2. IncreaseTroveDebt(o, a) /\ Settle(a, 0)
      BY <1>2 DEF Borrow
    <2>3. PICK none \in Int : none = 0
      OBVIOUS
    <2> HIDE DEF a
    <2>4. a - none = a + (defaultDebt' - defaultDebt) /\ Settle(a, none)
      BY <2>1, <2>2, <2>3
    <2> QED BY <1>1, <2>1, <2>2, <2>4, AddsAccounted
  <1>3. ASSUME NEW o \in Owners, NEW amount \in Loans, BorrowInNormalMode(o, amount)
        PROVE  Accounted
    <2> DEFINE fee == BorrowingFee(DecayedBaseRate, amount)
    <2>1. fee \in Nat
      <3>1. DecayedBaseRate \in Nat
        BY <1>3, BaseRateAssumption DEF BorrowInNormalMode, DecayBaseRateFromBorrowing
      <3> HIDE DEF DecayedBaseRate
      <3> QED BY <1>1, <3>1, FeeType
    <2>2. Borrow(o, amount, fee)
      BY <1>3 DEF BorrowInNormalMode
    <2> HIDE DEF fee
    <2> QED BY <1>2, <2>1, <2>2
  <1>4. ASSUME NEW o \in Owners, NEW amount \in Loans, BorrowInRecoveryMode(o, amount)
        PROVE  Accounted
    <2>1. (RecoveryFee * amount) \div DECIMAL_PRECISION \in Nat
      BY FeeType, BaseRateAssumption, RatesAssumption
    <2> QED BY <1>2, <1>4, <2>1 DEF BorrowInRecoveryMode
  <1>5. ASSUME NEW o \in Owners, NEW amount \in Repayments, Repay(o, amount)
        PROVE  Accounted
    <2>1. /\ amount \in Int /\ 0 - amount = (defaultDebt' - defaultDebt) - amount
          /\ DecreaseTroveDebt(o, amount) /\ Settle(0, amount)
      BY <1>1, <1>5 DEF Repay
    <2>2. PICK none \in Int : none = 0
      OBVIOUS
    <2>3. none - amount = (defaultDebt' - defaultDebt) - amount /\ Settle(none, amount)
      BY <2>1, <2>2
    <2> QED BY <1>1, <2>1, <2>3, TakesAccounted
  <1>6. ASSUME NEW o \in Owners, CloseTrove(o)
        PROVE  Accounted
    <2>1. DecreaseTroveDebt(o, BalanceOf(o)) /\ Settle(0, BalanceOf(o)) /\ defaultDebt' = defaultDebt
      BY <1>6 DEF CloseTrove, CloseDebt
    <2>2. BalanceOf(o) \in Int /\ 0 - BalanceOf(o) = (defaultDebt' - defaultDebt) - BalanceOf(o)
      BY <1>1, <2>1
    <2> QED BY <1>1, <2>1, <2>2, TakesAccounted
  <1>7. ASSUME NEW o \in Owners, NEW amount \in Repayments, Redeem(o, amount)
        PROVE  Accounted
    <2> DEFINE lot == MinOf(amount, BalanceOf(o))
    <2>1. /\ DecreaseTroveDebt(o, lot) /\ Settle(0, lot) /\ defaultDebt' = defaultDebt
      BY <1>7 DEF Redeem, CloseDebt
    <2>2. lot \in Int
      BY <1>1 DEF MinOf
    <2> HIDE DEF lot
    <2>3. 0 - lot = (defaultDebt' - defaultDebt) - lot
      BY <1>1, <2>1, <2>2
    <2> QED BY <1>1, <2>1, <2>2, <2>3, TakesAccounted
  <1>8. ASSUME NEW o \in Owners, Liquidate(o)
        PROVE  Accounted
    <2>1. /\ DecreaseTroveDebt(o, BalanceOf(o)) /\ Settle(USDE_GAS_COMPENSATION, 0)
          /\ defaultDebt' = defaultDebt + BalanceOf(o) + USDE_GAS_COMPENSATION
      BY <1>8 DEF Liquidate, CloseDebt
    <2>2. /\ BalanceOf(o) \in Int
          /\ USDE_GAS_COMPENSATION - 0 = (defaultDebt' - defaultDebt) - BalanceOf(o)
      BY <1>1, <2>1
    <2> QED BY <1>1, <2>1, <2>2, TakesAccounted
  <1>9. ASSUME NEW o \in Owners, ApplyPendingRewards(o)
        PROVE  Accounted
    <2>1. IncreaseTroveDebt(o, defaultDebt) /\ Settle(0, 0) /\ defaultDebt' = 0
      BY <1>9 DEF ApplyPendingRewards
    <2>2. defaultDebt \in Int /\ 0 - 0 = defaultDebt + (defaultDebt' - defaultDebt)
      BY <1>1, <2>1
    <2> QED BY <1>1, <2>1, <2>2, AddsAccounted
  <1> QED BY <1>3, <1>4, <1>5, <1>6, <1>7, <1>8, <1>9 DEF Next

-----------------------------------------------------------------------------
LEMMA GapTypes ==
  ASSUME TypeOK
  PROVE  /\ Gap \in Int /\ Rounding \in Nat /\ calls \in Nat
         /\ borrowIndex \in Nat /\ NewIndex \in Nat /\ NewIndex >= borrowIndex /\ NewIndex >= RAY
         /\ borrowIndex \div RAY \in Nat /\ NewIndex \div RAY \in Nat
         /\ borrowIndex \div RAY <= NewIndex \div RAY
  <1>1. /\ calls \in Nat /\ borrowIndex \in Nat /\ NewIndex \in Nat /\ NewIndex >= borrowIndex
        /\ NewIndex >= RAY /\ scaledTotalSupply \in Int /\ supply \in Int /\ defaultDebt \in Nat
    BY IndexGrows, Half, RatesAssumption DEF TypeOK, DebtTypeOK
  <1>2. /\ borrowIndex \div RAY \in Nat /\ NewIndex \div RAY \in Nat
        /\ borrowIndex \div RAY <= NewIndex \div RAY
    BY <1>1, QuotientNat, QuotientGrows, Half
  <1>3. RayMul(scaledTotalSupply, borrowIndex) \in Int
    BY <1>1, RayMulInt
  <1>4. Gap \in Int
    BY <1>1, <1>3 DEF Gap
  <1>5. 1 + borrowIndex \div RAY \in Nat
    BY <1>2
  <1>6. Rounding \in Nat
    BY <1>1, <1>5, NatProduct DEF Rounding
  <1> QED BY <1>1, <1>2, <1>4, <1>6

\* Each call moves the gap by no more than the error of the shares it makes or
\* takes: the interest it mints is what the index adds to the debt.
LEMMA GapStep ==
  ASSUME TypeOK, TypeOK', Accounted
  PROVE  Gap' - Gap \in (-(1 + NewIndex \div RAY))..(1 + NewIndex \div RAY)
  <1>1. PICK a \in Int : Adds(a) \/ Takes(a)
    BY DEF Accounted
  <1>2. PICK t, i, j, s : /\ t = scaledTotalSupply /\ i = NewIndex /\ j = borrowIndex
                          /\ s = RayDiv(a, NewIndex)
    OBVIOUS
  <1>3. /\ t \in Int /\ i \in Nat /\ i >= RAY /\ j \in Nat
        /\ defaultDebt \in Int /\ defaultDebt' \in Int /\ supply \in Int
    BY <1>2, GapTypes DEF TypeOK, DebtTypeOK
  <1>4. /\ s \in Int
        /\ \A u \in Int : RayMul(u + s, i) - RayMul(u, i) - a \in (-(1 + i \div RAY))..(1 + i \div RAY)
    BY <1>2, <1>3, ShareError
  <1>5. i \div RAY \in Nat
    BY <1>3, QuotientNat, Half
  <1>6. /\ InterestMinted = RayMul(t, i) - RayMul(t, j)
        /\ Gap = RayMul(t, j) + defaultDebt - supply
        /\ Gap' = RayMul(scaledTotalSupply', i) + defaultDebt' - supply'
    BY <1>2 DEF InterestMinted, Gap, Accounted
  <1>7. RayMul(t, i) \in Int /\ RayMul(t, j) \in Int
    BY <1>3, RayMulInt
  <1>8. CASE Adds(a)
    <2>1. PICK x : x = RayMul(t + s, i)
      OBVIOUS
    <2>2. scaledTotalSupply' = t + s /\ x \in Int
          /\ x - RayMul(t, i) - a \in (-(1 + i \div RAY))..(1 + i \div RAY)
      <3>1. t + s \in Int
        BY <1>3, <1>4
      <3> QED BY <1>2, <1>3, <1>4, <1>8, <2>1, <3>1, RayMulInt DEF Adds
    <2>3. supply' = supply + InterestMinted + a + (defaultDebt' - defaultDebt)
      BY <1>8 DEF Adds
    <2>4. Gap' - Gap = x - RayMul(t, i) - a
      BY <1>3, <1>6, <1>7, <2>1, <2>2, <2>3
    <2> QED BY <1>2, <2>2, <2>4
  <1>9. CASE Takes(a)
    <2>1. PICK x : x = RayMul(t - s, i)
      OBVIOUS
    <2>2. t - s \in Int /\ (t - s) + s = t
      BY <1>3, <1>4
    <2>3. scaledTotalSupply' = t - s /\ x \in Int
          /\ RayMul(t, i) - x - a \in (-(1 + i \div RAY))..(1 + i \div RAY)
      <3>1. RayMul((t - s) + s, i) - RayMul(t - s, i) - a \in (-(1 + i \div RAY))..(1 + i \div RAY)
        BY <1>4, <2>2
      <3> QED BY <1>2, <1>3, <1>9, <2>1, <2>2, <3>1, RayMulInt DEF Takes
    <2>4. supply' = supply + InterestMinted - a + (defaultDebt' - defaultDebt)
      BY <1>9 DEF Takes
    <2>5. Gap' - Gap = -(RayMul(t, i) - x - a)
      BY <1>3, <1>6, <1>7, <2>1, <2>3, <2>4
    <2> QED BY <1>2, <1>5, <1>7, <2>3, <2>5
  <1> QED BY <1>1, <1>8, <1>9

\* The bound grows with the calls and with the index.
LEMMA BalancedStep ==
  ASSUME TypeOK, TypeOK', Accounted, Balanced
  PROVE  Balanced'
  <1> DEFINE k == borrowIndex \div RAY
             m == NewIndex \div RAY
  <1>1. /\ Gap \in Int /\ Gap \in -Rounding..Rounding /\ calls \in Nat
        /\ k \in Nat /\ m \in Nat /\ k <= m /\ Rounding = (1 + k) * calls
    BY GapTypes DEF Balanced, Rounding
  <1>2. Gap' \in Int
    <2>1. /\ scaledTotalSupply' \in Int /\ borrowIndex' \in Nat /\ defaultDebt' \in Int
          /\ supply' \in Int
      BY DEF TypeOK, DebtTypeOK
    <2>2. RayMul(scaledTotalSupply', borrowIndex') \in Int
      BY <2>1, RayMulInt
    <2>3. Gap' = RayMul(scaledTotalSupply', borrowIndex') + defaultDebt' - supply'
      BY DEF Gap
    <2> QED BY <2>1, <2>2, <2>3
  <1>3. Gap' - Gap \in (-(1 + m))..(1 + m)
    BY GapStep
  <1>4. Rounding' = (1 + m) * (calls + 1)
    BY DEF Rounding, Accounted
  <1> HIDE DEF k, m
  <1>5. (1 + m) * (calls + 1) = (1 + m) * calls + (1 + m) /\ (1 + k) * calls <= (1 + m) * calls
        /\ (1 + m) * calls \in Int /\ (1 + k) * calls \in Int
    <2>1. 1 + m \in Nat /\ 1 + k \in Nat /\ 1 + k <= 1 + m
      BY <1>1
    <2>2. calls * (1 + k) <= calls * (1 + m)
      BY <1>1, <2>1, ProductBounds
    <2>3. /\ calls * (1 + k) = (1 + k) * calls /\ calls * (1 + m) = (1 + m) * calls
          /\ (1 + m) * (calls + 1) = (1 + m) * calls + (1 + m)
      BY <1>1, <2>1, Z3
    <2>4. (1 + m) * calls \in Nat /\ (1 + k) * calls \in Nat
      BY <1>1, <2>1, NatProduct
    <2> QED BY <2>2, <2>3, <2>4
  <1>6. Gap' \in -Rounding'..Rounding'
    <2>1. PICK g, h, r, q : /\ g = Gap /\ h = Gap' /\ r = (1 + k) * calls /\ q = (1 + m) * calls
      OBVIOUS
    <2>2. /\ g \in Int /\ h \in Int /\ r \in Int /\ q \in Int /\ r <= q
          /\ g \in -r..r /\ h - g \in (-(1 + m))..(1 + m)
      BY <1>1, <1>2, <1>3, <1>5, <2>1
    <2>3. h \in (-(q + (1 + m)))..(q + (1 + m))
      BY <1>1, <2>2
    <2> QED BY <1>4, <1>5, <2>1, <2>3
  <1> QED BY <1>6 DEF Balanced

LEMMA BalancedInit == Init => Balanced
  <1> SUFFICES ASSUME Init PROVE Balanced
    OBVIOUS
  <1>1. Gap = 0
    BY NothingOwed, Half DEF Init, InitDebt, Gap
  <1>2. Rounding \in Nat
    BY TypeInit, GapTypes
  <1> QED BY <1>1, <1>2 DEF Balanced

LEMMA BalancedKept == TypeOK /\ Balanced /\ [Next]_vars => Balanced'
  <1> SUFFICES ASSUME TypeOK, Balanced, [Next]_vars PROVE Balanced'
    OBVIOUS
  <1>1. TypeOK'
    BY TypeStep
  <1>2. CASE Tick
    BY <1>2 DEF Tick, debtVars, Balanced, Gap, Rounding
  <1>3. CASE UNCHANGED vars
    BY <1>3 DEF vars, debtVars, Balanced, Gap, Rounding
  <1> QED BY <1>1, <1>2, <1>3, CallsAccounted, BalancedStep

LEMMA BalancedAfterCall ==
  ASSUME TypeOK, Balanced, [Next]_vars
  PROVE  [now' = now =>
            LET rounding == (1 + borrowIndex' \div RAY) * calls'
            IN  (TotalSupply + defaultDebt - supply)' \in -rounding..rounding]_vars
  <1>1. TypeOK' /\ Balanced'
    BY TypeStep, BalancedKept
  <1>2. CASE Called
    <2>1. (TotalSupply + defaultDebt - supply)' = Gap'
      BY <1>1, <1>2, IndexAfterCall DEF TotalSupply, Gap
    <2>2. Gap' \in -Rounding'..Rounding'
      BY <1>1 DEF Balanced
    <2>3. Rounding' = (1 + borrowIndex' \div RAY) * calls'
      BY DEF Rounding
    <2> QED BY <2>1, <2>2, <2>3
  <1>3. CASE Tick
    <2>1. now' # now
      BY <1>3 DEF Tick, TypeOK, DebtTypeOK
    <2> QED BY <2>1
  <1> QED BY <1>2, <1>3, StepsAreCalls

\* After every call the USDE that mint and burn have left is the debt of all
\* troves and of the DefaultPool, up to one and the index for each call made.
THEOREM SupplyAlwaysMatches == Spec => SupplyMatchesDebt
  <1>1. Init => TypeOK /\ Balanced
    BY TypeInit, BalancedInit
  <1>2. TypeOK /\ Balanced /\ [Next]_vars => TypeOK' /\ Balanced'
    BY TypeStep, BalancedKept
  <1>3. TypeOK /\ Balanced /\ [Next]_vars =>
          [now' = now =>
              LET rounding == (1 + borrowIndex' \div RAY) * calls'
              IN  (TotalSupply + defaultDebt - supply)' \in -rounding..rounding]_vars
    BY BalancedAfterCall
  <1> QED BY <1>1, <1>2, <1>3, PTL DEF Spec, SupplyMatchesDebt

-----------------------------------------------------------------------------
(* Powers by squaring.                                                     *)

LEMMA DecMulType == ASSUME NEW x \in Nat, NEW y \in Nat PROVE DecMul(x, y) \in Nat
  <1>1. DECIMAL_PRECISION \in Nat \ {0} /\ DECIMAL_PRECISION \div 2 \in Nat
    BY BaseRateAssumption, QuotientNat
  <1>2. x * y + DECIMAL_PRECISION \div 2 \in Nat
    BY <1>1, NatProduct
  <1> QED BY <1>1, <1>2, QuotientNat DEF DecMul

LEMMA HalfOf ==
  ASSUME NEW n \in Nat, n >= 2
  PROVE  /\ n \div 2 \in 1..(n - 1)
         /\ n % 2 = 0 => n = 2 * (n \div 2)
         /\ n % 2 # 0 => n = 2 * (n \div 2) + 1
  BY Z3

\* The loop of _decPow, started with s, for m rounds.
IsLoop(g, s, m) == g = [i \in 0..m |-> IF i = 0 THEN s ELSE Squared(g[i - 1])]

\* There is a function of the number of rounds.
LEMMA LoopExists ==
  ASSUME NEW s, NEW m \in Nat
  PROVE  \E g : IsLoop(g, s, m)
  <1> DEFINE T == {k \in 0..m : \E g : IsLoop(g, s, k)}
  <1>1. 0 \in T
    <2> DEFINE g == [i \in 0..0 |-> s]
    <2>1. IsLoop(g, s, 0) BY DEF IsLoop
    <2> QED BY <2>1
  <1>2. ASSUME NEW k \in 0..(m - 1), k \in T
        PROVE  k + 1 \in T
    <2>1. PICK g : IsLoop(g, s, k) BY <1>2
    <2>2. DOMAIN g = 0..k /\ \A i \in 0..k : g[i] = IF i = 0 THEN s ELSE Squared(g[i - 1])
      BY <2>1 DEF IsLoop
    <2> DEFINE h == [i \in 0..(k + 1) |-> IF i <= k THEN g[i] ELSE Squared(g[k])]
    <2>3. ASSUME NEW i \in 0..(k + 1)
          PROVE  h[i] = IF i = 0 THEN s ELSE Squared(h[i - 1])
      <3>1. CASE i = 0 BY <2>2, <3>1
      <3>2. CASE i # 0 /\ i <= k
        <4>1. h[i] = g[i] /\ h[i - 1] = g[i - 1] BY <3>2
        <4> QED BY <2>2, <3>2, <4>1
      <3>3. CASE i = k + 1
        <4>1. h[i] = Squared(g[k]) /\ h[i - 1] = g[k] /\ i # 0 BY <3>3
        <4> QED BY <4>1
      <3> QED BY <3>1, <3>2, <3>3
    <2>4. IsLoop(h, s, k + 1)
      <3>1. h = [i \in 0..(k + 1) |-> h[i]] OBVIOUS
      <3> HIDE DEF h
      <3> QED BY <2>3, <3>1 DEF IsLoop
    <2> QED BY <2>4
  <1> HIDE DEF T
  <1>3. 0..m \subseteq T BY <1>1, <1>2, SetInduction
  <1> QED BY <1>3 DEF T

\* What DecPow reads off the loop.
LEMMA DecPowIsLoop ==
  ASSUME NEW base, NEW minutes \in Nat, minutes # 0
  PROVE  \E g : /\ g[0] = [n |-> minutes, x |-> base, y |-> DECIMAL_PRECISION]
                /\ \A i \in 0..(minutes - 1) : g[i + 1] = Squared(g[i])
                /\ DecPow(base, minutes) = DecMul(g[minutes].x, g[minutes].y)
  <1> DEFINE s == [n |-> minutes, x |-> base, y |-> DECIMAL_PRECISION]
             g == CHOOSE g : g = [i \in 0..minutes |-> IF i = 0 THEN s ELSE Squared(g[i - 1])]
  <1>1. DecPow(base, minutes) = DecMul(g[minutes].x, g[minutes].y) BY DEF DecPow
  <1> HIDE DEF s
  <1>2. g = [i \in 0..minutes |-> IF i = 0 THEN s ELSE Squared(g[i - 1])]
    BY LoopExists DEF IsLoop
  <1> HIDE DEF g
  <1>3. g[0] = s BY <1>2
  <1>4. ASSUME NEW i \in 0..(minutes - 1)
        PROVE  g[i + 1] = Squared(g[i])
    <2>1. i + 1 \in 0..minutes /\ i + 1 # 0 /\ (i + 1) - 1 = i OBVIOUS
    <2> QED BY <1>2, <2>1
  <1> QED BY <1>1, <1>3, <1>4 DEF s

-----------------------------------------------------------------------------
(* The decay without rounding: q[n] / q[0] is the part that n minutes leave *)
(* of a rate.                                                               *)

IsDecay(q, n) ==
  /\ q \in [0..n -> Nat] /\ q[0] # 0
  /\ \A i \in 0..(n - 1) : q[i + 1] * DECIMAL_PRECISION = q[i] * MINUTE_DECAY_FACTOR

LEMMA DecayConstants ==
  /\ DECIMAL_PRECISION \in Nat /\ DECIMAL_PRECISION >= 1
  /\ MINUTE_DECAY_FACTOR \in Nat /\ MINUTE_DECAY_FACTOR <= DECIMAL_PRECISION
  BY BaseRateAssumption

LEMMA CancelFactor ==
  ASSUME NEW a \in Int, NEW b \in Int, NEW m \in Nat \ {0}, a * m <= b * m
  PROVE  a <= b
  BY Z3

LEMMA DecayExists == ASSUME NEW m \in Nat PROVE \E q : IsDecay(q, m)
  <1> DEFINE P == DECIMAL_PRECISION
             f == MINUTE_DECAY_FACTOR
             T == {k \in 0..m : \E q : IsDecay(q, k)}
  <1>1. 0 \in T
    <2> DEFINE q == [i \in 0..0 |-> 1]
    <2>1. IsDecay(q, 0) BY DEF IsDecay
    <2> QED BY <2>1
  <1>2. ASSUME NEW k \in 0..(m - 1), k \in T
        PROVE  k + 1 \in T
    <2>1. PICK q : IsDecay(q, k) BY <1>2
    <2> DEFINE r == [i \in 0..(k + 1) |-> IF i <= k THEN q[i] * P ELSE q[k] * f]
    <2>2. /\ q \in [0..k -> Nat] /\ q[0] # 0 /\ P \in Nat /\ P >= 1 /\ f \in Nat
          /\ \A i \in 0..(k - 1) : q[i + 1] * P = q[i] * f
      BY <2>1, DecayConstants DEF IsDecay
    <2> HIDE DEF P, f
    <2>3. ASSUME NEW i \in 0..(k + 1) PROVE r[i] \in Nat
      <3>1. CASE i <= k
        <4>1. q[i] \in Nat BY <2>2, <3>1
        <4> QED BY <2>2, <3>1, <4>1, NatProduct
      <3>2. CASE i > k
        <4>1. q[k] \in Nat BY <2>2
        <4> QED BY <2>2, <3>2, <4>1, NatProduct
      <3> QED BY <3>1, <3>2
    <2>4. r[0] # 0
      <3>1. r[0] = q[0] * P /\ q[0] \in Nat /\ q[0] # 0 BY <2>2
      <3>2. q[0] * P # 0 BY <2>2, <3>1, Z3
      <3> QED BY <3>1, <3>2
    <2>5. ASSUME NEW i \in 0..((k + 1) - 1) PROVE r[i + 1] * P = r[i] * f
      <3>1. CASE i = k
        <4>1. r[i + 1] = q[k] * f /\ r[i] = q[k] * P /\ q[k] \in Nat BY <2>2, <3>1
        <4> DEFINE a == q[k]
        <4>2. a \in Nat BY <4>1
        <4> HIDE DEF a
        <4>3. (a * f) * P = (a * P) * f BY <2>2, <4>2, Z3
        <4> QED BY <4>1, <4>3 DEF a
      <3>2. CASE i < k
        <4>1. r[i + 1] = q[i + 1] * P /\ r[i] = q[i] * P BY <3>2
        <4>2. q[i + 1] * P = q[i] * f /\ q[i] \in Nat /\ q[i + 1] \in Nat BY <2>2, <3>2
        <4> DEFINE a == q[i]
                   b == q[i + 1]
        <4>3. a \in Nat /\ b \in Nat /\ b * P = a * f BY <4>2
        <4> HIDE DEF a, b
        <4>4. (b * P) * P = (a * P) * f BY <2>2, <4>3, Z3
        <4> QED BY <4>1, <4>4 DEF a, b
      <3> QED BY <3>1, <3>2
    <2>6. IsDecay(r, k + 1)
      <3>1. r \in [0..(k + 1) -> Nat] BY <2>3
      <3> HIDE DEF r
      <3> QED BY <2>4, <2>5, <3>1 DEF IsDecay, P, f
    <2> QED BY <2>6
  <1> HIDE DEF T
  <1>3. 0..m \subseteq T BY <1>1, <1>2, SetInduction
  <1> QED BY <1>3 DEF T

\* What is left after one minute more is no more, and the parts multiply.
LEMMA DecayFalls ==
  ASSUME NEW m \in Nat, NEW q, IsDecay(q, m), NEW i \in 0..m, NEW d \in 0..(m - i)
  PROVE  q[i + d] <= q[i]
  <1> DEFINE n == m - i
             T == {j \in 0..n : q[i + j] <= q[i]}
  <1>1. /\ q \in [0..m -> Nat]
        /\ \A j \in 0..(m - 1) : q[j + 1] * DECIMAL_PRECISION = q[j] * MINUTE_DECAY_FACTOR
    BY DEF IsDecay
  <1>2. 0 \in T
    <2>1. q[i] \in Nat /\ i + 0 = i BY <1>1
    <2> QED BY <2>1
  <1>3. ASSUME NEW j \in 0..(n - 1), j \in T
        PROVE  j + 1 \in T
    <2> DEFINE a == q[i + j]
               b == q[i + (j + 1)]
    <2>1. i + j \in 0..(m - 1) /\ i + (j + 1) = (i + j) + 1 /\ i + (j + 1) \in 0..m OBVIOUS
    <2>2. a \in Nat /\ b \in Nat /\ q[i] \in Nat /\ a <= q[i] BY <1>1, <1>3, <2>1
    <2>3. b * DECIMAL_PRECISION = a * MINUTE_DECAY_FACTOR BY <1>1, <2>1
    <2> HIDE DEF a, b
    <2>4. a * MINUTE_DECAY_FACTOR <= a * DECIMAL_PRECISION BY <2>2, DecayConstants, ProductBounds
    <2>5. b * DECIMAL_PRECISION <= a * DECIMAL_PRECISION BY <2>3, <2>4
    <2>6. b <= a BY <2>2, <2>5, DecayConstants, CancelFactor
    <2>7. b <= q[i] BY <2>2, <2>6
    <2> QED BY <2>7 DEF b
  <1>4. n \in Nat OBVIOUS
  <1> HIDE DEF T
  <1>5. 0..n \subseteq T BY <1>2, <1>3, <1>4, SetInduction
  <1> QED BY <1>5 DEF T

LEMMA DecaysMultiply ==
  ASSUME NEW m \in Nat, NEW q, IsDecay(q, m), NEW i \in 0..m, NEW d \in 0..(m - i)
  PROVE  q[i] * q[d] = q[i + d] * q[0]
  <1> DEFINE n == m - i
             T == {j \in 0..n : q[i] * q[j] = q[i + j] * q[0]}
  <1>1. /\ q \in [0..m -> Nat]
        /\ \A j \in 0..(m - 1) : q[j + 1] * DECIMAL_PRECISION = q[j] * MINUTE_DECAY_FACTOR
    BY DEF IsDecay
  <1>2. 0 \in T
    <2>1. i + 0 = i OBVIOUS
    <2> QED BY <2>1
  <1>3. ASSUME NEW j \in 0..(n - 1), j \in T
        PROVE  j + 1 \in T
    <2> DEFINE P == DECIMAL_PRECISION
               f == MINUTE_DECAY_FACTOR
               u == q[0]
               a == q[i]
               b == q[j]
               c == q[j + 1]
               x == q[i + j]
               y == q[i + (j + 1)]
    <2>1. /\ i + j \in 0..(m - 1) /\ i + (j + 1) = (i + j) + 1 /\ i + (j + 1) \in 0..m
          /\ j \in 0..(m - 1) /\ j + 1 \in 0..m
      OBVIOUS
    <2>2. u \in Nat /\ a \in Nat /\ b \in Nat /\ c \in Nat /\ x \in Nat /\ y \in Nat BY <1>1, <2>1
    <2>3. a * b = x * u BY <1>3
    <2>4. c * P = b * f /\ y * P = x * f BY <1>1, <2>1
    <2>5. P \in Nat \ {0} /\ f \in Nat BY DecayConstants
    <2> HIDE DEF u, a, b, c, x, y, P, f
    <2>6. (a * c) * P = a * (c * P) /\ a * (b * f) = (a * b) * f BY <2>2, <2>5, Z3
    <2>7. (y * u) * P = (y * P) * u /\ (x * f) * u = (x * u) * f BY <2>2, <2>5, Z3
    <2>8. (a * c) * P = (y * u) * P BY <2>3, <2>4, <2>6, <2>7
    <2>9. a * c \in Nat /\ y * u \in Nat BY <2>2, NatProduct
    <2>10. a * c = y * u
      <3>1. (a * c) * P <= (y * u) * P /\ (y * u) * P <= (a * c) * P BY <2>5, <2>8, <2>9, NatProduct
      <3>2. a * c <= y * u BY <2>5, <2>9, <3>1, CancelFactor
      <3>3. y * u <= a * c BY <2>5, <2>9, <3>1, CancelFactor
      <3> QED BY <2>9, <3>2, <3>3
    <2> QED BY <2>10 DEF u, a, c, y
  <1>4. n \in Nat OBVIOUS
  <1> HIDE DEF T
  <1>5. 0..n \subseteq T BY <1>2, <1>3, <1>4, SetInduction
  <1> QED BY <1>5 DEF T

-----------------------------------------------------------------------------
(* Numbers that are near a decay: twice the distance is at most e.         *)

Near(u, x, p, e) == 2 * (x * u - p) \in -(e * u)..(e * u)

\* x is what a minutes leave of one, up to e halves.
IsPart(q, x, a, e) == x \in 0..DECIMAL_PRECISION /\ Near(q[0], x, DECIMAL_PRECISION * q[a], e)

\* The product of two factors that are both near their marks.
LEMMA NearProduct ==
  ASSUME NEW M \in Nat, NEW X \in 0..M, NEW Y \in Int, NEW A \in Int, NEW B \in 0..M,
         NEW d \in Nat, NEW e \in Nat,
         2 * (X - A) \in -d..d, 2 * (Y - B) \in -e..e
  PROVE  2 * (X * Y - A * B) \in -(M * (d + e))..(M * (d + e))
  <1>1. X * Y - A * B = X * (Y - B) + B * (X - A) BY Z3
  <1> DEFINE s == 2 * (Y - B)
             t == 2 * (X - A)
  <1>2. s \in -e..e /\ t \in -d..d OBVIOUS
  <1>3. 2 * (X * (Y - B)) = X * s /\ 2 * (B * (X - A)) = B * t BY Z3
  <1> HIDE DEF s, t
  <1>4. X * s <= M * e /\ X * s >= -(M * e) /\ X * s \in Int
    <2>1. s \in Int /\ s <= e /\ s >= -e BY <1>2
    <2>2. X * s <= X * e /\ X * s >= -(X * e) BY <2>1, Z3
    <2>3. X * e <= M * e BY Z3
    <2> QED BY <2>1, <2>2, <2>3, Z3
  <1>5. B * t <= M * d /\ B * t >= -(M * d) /\ B * t \in Int
    <2>1. t \in Int /\ t <= d /\ t >= -d BY <1>2
    <2>2. B * t <= B * d /\ B * t >= -(B * d) BY <2>1, Z3
    <2>3. B * d <= M * d BY Z3
    <2> QED BY <2>1, <2>2, <2>3, Z3
  <1>6. M * (d + e) = M * d + M * e /\ M * d \in Nat /\ M * e \in Nat BY NatProduct, Z3
  <1>7. X * Y - A * B \in Int /\ X * (Y - B) \in Int /\ B * (X - A) \in Int
    BY Z3
  <1>8. 2 * (X * Y - A * B) = X * s + B * t BY <1>1, <1>3, <1>7
  <1> QED BY <1>4, <1>5, <1>6, <1>8

\* DecMul rounds to the nearest number.
LEMMA DecMulRounds ==
  ASSUME NEW x \in Nat, NEW y \in Nat, NEW z, z = DecMul(x, y)
  PROVE  /\ z \in Nat
         /\ 2 * (z * DECIMAL_PRECISION - x * y) \in -DECIMAL_PRECISION..DECIMAL_PRECISION
  <1> DEFINE P == DECIMAL_PRECISION
             h == P \div 2
             w == x * y
  <1>1. P \in Nat \ {0} BY BaseRateAssumption
  <1> HIDE DEF P
  <1>2. h \in Nat /\ 2 * h <= P /\ P <= 2 * h + 1 BY <1>1, Z3
  <1> HIDE DEF h
  <1>3. w \in Nat BY NatProduct
  <1> HIDE DEF w
  <1>4. z = (w + h) \div P BY DEF DecMul, P, h, w
  <1>5. z \in Nat /\ z * P <= w + h /\ w + h < z * P + P
    <2>1. w + h \in Nat BY <1>2, <1>3
    <2> QED BY <1>1, <1>4, <2>1, QuotientBounds, QuotientNat
  <1>6. z * P \in Nat BY <1>1, <1>5, NatProduct
  <1>7. 2 * (z * P - w) \in -P..P BY <1>1, <1>2, <1>3, <1>5, <1>6
  <1> QED BY <1>5, <1>7 DEF P, w

\* A product of parts is at most one.
LEMMA DecMulIsPart ==
  ASSUME NEW x \in 0..DECIMAL_PRECISION, NEW y \in 0..DECIMAL_PRECISION
  PROVE  DecMul(x, y) \in 0..DECIMAL_PRECISION
  <1> DEFINE P == DECIMAL_PRECISION
             z == DecMul(x, y)
  <1>1. P \in Nat /\ P >= 1 BY DecayConstants
  <1>2. z \in Nat /\ 2 * (z * P - x * y) \in -P..P
    BY <1>1, DecMulRounds
  <1>3. x * y <= P * P /\ x * y \in Nat BY <1>1, Z3
  <1> HIDE DEF P, z
  <1>4. z * P \in Nat /\ P * P \in Nat BY <1>1, <1>2, NatProduct
  <1>5. 2 * (z * P) <= 2 * (P * P) + P BY <1>1, <1>2, <1>3, <1>4
  <1>6. CASE z <= P BY <1>2, <1>6 DEF P, z
  <1>7. CASE z >= P + 1
    <2>1. (P + 1) * P <= z * P BY <1>1, <1>2, <1>7, Z3
    <2>2. (P + 1) * P = P * P + P BY <1>1, Z3
    <2> QED BY <1>1, <1>4, <1>5, <2>1, <2>2
  <1> QED BY <1>1, <1>2, <1>6, <1>7

\* DecMul of two parts is near what both times together leave.
LEMMA PartsMultiply ==
  ASSUME NEW m \in Nat, NEW q, IsDecay(q, m), NEW a \in 0..m, NEW b \in 0..(m - a),
         NEW d \in Nat, NEW e \in Nat, NEW x, NEW y, IsPart(q, x, a, d), IsPart(q, y, b, e)
  PROVE  IsPart(q, DecMul(x, y), a + b, d + e + 1)
  <1> DEFINE P == DECIMAL_PRECISION
             u == q[0]
             z == DecMul(x, y)
             A == P * q[a]
             B == P * q[b]
             C == P * q[a + b]
             M == P * u
             X == x * u
             Y == y * u
             Z == z * u
  <1>1. P \in Nat /\ P >= 1 BY DecayConstants
  <1>2. q \in [0..m -> Nat] /\ u \in Nat /\ u # 0 /\ a + b \in 0..m /\ b \in 0..m BY DEF IsDecay
  <1>3. q[a] \in Nat /\ q[b] \in Nat /\ q[a + b] \in Nat BY <1>2
  <1>4. q[b] <= u
    <2>1. 0 \in 0..m /\ b \in 0..(m - 0) /\ 0 + b = b BY <1>2
    <2> QED BY <2>1, DecayFalls
  <1>5. q[a] * q[b] = q[a + b] * u BY DecaysMultiply
  <1>6. x \in 0..P /\ y \in 0..P BY DEF IsPart
  <1>7. z \in 0..P /\ 2 * (z * P - x * y) \in -P..P
    <2>1. x \in Nat /\ y \in Nat BY <1>1, <1>6
    <2> QED BY <1>6, <2>1, DecMulIsPart, DecMulRounds
  <1>8. 2 * (X - A) \in -(d * u)..(d * u) /\ 2 * (Y - B) \in -(e * u)..(e * u)
    BY DEF IsPart, Near
  <1> DEFINE qa == q[a]
             qb == q[b]
             qc == q[a + b]
  <1>9. A = P * qa /\ B = P * qb /\ C = P * qc OBVIOUS
  <1>10. qa \in Nat /\ qb \in Nat /\ qc \in Nat /\ qb <= u /\ qa * qb = qc * u BY <1>3, <1>4, <1>5
  <1>11. X = x * u /\ Y = y * u /\ Z = z * u /\ M = P * u OBVIOUS
  <1> HIDE DEF P, u, z, A, B, C, M, X, Y, Z, qa, qb, qc
  <1>12. M \in Nat /\ M # 0 /\ A \in Nat /\ B \in Nat /\ C \in Nat BY <1>1, <1>2, <1>9, <1>10, <1>11, Z3
  <1>13. X \in 0..M /\ B \in 0..M /\ Y \in Nat /\ Z \in Nat
    <2>1. x * u \in Nat /\ x * u <= P * u BY <1>1, <1>2, <1>6, Z3
    <2>2. P * qb <= P * u BY <1>1, <1>2, <1>10, ProductBounds
    <2>3. y * u \in Nat /\ z * u \in Nat BY <1>1, <1>2, <1>6, <1>7, Z3
    <2> QED BY <1>9, <1>11, <1>12, <2>1, <2>2, <2>3
  <1>14. d * u \in Nat /\ e * u \in Nat /\ (d + e + 1) * u = d * u + e * u + u BY <1>2, Z3
  <1> DEFINE du == d * u
             eu == e * u
  <1>15. 2 * (X * Y - A * B) \in -(M * (du + eu))..(M * (du + eu))
    <2>1. du \in Nat /\ eu \in Nat /\ 2 * (X - A) \in -du..du /\ 2 * (Y - B) \in -eu..eu
      BY <1>8, <1>14
    <2> HIDE DEF du, eu
    <2> QED BY <1>12, <1>13, <2>1, NearProduct
  <1>16. A * B = C * M
    <2>1. (P * qa) * (P * qb) = (P * P) * (qa * qb) BY <1>1, <1>10, Z3
    <2>2. (P * P) * (qc * u) = (P * qc) * (P * u) BY <1>1, <1>2, <1>10, Z3
    <2> QED BY <1>9, <1>10, <1>11, <2>1, <2>2
  <1>17. 2 * (Z * M - X * Y) \in -(M * u)..(M * u)
    <2> DEFINE w == z * P - x * y
               uu == u * u
    <2>1. w \in Int /\ 2 * w \in -P..P BY <1>1, <1>6, <1>7, Z3
    <2>2. Z * M - X * Y = w * uu BY <1>1, <1>2, <1>6, <1>7, <1>11, Z3
    <2>3. uu \in Nat BY <1>2, NatProduct
    <2>4. M * u = P * uu BY <1>1, <1>2, <1>11, Z3
    <2> HIDE DEF w, uu
    <2>5. 2 * (w * uu) <= P * uu /\ 2 * (w * uu) >= -(P * uu) /\ w * uu \in Int /\ P * uu \in Int
      <3>1. (2 * w) * uu <= P * uu /\ (2 * w) * uu >= (-P) * uu BY <1>1, <2>1, <2>3, Z3
      <3>2. (2 * w) * uu = 2 * (w * uu) /\ (-P) * uu = -(P * uu) /\ w * uu \in Int /\ P * uu \in Int
        BY <1>1, <2>1, <2>3, Z3
      <3> QED BY <3>1, <3>2
    <2> QED BY <2>2, <2>4, <2>5
  <1> HIDE DEF du, eu
  <1> DEFINE g == du + eu + u
  <1>18. g \in Nat /\ M * g = M * (du + eu) + M * u /\ M * (du + eu) \in Nat /\ M * u \in Nat
    <2>1. du \in Nat /\ eu \in Nat BY <1>14 DEF du, eu
    <2> QED BY <1>2, <1>12, <2>1, Z3
  <1>19. 2 * (Z * M - C * M) \in -(M * g)..(M * g)
    <2>1. Z * M \in Int /\ X * Y \in Int /\ A * B \in Int BY <1>12, <1>13, Z3
    <2> DEFINE zm == Z * M
               xy == X * Y
               ab == A * B
               k == M * (du + eu)
               l == M * u
    <2>2. zm \in Int /\ xy \in Int /\ ab \in Int /\ k \in Nat /\ l \in Nat BY <1>18, <2>1
    <2>3. 2 * (zm - xy) \in -l..l /\ 2 * (xy - ab) \in -k..k BY <1>15, <1>17
    <2>4. M * g = k + l /\ C * M = ab BY <1>16, <1>18
    <2> HIDE DEF zm, xy, ab, k, l
    <2>5. 2 * (zm - ab) \in -(k + l)..(k + l) BY <2>2, <2>3
    <2> QED BY <2>4, <2>5 DEF zm
  <1> HIDE DEF g
  <1>20. 2 * (Z - C) \in -g..g
    <2> DEFINE t == 2 * (Z - C)
    <2>1. t \in Int BY <1>12, <1>13
    <2>2. 2 * (Z * M - C * M) = t * M BY <1>12, <1>13, Z3
    <2> HIDE DEF t
    <2>3. t * M \in Int /\ t * M <= M * g /\ t * M >= -(M * g) BY <1>19, <2>1, <2>2, <1>12, <1>18, Z3
    <2>4. M * g = g * M /\ -(M * g) = (-g) * M BY <1>12, <1>18, Z3
    <2>5. t <= g BY <1>12, <1>18, <2>1, <2>3, <2>4, CancelFactor
    <2>6. -g <= t BY <1>12, <1>18, <2>1, <2>3, <2>4, CancelFactor
    <2>7. t \in -g..g BY <1>18, <2>1, <2>5, <2>6
    <2> QED BY <2>7 DEF t
  <1>21. g = (d + e + 1) * u BY <1>14 DEF g, du, eu
  <1> QED BY <1>7, <1>20, <1>21 DEF IsPart, Near, P, u, z, C, Z

-----------------------------------------------------------------------------
(* The loop of _decPow: x is what a minutes leave, y what b minutes leave, *)
(* and a * n + b is the number of minutes asked for.                       *)

RoundsDone(q, s, minutes, a, b) ==
  /\ s.n \in Nat /\ s.n >= 1 /\ a >= 1
  /\ a * s.n + b = minutes
  /\ IsPart(q, s.x, a, a - 1)
  /\ IsPart(q, s.y, b, b)

InRounds(q, s, minutes, i) ==
  /\ s.n = 1 \/ s.n <= minutes - i
  /\ \E a, b \in Nat : RoundsDone(q, s, minutes, a, b)

LEMMA RoundBounds ==
  ASSUME NEW n \in Nat, n >= 2, NEW a \in Nat, NEW b \in Nat, NEW k \in Nat, a * n + b = k
  PROVE  2 * a + b <= k
  <1>1. a * 2 <= a * n BY ProductBounds
  <1>2. a * n \in Nat BY NatProduct
  <1> QED BY <1>1, <1>2

LEMMA SquaredKeeps ==
  ASSUME NEW m \in Nat, NEW q, IsDecay(q, m), NEW minutes \in 1..m, NEW i \in 0..(minutes - 1),
         NEW s, InRounds(q, s, minutes, i)
  PROVE  InRounds(q, Squared(s), minutes, i + 1)
  <1>1. PICK a \in Nat, b \in Nat : RoundsDone(q, s, minutes, a, b) BY DEF InRounds
  <1> DEFINE n == s.n
             x == s.x
             y == s.y
  <1>2. /\ n \in Nat /\ n >= 1 /\ a >= 1 /\ a * n + b = minutes
        /\ IsPart(q, x, a, a - 1) /\ IsPart(q, y, b, b)
    BY <1>1 DEF RoundsDone
  <1>3. n = 1 \/ n <= minutes - i BY DEF InRounds
  <1>4. CASE n = 1
    <2>1. Squared(s) = s BY <1>4 DEF Squared
    <2> QED BY <1>1, <1>4, <2>1 DEF InRounds
  <1>5. CASE n >= 2
    <2> DEFINE h == n \div 2
               xx == DecMul(x, x)
               xy == DecMul(x, y)
    <2>1. Squared(s) = [n |-> h, x |-> xx, y |-> IF n % 2 = 0 THEN y ELSE xy]
      <3>1. ~(s.n <= 1) BY <1>2, <1>5
      <3> QED BY <3>1 DEF Squared
    <2>2. /\ h \in 1..(n - 1)
          /\ n % 2 = 0 => n = 2 * h
          /\ n % 2 # 0 => n = 2 * h + 1
      BY <1>2, <1>5, HalfOf
    <2>3. 2 * a + b <= minutes
      <3> HIDE DEF n
      <3> QED BY <1>2, <1>5, RoundBounds
    <2>4. IsPart(q, xx, 2 * a, 2 * a - 1)
      <3>1. a \in 0..m /\ a \in 0..(m - a) /\ a - 1 \in Nat BY <1>2, <2>3
      <3>2. IsPart(q, xx, a + a, (a - 1) + (a - 1) + 1)
        <4> HIDE DEF x
        <4> QED BY <1>2, <3>1, PartsMultiply
      <3>3. a + a = 2 * a /\ (a - 1) + (a - 1) + 1 = 2 * a - 1 OBVIOUS
      <3> QED BY <3>2, <3>3
    <2>5. IsPart(q, xy, a + b, a + b)
      <3>1. a \in 0..m /\ b \in 0..(m - a) /\ a - 1 \in Nat BY <1>2, <2>3
      <3>2. IsPart(q, xy, a + b, (a - 1) + b + 1)
        <4> HIDE DEF x, y
        <4> QED BY <1>2, <3>1, PartsMultiply
      <3>3. (a - 1) + b + 1 = a + b OBVIOUS
      <3> QED BY <3>2, <3>3
    <2>6. h = 1 \/ h <= minutes - (i + 1) BY <1>2, <1>3, <1>5, <2>2
    <2> HIDE DEF h, xx, xy
    <2>7. 2 * a \in Nat /\ 2 * a >= 1 /\ a + b \in Nat /\ h \in Nat /\ h >= 1 BY <1>2, <2>2
    <2>8. CASE n % 2 = 0
      <3> DEFINE t == [n |-> h, x |-> xx, y |-> y]
      <3>1. Squared(s) = t BY <2>1, <2>8
      <3>2. (2 * a) * h + b = minutes
        <4>1. n = 2 * h BY <2>2, <2>8
        <4>2. a * (2 * h) = (2 * a) * h BY <2>7, Z3
        <4> QED BY <1>2, <4>1, <4>2
      <3>3. t.n = h /\ t.x = xx /\ t.y = y OBVIOUS
      <3> HIDE DEF t, n, x, y
      <3>4. RoundsDone(q, t, minutes, 2 * a, b) BY <1>2, <2>4, <2>7, <3>2, <3>3 DEF RoundsDone
      <3>5. InRounds(q, t, minutes, i + 1) BY <2>6, <2>7, <3>3, <3>4 DEF InRounds
      <3> QED BY <3>1, <3>5
    <2>9. CASE n % 2 # 0
      <3> DEFINE t == [n |-> h, x |-> xx, y |-> xy]
      <3>1. Squared(s) = t BY <2>1, <2>9
      <3>2. (2 * a) * h + (a + b) = minutes
        <4>1. n = 2 * h + 1 BY <2>2, <2>9
        <4>2. a * (2 * h + 1) = (2 * a) * h + a BY <2>7, Z3
        <4>3. (2 * a) * h \in Nat BY <2>7, NatProduct
        <4> QED BY <1>2, <4>1, <4>2, <4>3
      <3>3. t.n = h /\ t.x = xx /\ t.y = xy OBVIOUS
      <3> HIDE DEF t, n, x, y
      <3>4. RoundsDone(q, t, minutes, 2 * a, a + b) BY <1>2, <2>4, <2>5, <2>7, <3>2, <3>3 DEF RoundsDone
      <3>5. InRounds(q, t, minutes, i + 1) BY <2>6, <2>7, <3>3, <3>4 DEF InRounds
      <3> QED BY <3>1, <3>5
    <2> QED BY <2>8, <2>9
  <1> QED BY <1>2, <1>4, <1>5

LEMMA LoopStarts ==
  ASSUME NEW m \in Nat, NEW q, IsDecay(q, m), NEW minutes \in 1..m,
         NEW s, s = [n |-> minutes, x |-> MINUTE_DECAY_FACTOR, y |-> DECIMAL_PRECISION]
  PROVE  InRounds(q, s, minutes, 0)
  <1> DEFINE P == DECIMAL_PRECISION
             f == MINUTE_DECAY_FACTOR
  <1>1. P \in Nat /\ P >= 1 /\ f \in 0..P BY DecayConstants
  <1>2. q[0] \in Nat /\ q[1] \in Nat /\ q[1] * P = q[0] * f
    <2>1. /\ q \in [0..m -> Nat] /\ m \in Nat /\ m >= 1
          /\ \A j \in 0..(m - 1) : q[j + 1] * DECIMAL_PRECISION = q[j] * MINUTE_DECAY_FACTOR
      BY DEF IsDecay
    <2>2. 0 \in 0..(m - 1) /\ 0 \in 0..m /\ 1 \in 0..m /\ 0 + 1 = 1 BY <2>1
    <2>3. q[0 + 1] * DECIMAL_PRECISION = q[0] * MINUTE_DECAY_FACTOR BY <2>1, <2>2
    <2> QED BY <2>1, <2>2, <2>3
  <1>3. IsPart(q, f, 1, 0)
    <2> DEFINE u == q[0]
               v == q[1]
    <2> HIDE DEF P, f, u, v
    <2>1. u \in Nat /\ v \in Nat /\ v * P = u * f BY <1>2 DEF u, v, P, f
    <2>2. 2 * (f * u - P * v) \in -(0 * u)..(0 * u)
      <3>1. f * u - P * v = 0 BY <1>1, <2>1, Z3
      <3>2. 0 * u = 0 BY <2>1
      <3> QED BY <3>1, <3>2
    <2> QED BY <1>1, <2>2 DEF IsPart, Near, P, f, u, v
  <1>4. IsPart(q, P, 0, 0)
    <2> DEFINE u == q[0]
    <2> HIDE DEF P, u
    <2>1. u \in Nat BY <1>2 DEF u
    <2>2. 2 * (P * u - P * u) \in -(0 * u)..(0 * u)
      <3>1. P * u - P * u = 0
        <4>1. P * u \in Nat BY <1>1, <2>1, NatProduct
        <4> QED BY <4>1
      <3>2. 0 * u = 0 BY <2>1
      <3> QED BY <3>1, <3>2
    <2> QED BY <1>1, <2>2 DEF IsPart, Near, P, u
  <1>5. s.n = minutes /\ s.x = f /\ s.y = P OBVIOUS
  <1> HIDE DEF P, f
  <1>6. RoundsDone(q, s, minutes, 1, 0)
    <2>1. 1 * minutes + 0 = minutes /\ 1 - 1 = 0 OBVIOUS
    <2> QED BY <1>3, <1>4, <1>5, <2>1 DEF RoundsDone
  <1> QED BY <1>5, <1>6 DEF InRounds

\* A power is off by half a unit for each minute.
LEMMA DecPowIsPart ==
  ASSUME NEW m \in Nat, NEW q, IsDecay(q, m), NEW minutes \in 0..m
  PROVE  IsPart(q, DecPow(MINUTE_DECAY_FACTOR, minutes), minutes, minutes)
  <1> DEFINE D == DecPow(MINUTE_DECAY_FACTOR, minutes)
  <1>1. CASE minutes = 0
    <2> DEFINE P == DECIMAL_PRECISION
               u == q[0]
    <2>1. P \in Nat /\ u \in Nat BY DecayConstants DEF IsDecay
    <2>2. D = P BY <1>1 DEF DecPow
    <2> HIDE DEF P, u, D
    <2>3. 2 * (P * u - P * u) \in -(0 * u)..(0 * u)
      <3>1. P * u - P * u = 0
        <4>1. P * u \in Nat BY <2>1, NatProduct
        <4> QED BY <4>1
      <3>2. 0 * u = 0 BY <2>1
      <3> QED BY <3>1, <3>2
    <2>4. IsPart(q, P, 0, 0)
      <3>1. P \in 0..P BY <2>1
      <3> QED BY <2>3, <3>1 DEF IsPart, Near, P, u
    <2> QED BY <1>1, <2>2, <2>4 DEF D
  <1>2. CASE minutes # 0
    <2>1. minutes \in 1..m /\ minutes \in Nat BY <1>2
    <2>2. PICK g : /\ g[0] = [n |-> minutes, x |-> MINUTE_DECAY_FACTOR, y |-> DECIMAL_PRECISION]
                   /\ \A i \in 0..(minutes - 1) : g[i + 1] = Squared(g[i])
                   /\ D = DecMul(g[minutes].x, g[minutes].y)
      BY <1>2, <2>1, DecPowIsLoop
    <2> DEFINE T == {i \in 0..minutes : InRounds(q, g[i], minutes, i)}
    <2>3. 0 \in T
      <3>1. InRounds(q, g[0], minutes, 0) BY <2>1, <2>2, LoopStarts
      <3> QED BY <2>1, <3>1
    <2>4. ASSUME NEW i \in 0..(minutes - 1), i \in T PROVE i + 1 \in T
      <3>1. i + 1 \in 0..minutes /\ InRounds(q, g[i], minutes, i) BY <2>1, <2>4
      <3>2. InRounds(q, Squared(g[i]), minutes, i + 1) BY <2>1, <3>1, SquaredKeeps
      <3>3. g[i + 1] = Squared(g[i]) BY <2>2, <3>1
      <3> QED BY <3>1, <3>2, <3>3
    <2>5. minutes \in T
      <3> HIDE DEF T
      <3>1. 0..minutes \subseteq T BY <2>1, <2>3, <2>4, SetInduction
      <3> QED BY <2>1, <3>1
    <2> DEFINE s == g[minutes]
    <2>6. InRounds(q, s, minutes, minutes) BY <2>5
    <2>7. D = DecMul(s.x, s.y) BY <2>2
    <2> HIDE DEF s, D, T
    <2>8. PICK a \in Nat, b \in Nat : RoundsDone(q, s, minutes, a, b) BY <2>6 DEF InRounds
    <2>9. /\ s.n \in Nat /\ s.n >= 1 /\ a >= 1 /\ a * s.n + b = minutes
          /\ IsPart(q, s.x, a, a - 1) /\ IsPart(q, s.y, b, b)
      BY <2>8 DEF RoundsDone
    <2>10. s.n = 1 BY <2>1, <2>6, <2>9 DEF InRounds
    <2>11. a + b = minutes BY <2>9, <2>10
    <2>12. a \in 0..m /\ b \in 0..(m - a) /\ a - 1 \in Nat /\ (a - 1) + b + 1 = a + b BY <2>1, <2>9, <2>11
    <2>13. IsPart(q, DecMul(s.x, s.y), a + b, (a - 1) + b + 1) BY <2>9, <2>12, PartsMultiply
    <2> QED BY <2>7, <2>11, <2>12, <2>13 DEF D
  <1> QED BY <1>1, <1>2

-----------------------------------------------------------------------------
(* A rate that decayed.                                                    *)

\* The rate is what c minutes leave of r, off by half a unit for each minute
\* and by one unit for each of k times it was written.
Tracks(q, rate, r, c, k) == Near(q[0], rate, r * q[c], c + 2 * k)

LEMMA TracksFresh ==
  ASSUME NEW m \in Nat, NEW q, IsDecay(q, m), NEW r \in Nat, NEW k \in Nat
  PROVE  Tracks(q, r, r, 0, k)
  <1> DEFINE u == q[0]
  <1>1. u \in Nat BY DEF IsDecay
  <1> HIDE DEF u
  <1>2. r * u \in Nat /\ (0 + 2 * k) * u \in Nat BY <1>1, NatProduct
  <1>3. 2 * (r * u - r * u) \in -((0 + 2 * k) * u)..((0 + 2 * k) * u) BY <1>2
  <1> QED BY <1>3 DEF Tracks, Near, u

LEMMA TracksLonger ==
  ASSUME NEW m \in Nat, NEW q, IsDecay(q, m), NEW rate \in Nat, NEW r \in Nat, NEW c \in 0..m,
         NEW k \in Nat, NEW l \in Nat, k <= l, Tracks(q, rate, r, c, k)
  PROVE  Tracks(q, rate, r, c, l)
  <1> DEFINE u == q[0]
             v == q[c]
             w == 2 * (rate * u - r * v)
  <1>1. u \in Nat /\ v \in Nat BY DEF IsDecay
  <1>2. w \in -((c + 2 * k) * u)..((c + 2 * k) * u) BY DEF Tracks, Near
  <1>3. w \in Int
    <2> HIDE DEF u, v
    <2> QED BY <1>1, Z3
  <1> HIDE DEF u, v, w
  <1>4. (c + 2 * k) * u \in Nat /\ (c + 2 * l) * u \in Nat BY <1>1, NatProduct
  <1>5. (c + 2 * k) * u <= (c + 2 * l) * u
    <2>1. u * (c + 2 * k) <= u * (c + 2 * l) BY <1>1, ProductBounds
    <2>2. u * (c + 2 * k) = (c + 2 * k) * u /\ u * (c + 2 * l) = (c + 2 * l) * u BY <1>1, Z3
    <2> QED BY <2>1, <2>2
  <1>6. w \in -((c + 2 * l) * u)..((c + 2 * l) * u) BY <1>2, <1>3, <1>4, <1>5
  <1> QED BY <1>6 DEF Tracks, Near, u, v, w

\* Decaying for n more minutes.
LEMMA TracksDecayed ==
  ASSUME NEW m \in Nat, NEW q, IsDecay(q, m), NEW c \in 0..m, NEW n \in 0..(m - c),
         NEW k \in Nat, NEW r \in 0..DECIMAL_PRECISION, NEW rate \in 0..DECIMAL_PRECISION,
         NEW D, IsPart(q, D, n, n), Tracks(q, rate, r, c, k)
  PROVE  Tracks(q, (rate * D) \div DECIMAL_PRECISION, r, c + n, k + 1)
  <1> DEFINE P == DECIMAL_PRECISION
             u == q[0]
             z == (rate * D) \div P
             qc == q[c]
             qn == q[n]
             qs == q[c + n]
             A == P * qn
             B == r * qc
             C == r * qs
             M == P * u
             X == D * u
             Y == rate * u
             Z == z * u
             d == n * u
             e == (c + 2 * k) * u
  <1>1. P \in Nat /\ P >= 1 /\ P \in Nat \ {0} BY DecayConstants
  <1>2. q \in [0..m -> Nat] /\ u \in Nat /\ u # 0 /\ c + n \in 0..m /\ n \in 0..m BY DEF IsDecay
  <1>3. qc \in Nat /\ qn \in Nat /\ qs \in Nat BY <1>2
  <1>4. qc <= u
    <2>1. 0 \in 0..m /\ c \in 0..(m - 0) /\ 0 + c = c BY <1>2
    <2> QED BY <2>1, DecayFalls
  <1>5. qc * qn = qs * u BY DecaysMultiply
  <1>6. D \in 0..P /\ 2 * (X - A) \in -d..d BY DEF IsPart, Near
  <1>7. 2 * (Y - B) \in -e..e BY DEF Tracks, Near
  <1>8. rate * D \in Nat BY <1>1, <1>6, NatProduct
  <1>9. z \in Nat /\ z * P <= rate * D /\ rate * D < z * P + P
    BY <1>1, <1>8, QuotientBounds, QuotientNat
  <1>10. r \in 0..P /\ rate \in 0..P OBVIOUS
  <1>11. /\ A = P * qn /\ B = r * qc /\ C = r * qs /\ M = P * u /\ X = D * u /\ Y = rate * u
         /\ Z = z * u /\ d = n * u /\ e = (c + 2 * k) * u
    OBVIOUS
  <1> HIDE DEF P, u, z, qc, qn, qs, A, B, C, M, X, Y, Z, d, e
  <1>12. /\ A \in Nat /\ B \in Nat /\ C \in Nat /\ M \in Nat /\ X \in Nat /\ Y \in Nat /\ Z \in Nat
         /\ d \in Nat /\ e \in Nat
    BY <1>1, <1>2, <1>3, <1>6, <1>9, <1>10, <1>11, NatProduct
  <1>13. M # 0 BY <1>1, <1>2, <1>11, Z3
  <1>14. X \in 0..M /\ B \in 0..M
    <2>1. D * u <= P * u BY <1>1, <1>2, <1>6, Z3
    <2>2. r * qc <= P * u
      <3>1. r * qc <= r * u BY <1>2, <1>3, <1>4, <1>10, ProductBounds
      <3>2. r * u <= P * u BY <1>1, <1>2, <1>10, Z3
      <3>3. r * qc \in Nat /\ r * u \in Nat /\ P * u \in Nat BY <1>1, <1>2, <1>3, <1>10, NatProduct
      <3> QED BY <3>1, <3>2, <3>3
    <2> QED BY <1>11, <1>12, <2>1, <2>2
  <1>15. 2 * (X * Y - A * B) \in -(M * (d + e))..(M * (d + e))
    BY <1>6, <1>7, <1>12, <1>14, NearProduct
  <1>16. A * B = C * M
    <2>1. (P * qn) * (r * qc) = (P * r) * (qc * qn) BY <1>1, <1>3, <1>10, Z3
    <2>2. (P * r) * (qs * u) = (r * qs) * (P * u) BY <1>1, <1>2, <1>3, <1>10, Z3
    <2> QED BY <1>5, <1>11, <2>1, <2>2
  <1>17. 2 * (X * Y - Z * M) \in 0..(2 * (M * u))
    <2> DEFINE w == rate * D - z * P
               uu == u * u
    <2>1. w \in 0..P
      <3>1. z * P \in Nat BY <1>1, <1>9, NatProduct
      <3> QED BY <1>1, <1>8, <1>9, <3>1
    <2>2. X * Y - Z * M = w * uu BY <1>1, <1>2, <1>6, <1>9, <1>10, <1>11, Z3
    <2>3. uu \in Nat BY <1>2, NatProduct
    <2>4. M * u = P * uu BY <1>1, <1>2, <1>11, Z3
    <2> HIDE DEF w, uu
    <2>5. w * uu \in Nat /\ w * uu <= P * uu /\ P * uu \in Nat
      <3>1. uu * w <= uu * P BY <1>1, <2>1, <2>3, ProductBounds
      <3>2. uu * w = w * uu /\ uu * P = P * uu BY <1>1, <2>1, <2>3, Z3
      <3> QED BY <1>1, <2>1, <2>3, <3>1, <3>2, NatProduct
    <2> QED BY <2>2, <2>4, <2>5
  <1> DEFINE g == d + e + 2 * u
             XY == X * Y
             ZM == Z * M
             CM == C * M
             Mu == M * u
             Mde == M * (d + e)
  <1>18. M * g = Mde + 2 * Mu /\ Mde \in Nat /\ Mu \in Nat /\ XY \in Nat /\ ZM \in Nat /\ CM \in Nat
    <2>1. d + e \in Nat BY <1>12
    <2>2. M * (d + e + 2 * u) = M * (d + e) + 2 * (M * u) BY <1>2, <1>12, Z3
    <2> QED BY <1>2, <1>12, <2>1, <2>2, NatProduct
  <1>19. 2 * (XY - CM) \in -Mde..Mde /\ 2 * (XY - ZM) \in 0..(2 * Mu) BY <1>15, <1>16, <1>17
  <1> HIDE DEF XY, ZM, CM, Mu, Mde
  <1>20. 2 * (ZM - CM) \in -(Mde + 2 * Mu)..(Mde + 2 * Mu) BY <1>18, <1>19
  <1>21. 2 * (Z - C) \in -g..g
    <2>1. g \in Nat /\ 2 * (Z - C) \in Int BY <1>2, <1>12
    <2>2. (2 * (Z - C)) * M = 2 * (ZM - CM) BY <1>12, Z3 DEF ZM, CM
    <2>3. g * M = M * g /\ (-g) * M = -(M * g)
      <3> HIDE DEF g
      <3> QED BY <1>12, <2>1, Z3
    <2>4. (2 * (Z - C)) * M <= g * M /\ (-g) * M <= (2 * (Z - C)) * M
      BY <1>18, <1>20, <2>2, <2>3
    <2> DEFINE t == 2 * (Z - C)
    <2>5. t \in Int /\ t * M <= g * M /\ (-g) * M <= t * M BY <2>1, <2>4
    <2>6. M \in Nat \ {0} /\ -g \in Int /\ g \in Int BY <1>12, <1>13, <2>1
    <2> HIDE DEF t, g
    <2>7. t <= g /\ -g <= t BY <2>5, <2>6, CancelFactor
    <2> QED BY <2>5, <2>6, <2>7 DEF t
  <1>22. g = ((c + n) + 2 * (k + 1)) * u
    <2>1. n * u + (c + 2 * k) * u + 2 * u = ((c + n) + 2 * (k + 1)) * u BY <1>2, Z3
    <2> QED BY <1>11, <2>1
  <1> QED BY <1>21, <1>22 DEF Tracks, Near, P, u, z, qs, Z, C

-----------------------------------------------------------------------------
(* The minutes that count.                                                 *)

\* c minutes have counted in the given time: none twice, but for the one it
\* started in, and at least every second one.
Counted(c, time) ==
  /\ SECONDS_IN_ONE_MINUTE * c < time + SECONDS_IN_ONE_MINUTE
  /\ time <= 2 * (SECONDS_IN_ONE_MINUTE * c)

LEMMA Minute == SECONDS_IN_ONE_MINUTE \in Nat /\ SECONDS_IN_ONE_MINUTE >= 1
  BY BaseRateAssumption

\* After c counted minutes, n whole ones pass.
LEMMA CountedMinutes ==
  ASSUME NEW c \in Nat, NEW time \in Int, NEW passed \in Nat, Counted(c, time),
         NEW n, n = passed \div SECONDS_IN_ONE_MINUTE, time + passed \in Nat,
         NEW m, m = (time + passed) \div SECONDS_IN_ONE_MINUTE
  PROVE  /\ n \in Nat /\ m \in Nat /\ c + n <= m + 1 /\ m <= 2 * c + n
         /\ n >= 1 => Counted(c + n, time + passed)
  <1> DEFINE S == SECONDS_IN_ONE_MINUTE
             Sc == S * c
             Sn == S * n
             Sm == S * m
             all == time + passed
  <1>1. S \in Nat /\ S >= 1 /\ S # 0 BY Minute
  <1>2. Sc < time + S /\ time <= 2 * Sc BY DEF Counted
  <1> HIDE DEF S
  <1>3. n \in Nat /\ n * S <= passed /\ passed < n * S + S
    BY <1>1, QuotientBounds, QuotientNat DEF S
  <1>4. m \in Nat /\ m * S <= all /\ all < m * S + S
    BY <1>1, QuotientBounds, QuotientNat DEF S
  <1>5. n * S = Sn /\ m * S = Sm /\ Sc \in Nat /\ Sn \in Nat /\ Sm \in Nat /\ all \in Nat
    BY <1>1, <1>3, <1>4, NatProduct, Z3
  <1>6. S * (c + n) = Sc + Sn BY <1>1, <1>3, Z3
  <1>7. c + n <= m + 1
    <2>1. CASE c + n >= m + 2
      <3>1. S * (m + 2) <= S * (c + n) BY <1>1, <1>3, <1>4, <2>1, ProductBounds
      <3>2. S * (m + 2) = Sm + 2 * S BY <1>1, <1>4, Z3
      <3> HIDE DEF Sc, Sn, Sm
      <3> QED BY <1>1, <1>2, <1>3, <1>4, <1>5, <1>6, <3>1, <3>2
    <2> QED BY <1>3, <1>4, <2>1
  <1>8. m <= 2 * c + n
    <2>1. CASE m >= 2 * c + n + 1
      <3>1. S * (2 * c + n + 1) <= S * m BY <1>1, <1>3, <1>4, <2>1, ProductBounds
      <3>2. S * (2 * c + n + 1) = 2 * Sc + Sn + S BY <1>1, <1>3, Z3
      <3> HIDE DEF Sc, Sn, Sm
      <3>3. Sm = S * m BY DEF Sm
      <3> QED BY <1>1, <1>2, <1>3, <1>4, <1>5, <3>1, <3>2, <3>3
    <2> QED BY <1>3, <1>4, <2>1
  <1>9. ASSUME n >= 1 PROVE Counted(c + n, all)
    <2>1. S * 1 <= S * n /\ S * 1 = S BY <1>1, <1>3, <1>9, ProductBounds
    <2>2. S <= Sn BY <2>1
    <2> HIDE DEF Sc, Sn, Sm
    <2>3. Sc + Sn < all + S /\ all <= 2 * (Sc + Sn) BY <1>1, <1>2, <1>3, <1>5, <2>2
    <2> QED BY <1>6, <2>3 DEF Counted, S
  <1> QED BY <1>3, <1>4, <1>7, <1>8, <1>9

-----------------------------------------------------------------------------
(* What the bounds of DecaysInStep are of.                                 *)

After(r, n) == (r * DecPow(MINUTE_DECAY_FACTOR, n)) \div DECIMAL_PRECISION

LEMMA AfterTracks ==
  ASSUME NEW m \in Nat, NEW q, IsDecay(q, m), NEW n \in 0..m, NEW r \in 0..DECIMAL_PRECISION
  PROVE  Tracks(q, After(r, n), r, n, 1)
  <1>1. IsPart(q, DecPow(MINUTE_DECAY_FACTOR, n), n, n) BY DecPowIsPart
  <1>2. r \in Nat /\ 0 \in Nat /\ 0 \in 0..m /\ n \in 0..(m - 0) /\ 0 + n = n /\ 0 + 1 = 1
    BY DecayConstants
  <1>3. Tracks(q, r, r, 0, 0) BY <1>2, TracksFresh
  <1>4. Tracks(q, After(r, n), r, 0 + n, 0 + 1)
    BY <1>1, <1>2, <1>3, TracksDecayed DEF After
  <1> QED BY <1>2, <1>4

\* The division rounds down.
LEMMA AfterBelow ==
  ASSUME NEW m \in Nat, NEW q, IsDecay(q, m), NEW n \in 0..m, NEW r \in 0..DECIMAL_PRECISION
  PROVE  /\ After(r, n) \in Nat
         /\ 2 * (After(r, n) * q[0]) <= 2 * (r * q[n]) + n * q[0]
  <1> DEFINE P == DECIMAL_PRECISION
             D == DecPow(MINUTE_DECAY_FACTOR, n)
             u == q[0]
             v == q[n]
             z == After(r, n)
             X == D * u
             A == P * v
             nu == n * u
  <1>1. P \in Nat /\ P >= 1 /\ P # 0 BY DecayConstants
  <1>2. u \in Nat /\ v \in Nat BY DEF IsDecay
  <1>3. D \in 0..P /\ 2 * (X - A) \in -nu..nu
    <2>1. IsPart(q, D, n, n) BY DecPowIsPart
    <2> QED BY <2>1 DEF IsPart, Near
  <1>4. z = (r * D) \div P BY DEF After
  <1>5. r \in 0..P OBVIOUS
  <1> HIDE DEF P, D, u, v, z
  <1>6. r * D \in Nat BY <1>1, <1>3, <1>5, NatProduct
  <1>7. z \in Nat /\ z * P <= r * D BY <1>1, <1>4, <1>6, QuotientBounds, QuotientNat
  <1> DEFINE zu == z * u
             rv == r * v
             rDu == r * X
  <1>8. /\ X \in Nat /\ A \in Nat /\ nu \in Nat /\ zu \in Nat /\ rv \in Nat /\ rDu \in Nat
        /\ z * P \in Nat
    BY <1>1, <1>2, <1>3, <1>5, <1>7, NatProduct
  <1>9. zu * P <= rDu
    <2>1. u * (z * P) <= u * (r * D) BY <1>2, <1>6, <1>7, <1>8, ProductBounds
    <2>2. u * (z * P) = zu * P /\ u * (r * D) = rDu BY <1>1, <1>2, <1>3, <1>5, <1>7, Z3
    <2> QED BY <2>1, <2>2
  <1>10. 2 * rDu <= (2 * rv + nu) * P
    <2> HIDE DEF X, nu
    <2>1. 2 * X <= 2 * A + nu BY <1>3, <1>8
    <2>2. r * (2 * X) <= r * (2 * A + nu) BY <1>1, <1>5, <1>8, <2>1, ProductBounds
    <2>3. r * (2 * X) = 2 * rDu /\ r * (2 * A + nu) = 2 * (rv * P) + r * nu
      BY <1>1, <1>2, <1>5, <1>8, Z3
    <2>4. r * nu <= P * nu BY <1>1, <1>5, <1>8, Z3
    <2>5. (2 * rv + nu) * P = 2 * (rv * P) + P * nu BY <1>1, <1>8, Z3
    <2>6. r * nu \in Nat /\ P * nu \in Nat /\ rv * P \in Nat BY <1>1, <1>5, <1>8, NatProduct
    <2> HIDE DEF rv, rDu
    <2> QED BY <1>8, <2>2, <2>3, <2>4, <2>5, <2>6
  <1>11. 2 * zu <= 2 * rv + nu
    <2> HIDE DEF zu, rv, rDu, nu
    <2>1. zu * P \in Nat /\ (2 * zu) * P = 2 * (zu * P) BY <1>1, <1>8, Z3
    <2> DEFINE a == 2 * zu
               b == 2 * rv + nu
    <2>2. b * P \in Nat BY <1>1, <1>8, NatProduct
    <2>3. a * P <= b * P BY <1>8, <1>9, <1>10, <2>1, <2>2
    <2>4. a \in Int /\ b \in Int /\ P \in Nat \ {0} BY <1>1, <1>8
    <2> HIDE DEF a, b
    <2>5. a <= b BY <2>3, <2>4, CancelFactor
    <2> QED BY <2>5 DEF a, b
  <1> QED BY <1>7, <1>11 DEF z, u, v

-----------------------------------------------------------------------------
(* The base rate since the last redemption.                                *)

ExactDecay == CHOOSE q : IsDecay(q, MaxTime + 1)

LEMMA ExactDecayIs == MaxTime + 1 \in Nat /\ IsDecay(ExactDecay, MaxTime + 1)
  <1>1. MaxTime + 1 \in Nat BY RatesAssumption
  <1>2. \E q : IsDecay(q, MaxTime + 1) BY <1>1, DecayExists
  <1> QED BY <1>1, <1>2 DEF ExactDecay

\* Of the time since the last redemption, a number of minutes has counted by
\* the last of the fee operations, and the rate shows them.
DecayedFrom(rate, last, start, k) ==
  \E c \in Nat : Counted(c, last - start.at) /\ Tracks(ExactDecay, rate, start.rate, c, k)

DecayHistory ==
  /\ now <= MaxTime
  /\ raised.at <= now /\ raised.rate <= DECIMAL_PRECISION
  /\ DecayedFrom(baseRate, lastFeeOperationTime, raised, calls)

LEMMA QuotientSmaller ==
  ASSUME NEW n \in Nat, NEW d \in Nat, d >= 1 PROVE n \div d \in 0..n
  <1>1. d # 0 OBVIOUS
  <1>2. n \div d \in Nat /\ (n \div d) * d <= n BY <1>1, QuotientBounds, QuotientNat
  <1>3. (n \div d) * 1 <= (n \div d) * d BY <1>2, ProductBounds
  <1> QED BY <1>2, <1>3

HistoryTypes ==
  /\ now \in Nat /\ lastFeeOperationTime \in 0..now /\ calls \in Nat
  /\ baseRate \in 0..DECIMAL_PRECISION
  /\ raised.rate \in 0..DECIMAL_PRECISION /\ raised.at \in 0..now /\ now <= MaxTime
  /\ MaxTime \in Nat

LEMMA HistoryTyped == ASSUME TypeOK, DecayHistory PROVE HistoryTypes
  <1>1. now \in Nat /\ MaxTime \in Nat /\ calls \in Nat BY RatesAssumption DEF TypeOK, DebtTypeOK
  <1>2. raised.rate \in Nat /\ raised.at \in Nat BY DEF TypeOK
  <1> QED BY <1>1, <1>2, DecayConstants DEF HistoryTypes, DecayHistory, TypeOK

\* The rate that a fee operation finds.
LEMMA DecaysFurther ==
  ASSUME TypeOK, DecayHistory,
         NEW n, n = TimePassed \div SECONDS_IN_ONE_MINUTE,
         NEW m, m = (now - raised.at) \div SECONDS_IN_ONE_MINUTE
  PROVE  \E c \in Nat :
           /\ n \in Nat /\ m \in 0..MaxTime /\ c + n <= m + 1 /\ m <= 2 * c + n
           /\ Counted(c, lastFeeOperationTime - raised.at)
           /\ n >= 1 => Counted(c + n, now - raised.at)
           /\ Tracks(ExactDecay, DecayedBaseRate, raised.rate, c + n, calls + 1)
  <1>1. HistoryTypes BY HistoryTyped
  <1>2. PICK c \in Nat : /\ Counted(c, lastFeeOperationTime - raised.at)
                         /\ Tracks(ExactDecay, baseRate, raised.rate, c, calls)
    BY DEF DecayHistory, DecayedFrom
  <1> DEFINE time == lastFeeOperationTime - raised.at
             passed == now - lastFeeOperationTime
             r == raised.rate
             D == DecPow(MINUTE_DECAY_FACTOR, n)
             N == MaxTime + 1
  <1>3. time \in Int /\ passed \in Nat /\ time + passed = now - raised.at /\ time + passed \in Nat
    BY <1>1 DEF HistoryTypes
  <1>4. n = passed \div SECONDS_IN_ONE_MINUTE BY DEF TimePassed
  <1>5. m = (time + passed) \div SECONDS_IN_ONE_MINUTE BY <1>3
  <1>6. Counted(c, time) BY <1>2
  <1> HIDE DEF time, passed
  <1>7. /\ n \in Nat /\ m \in Nat /\ c + n <= m + 1 /\ m <= 2 * c + n
        /\ n >= 1 => Counted(c + n, time + passed)
    BY <1>3, <1>4, <1>5, <1>6, CountedMinutes
  <1>8. m <= MaxTime
    <2>1. time + passed <= MaxTime BY <1>1, <1>3 DEF HistoryTypes
    <2>2. m \in 0..(time + passed) BY <1>3, <1>5, Minute, QuotientSmaller
    <2> QED BY <1>1, <1>3, <2>1, <2>2 DEF HistoryTypes
  <1>9. N \in Nat /\ IsDecay(ExactDecay, N) BY ExactDecayIs
  <1>10. c \in 0..N /\ n \in 0..(N - c) /\ n \in 0..N BY <1>1, <1>7, <1>8 DEF HistoryTypes
  <1> HIDE DEF N
  <1>11. IsPart(ExactDecay, D, n, n) BY <1>9, <1>10, DecPowIsPart
  <1>12. r \in 0..DECIMAL_PRECISION /\ baseRate \in 0..DECIMAL_PRECISION /\ calls \in Nat
    BY <1>1 DEF HistoryTypes
  <1>13. Tracks(ExactDecay, baseRate, r, c, calls) BY <1>2
  <1>14. DecayedBaseRate = (baseRate * D) \div DECIMAL_PRECISION BY DEF DecayedBaseRate
  <1> HIDE DEF D, r
  <1>15. Tracks(ExactDecay, DecayedBaseRate, r, c + n, calls + 1)
    BY <1>9, <1>10, <1>11, <1>12, <1>13, <1>14, TracksDecayed
  <1> QED BY <1>2, <1>3, <1>7, <1>8, <1>15 DEF r

-----------------------------------------------------------------------------
LEMMA HistoryInit == Init => DecayHistory
  <1> SUFFICES ASSUME Init PROVE DecayHistory
    OBVIOUS
  <1>1. /\ now = 0 /\ calls = 0 /\ baseRate = 0 /\ lastFeeOperationTime = 0
        /\ raised.rate = 0 /\ raised.at = 0
    BY DEF Init, InitFees
  <1>2. Counted(0, 0) BY Minute DEF Counted
  <1>3. Tracks(ExactDecay, 0, 0, 0, 0) BY ExactDecayIs, TracksFresh
  <1>4. 0 - 0 = 0 /\ 0 \in Nat OBVIOUS
  <1>5. DecayedFrom(baseRate, lastFeeOperationTime, raised, calls)
    BY <1>1, <1>2, <1>3, <1>4 DEF DecayedFrom
  <1> QED BY <1>1, <1>5, RatesAssumption, DecayConstants DEF DecayHistory

\* Other calls write no rate; the bound grows with each.
LEMMA HistoryOfOthers ==
  ASSUME TypeOK, DecayHistory, UNCHANGED <<now, feeVars>>, calls' = calls + 1
  PROVE  DecayHistory'
  <1>1. HistoryTypes BY HistoryTyped
  <1>2. PICK n, m : /\ n = TimePassed \div SECONDS_IN_ONE_MINUTE
                    /\ m = (now - raised.at) \div SECONDS_IN_ONE_MINUTE
    OBVIOUS
  <1>3. PICK c \in Nat : /\ Counted(c, lastFeeOperationTime - raised.at)
                         /\ Tracks(ExactDecay, baseRate, raised.rate, c, calls)
    BY DEF DecayHistory, DecayedFrom
  <1>4. Tracks(ExactDecay, baseRate, raised.rate, c, calls + 1)
    <2>1. c <= MaxTime + 1
      <3>1. now - raised.at \in Nat /\ raised.at \in Int /\ lastFeeOperationTime \in Int
            /\ now \in Nat
        BY <1>1 DEF HistoryTypes
      <3>2. CASE c >= 1
        <4> DEFINE S == SECONDS_IN_ONE_MINUTE
        <4>1. S * c < (lastFeeOperationTime - raised.at) + S /\ S \in Nat /\ S >= 1
          BY <1>3, Minute DEF Counted
        <4> HIDE DEF S
        <4>2. (c - 1) * 1 <= (c - 1) * S /\ S * c = (c - 1) * S + S /\ (c - 1) * S \in Nat
          <5>1. c - 1 \in Nat BY <3>2
          <5> QED BY <4>1, <5>1, Z3
        <4> QED BY <1>1, <3>1, <4>1, <4>2 DEF HistoryTypes
      <3> QED BY <1>1, <3>2 DEF HistoryTypes
    <2>2. c \in 0..(MaxTime + 1) /\ baseRate \in Nat /\ raised.rate \in Nat /\ calls \in Nat
          /\ calls + 1 \in Nat /\ calls <= calls + 1
      BY <1>1, <2>1, DecayConstants DEF HistoryTypes
    <2> QED BY <1>3, <2>2, ExactDecayIs, TracksLonger
  <1>5. DecayedFrom(baseRate, lastFeeOperationTime, raised, calls + 1)
    BY <1>3, <1>4 DEF DecayedFrom
  <1>6. /\ baseRate' = baseRate /\ lastFeeOperationTime' = lastFeeOperationTime
        /\ raised' = raised /\ now' = now
    BY DEF feeVars
  <1> QED BY <1>5, <1>6 DEF DecayHistory

LEMMA HistoryOfBorrowing ==
  ASSUME TypeOK, DecayHistory, DecayBaseRateFromBorrowing, now' = now, calls' = calls + 1
  PROVE  DecayHistory'
  <1>1. HistoryTypes BY HistoryTyped
  <1>2. PICK n, m : /\ n = TimePassed \div SECONDS_IN_ONE_MINUTE
                    /\ m = (now - raised.at) \div SECONDS_IN_ONE_MINUTE
    OBVIOUS
  <1>3. PICK c \in Nat :
           /\ n \in Nat /\ m \in 0..MaxTime /\ c + n <= m + 1 /\ m <= 2 * c + n
           /\ Counted(c, lastFeeOperationTime - raised.at)
           /\ n >= 1 => Counted(c + n, now - raised.at)
           /\ Tracks(ExactDecay, DecayedBaseRate, raised.rate, c + n, calls + 1)
    BY <1>2, DecaysFurther
  <1>4. baseRate' = DecayedBaseRate /\ raised' = raised /\ UpdateLastFeeOpTime
    BY DEF DecayBaseRateFromBorrowing
  <1>5. c + n \in Nat BY <1>3
  <1>6. Counted(c + n, lastFeeOperationTime' - raised.at)
    <2> DEFINE S == SECONDS_IN_ONE_MINUTE
    <2>1. S \in Nat /\ S >= 1 /\ S # 0 /\ TimePassed \in Nat
      BY <1>1, Minute DEF HistoryTypes, TimePassed
    <2>2. n * S <= TimePassed /\ TimePassed < n * S + S
      BY <1>2, <2>1, QuotientBounds
    <2>3. CASE n = 0
      <3>1. TimePassed < S BY <2>1, <2>2, <2>3
      <3>2. lastFeeOperationTime' = lastFeeOperationTime
        BY <1>4, <2>1, <3>1 DEF UpdateLastFeeOpTime
      <3>3. c + n = c BY <2>3
      <3> QED BY <1>3, <3>2, <3>3
    <2>4. CASE n # 0
      <3>1. n >= 1 BY <1>3, <2>4
      <3>2. TimePassed >= S
        <4> HIDE DEF S
        <4>1. S * 1 <= S * n /\ S * n = n * S /\ n * S \in Nat
          BY <1>3, <2>1, <3>1, Z3
        <4> QED BY <2>1, <2>2, <4>1
      <3>3. lastFeeOperationTime' = now BY <1>4, <3>2 DEF UpdateLastFeeOpTime
      <3> QED BY <1>3, <3>1, <3>3
    <2> QED BY <2>3, <2>4
  <1>7. DecayedFrom(DecayedBaseRate, lastFeeOperationTime', raised, calls + 1)
    <2>1. PICK l : l = lastFeeOperationTime' OBVIOUS
    <2>2. Counted(c + n, l - raised.at) BY <1>6, <2>1
    <2>3. DecayedFrom(DecayedBaseRate, l, raised, calls + 1)
      BY <1>3, <1>5, <2>2 DEF DecayedFrom
    <2> QED BY <2>1, <2>3
  <1> QED BY <1>4, <1>7 DEF DecayHistory

LEMMA HistoryOfRedeeming ==
  ASSUME TypeOK, DecayHistory, NEW value, NEW total, UpdateBaseRateFromRedemption(value, total),
         now' = now, calls' = calls + 1
  PROVE  DecayHistory'
  <1>1. HistoryTypes BY HistoryTyped
  <1>2. PICK rate \in 1..DECIMAL_PRECISION :
          baseRate' = rate /\ raised' = [rate |-> rate, at |-> now] /\ UpdateLastFeeOpTime
    BY DEF UpdateBaseRateFromRedemption
  <1>3. raised'.rate = rate /\ raised'.at = now BY <1>2
  <1>4. PICK l : l = lastFeeOperationTime' OBVIOUS
  <1>5. Counted(0, l - now)
    <2> DEFINE S == SECONDS_IN_ONE_MINUTE
    <2>1. S \in Nat /\ S >= 1 BY Minute
    <2>2. S * 0 = 0 BY <2>1
    <2>3. l \in Int /\ l <= now /\ now - l < S
      <3>1. now \in Nat /\ lastFeeOperationTime \in 0..now BY <1>1 DEF HistoryTypes
      <3>2. CASE TimePassed >= S
        BY <1>2, <1>4, <2>1, <3>1, <3>2 DEF UpdateLastFeeOpTime
      <3>3. CASE ~(TimePassed >= S)
        BY <1>2, <1>4, <2>1, <3>1, <3>3 DEF UpdateLastFeeOpTime, TimePassed
      <3> QED BY <3>2, <3>3
    <2>4. now \in Nat BY <1>1 DEF HistoryTypes
    <2> HIDE DEF S
    <2>5. S * 0 < (l - now) + S /\ l - now <= 2 * (S * 0) BY <2>1, <2>2, <2>3, <2>4
    <2> QED BY <2>5 DEF Counted, S
  <1>6. Tracks(ExactDecay, rate, rate, 0, calls + 1)
    <2>1. rate \in Nat /\ calls + 1 \in Nat BY <1>1, DecayConstants DEF HistoryTypes
    <2> QED BY <2>1, ExactDecayIs, TracksFresh
  <1>7. PICK start : start = raised' OBVIOUS
  <1>8. DecayedFrom(rate, l, start, calls + 1)
    <2>1. 0 \in Nat /\ Counted(0, l - start.at) /\ Tracks(ExactDecay, rate, start.rate, 0, calls + 1)
      BY <1>3, <1>5, <1>6, <1>7
    <2> QED BY <2>1 DEF DecayedFrom
  <1>9. DecayedFrom(baseRate', lastFeeOperationTime', raised', calls')
    BY <1>2, <1>4, <1>7, <1>8
  <1>10. now' <= MaxTime /\ raised'.at <= now' /\ raised'.rate <= DECIMAL_PRECISION
    BY <1>1, <1>2, <1>3, DecayConstants DEF HistoryTypes
  <1> QED BY <1>9, <1>10 DEF DecayHistory

LEMMA HistoryKept == TypeOK /\ DecayHistory /\ [Next]_vars => DecayHistory'
  <1> SUFFICES ASSUME TypeOK, DecayHistory, [Next]_vars PROVE DecayHistory'
    OBVIOUS
  <1>1. ASSUME NEW minted, NEW burned, Settle(minted, burned) PROVE now' = now /\ calls' = calls + 1
    BY <1>1 DEF Settle
  <1>2. ASSUME NEW o \in Owners, NEW amount \in Loans, BorrowInNormalMode(o, amount)
        PROVE  DecayHistory'
    <2>1. DecayBaseRateFromBorrowing /\ now' = now /\ calls' = calls + 1
      BY <1>2 DEF BorrowInNormalMode, Borrow, Settle
    <2> QED BY <2>1, HistoryOfBorrowing
  <1>3. ASSUME NEW o \in Owners, NEW amount \in Repayments, Redeem(o, amount)
        PROVE  DecayHistory'
    <2>1. /\ UpdateBaseRateFromRedemption(MinOf(amount, BalanceOf(o)), EntireSystemDebt)
          /\ now' = now /\ calls' = calls + 1
      BY <1>3 DEF Redeem, Settle
    <2> QED BY <2>1, HistoryOfRedeeming
  <1>4. ASSUME NEW o \in Owners,
               \/ \E amount \in Loans : BorrowInRecoveryMode(o, amount)
               \/ \E amount \in Repayments : Repay(o, amount)
               \/ CloseTrove(o) \/ Liquidate(o) \/ ApplyPendingRewards(o)
        PROVE  DecayHistory'
    <2>1. UNCHANGED <<now, feeVars>> /\ calls' = calls + 1
      BY <1>4 DEF BorrowInRecoveryMode, Borrow, Repay, CloseTrove, Liquidate, ApplyPendingRewards, Settle
    <2> QED BY <2>1, HistoryOfOthers
  <1>5. CASE Tick
    <2>1. now < MaxTime /\ now' = now + 1 /\ UNCHANGED feeVars /\ calls' = calls BY <1>5 DEF Tick
    <2>2. HistoryTypes BY HistoryTyped
    <2>3. now' <= MaxTime /\ raised.at <= now' BY <2>1, <2>2 DEF HistoryTypes
    <2> QED BY <2>1, <2>3 DEF DecayHistory, feeVars
  <1>6. CASE UNCHANGED vars
    BY <1>6 DEF vars, feeVars, DecayHistory
  <1> QED BY <1>2, <1>3, <1>4, <1>5, <1>6 DEF Next

-----------------------------------------------------------------------------
\* Of two rates that each are near what their minutes leave of r, the one with
\* fewer minutes is the larger, but for what they are off.
LEMMA RatesCompare ==
  ASSUME NEW u \in Nat, u # 0, NEW x \in Int, NEW y \in Int, NEW v \in Int, NEW w \in Int,
         NEW d \in Nat, NEW e \in Nat,
         2 * (x * u) <= 2 * v + d * u, v <= w, 2 * w <= 2 * (y * u) + e * u
  PROVE  2 * (x - y) <= d + e
  <1> DEFINE a == 2 * (x - y)
             b == d + e
  <1>1. a * u = 2 * (x * u) - 2 * (y * u) /\ b * u = d * u + e * u
        /\ x * u \in Int /\ y * u \in Int /\ d * u \in Int /\ e * u \in Int
    BY Z3
  <1>2. a \in Int /\ b \in Int OBVIOUS
  <1> HIDE DEF a, b
  <1>3. a * u <= b * u BY <1>1
  <1>4. a <= b BY <1>2, <1>3, CancelFactor
  <1> QED BY <1>4 DEF a, b

LEMMA TracksBounds ==
  ASSUME NEW N \in Nat, NEW q, IsDecay(q, N), NEW x \in Int, NEW r \in Nat, NEW c \in 0..N,
         NEW k \in Nat, Tracks(q, x, r, c, k)
  PROVE  /\ 2 * (x * q[0]) <= 2 * (r * q[c]) + (c + 2 * k) * q[0]
         /\ 2 * (r * q[c]) <= 2 * (x * q[0]) + (c + 2 * k) * q[0]
  <1> DEFINE X == x * q[0]
             R == r * q[c]
             E == (c + 2 * k) * q[0]
  <1>1. q[0] \in Nat /\ q[c] \in Nat BY DEF IsDecay
  <1>2. X \in Int /\ R \in Int /\ E \in Int
    <2> DEFINE u == q[0]
               v == q[c]
    <2> HIDE DEF u, v
    <2>1. u \in Nat /\ v \in Nat BY <1>1 DEF u, v
    <2>2. x * u \in Int /\ r * v \in Int /\ (c + 2 * k) * u \in Int BY <2>1, Z3
    <2> QED BY <2>2 DEF u, v
  <1>3. 2 * (X - R) \in -E..E BY DEF Tracks, Near
  <1> HIDE DEF X, R, E
  <1>4. 2 * X <= 2 * R + E /\ 2 * R <= 2 * X + E BY <1>2, <1>3
  <1> QED BY <1>4 DEF X, R, E

\* r * q[c] falls with c.
LEMMA PartsFall ==
  ASSUME NEW N \in Nat, NEW q, IsDecay(q, N), NEW r \in Nat, NEW c \in 0..N, NEW d \in c..N
  PROVE  r * q[d] <= r * q[c] /\ r * q[d] \in Nat /\ r * q[c] \in Nat
  <1>1. d - c \in 0..(N - c) /\ c + (d - c) = d /\ d \in 0..N OBVIOUS
  <1>2. q[d] <= q[c] BY <1>1, DecayFalls
  <1>3. q[c] \in Nat /\ q[d] \in Nat BY <1>1 DEF IsDecay
  <1> QED BY <1>2, <1>3, ProductBounds, NatProduct

LEMMA InStepWhenTracked == TypeOK /\ DecayHistory => DecaysInStep
  <1> SUFFICES ASSUME TypeOK, DecayHistory PROVE DecaysInStep
    OBVIOUS
  <1> DEFINE n == TimePassed \div SECONDS_IN_ONE_MINUTE
             m == (now - raised.at) \div SECONDS_IN_ONE_MINUTE
             h == m \div 2
             r == raised.rate
             N == MaxTime + 1
             q == ExactDecay
             u == q[0]
             x == DecayedBaseRate
             k == calls + 1
             lo == After(r, m + 1)
             hi == After(r, h)
  <1>1. HistoryTypes BY HistoryTyped
  <1>2. PICK c \in Nat :
           /\ n \in Nat /\ m \in 0..MaxTime /\ c + n <= m + 1 /\ m <= 2 * c + n
           /\ Tracks(q, x, r, c + n, k)
    <2> HIDE DEF n, m, q, x, r
    <2> QED BY DecaysFurther DEF n, m, q, x, r
  <1>3. N \in Nat /\ IsDecay(q, N) BY ExactDecayIs
  <1>4. r \in 0..DECIMAL_PRECISION /\ r \in Nat /\ k \in Nat /\ calls \in Nat /\ MaxTime \in Nat
    BY <1>1, DecayConstants DEF HistoryTypes
  <1>5. u \in Nat /\ u # 0 BY <1>3 DEF IsDecay
  <1>6. x \in Int
    <2>1. n \in 0..N BY <1>2, <1>4
    <2> HIDE DEF n, q, N
    <2>2. IsPart(q, DecPow(MINUTE_DECAY_FACTOR, n), n, n) BY <1>3, <2>1, DecPowIsPart
    <2> DEFINE D == DecPow(MINUTE_DECAY_FACTOR, n)
    <2>3. D \in Nat BY <2>2, DecayConstants DEF IsPart
    <2>4. x = (baseRate * D) \div DECIMAL_PRECISION BY DEF DecayedBaseRate, n
    <2> HIDE DEF D, x
    <2>5. baseRate \in Nat BY <1>1, DecayConstants DEF HistoryTypes
    <2>6. baseRate * D \in Nat BY <2>3, <2>5, NatProduct
    <2> QED BY <2>4, <2>6, DecayConstants, QuotientBounds
  <1>7. h \in Nat /\ 2 * h <= m
    <2>1. m \in Nat BY <1>2, <1>4
    <2> HIDE DEF m
    <2> QED BY <2>1, Z3
  <1> HIDE DEF n, m, h, r, N, q, x, k, lo, hi
  <1> DEFINE C == c + n
  <1>8. C \in 0..N /\ m + 1 \in C..N /\ h \in 0..N /\ C \in h..N /\ m \in Nat /\ m + 1 \in 0..N
    BY <1>2, <1>4, <1>7 DEF N
  <1>9. Tracks(q, x, r, C, k) BY <1>2
  <1> HIDE DEF C
  <1> DEFINE v == r * q[C]
             vl == r * q[m + 1]
             vh == r * q[h]
  <1>10. /\ vl <= v /\ v <= vh /\ v \in Int /\ vl \in Int /\ vh \in Int
    BY <1>3, <1>4, <1>8, PartsFall
  <1>11. /\ 2 * (x * u) <= 2 * v + (C + 2 * k) * u
         /\ 2 * v <= 2 * (x * u) + (C + 2 * k) * u
    BY <1>3, <1>4, <1>6, <1>8, <1>9, TracksBounds
  <1>12. lo \in Nat /\ 2 * (lo * u) <= 2 * vl + (m + 1) * u
    BY <1>3, <1>4, <1>8, AfterBelow DEF lo
  <1>13. hi \in Nat /\ 2 * vh <= 2 * (hi * u) + (h + 2) * u
    <2>1. hi \in Nat /\ Tracks(q, hi, r, h, 1) BY <1>3, <1>4, <1>8, AfterBelow, AfterTracks DEF hi
    <2>2. 2 * vh <= 2 * (hi * u) + (h + 2 * 1) * u
      BY <1>3, <1>4, <1>8, <2>1, TracksBounds
    <2>3. h + 2 * 1 = h + 2 BY <1>7
    <2> QED BY <2>1, <2>2, <2>3
  <1> HIDE DEF v, vl, vh, u
  <1>14. C + 2 * k \in Nat /\ m + 1 \in Nat /\ h + 2 \in Nat BY <1>4, <1>7, <1>8
  <1>15. 2 * (lo - x) <= (m + 1) + (C + 2 * k)
    <2>1. lo \in Int BY <1>12
    <2> DEFINE d == m + 1
               e == C + 2 * k
    <2>2. d \in Nat /\ e \in Nat /\ 2 * (lo * u) <= 2 * vl + d * u /\ 2 * v <= 2 * (x * u) + e * u
      BY <1>11, <1>12, <1>14
    <2> HIDE DEF d, e
    <2>3. 2 * (lo - x) <= d + e BY <1>5, <1>6, <1>10, <2>1, <2>2, RatesCompare
    <2> QED BY <2>3 DEF d, e
  <1>16. 2 * (x - hi) <= (C + 2 * k) + (h + 2)
    <2>1. hi \in Int BY <1>13
    <2> DEFINE d == C + 2 * k
               e == h + 2
    <2>2. d \in Nat /\ e \in Nat /\ 2 * (x * u) <= 2 * v + d * u /\ 2 * vh <= 2 * (hi * u) + e * u
      BY <1>11, <1>13, <1>14
    <2> HIDE DEF d, e
    <2>3. 2 * (x - hi) <= d + e BY <1>5, <1>6, <1>10, <2>1, <2>2, RatesCompare
    <2> QED BY <2>3 DEF d, e
  <1>17. x \in (lo - (calls + m + 2))..(hi + (calls + m + 2))
    <2>1. C <= m + 1 /\ C \in Nat /\ k = calls + 1 BY <1>8 DEF k
    <2> QED BY <1>4, <1>6, <1>7, <1>8, <1>12, <1>13, <1>15, <1>16, <2>1
  <1>18. /\ lo = (raised.rate * DecPow(MINUTE_DECAY_FACTOR, m + 1)) \div DECIMAL_PRECISION
         /\ hi = (raised.rate * DecPow(MINUTE_DECAY_FACTOR, m \div 2)) \div DECIMAL_PRECISION
    BY DEF lo, hi, After, r, h
  <1>19. DecayedBaseRate \in
            ((raised.rate * DecPow(MINUTE_DECAY_FACTOR, m + 1)) \div DECIMAL_PRECISION
               - (calls + m + 2))
            ..((raised.rate * DecPow(MINUTE_DECAY_FACTOR, m \div 2)) \div DECIMAL_PRECISION
               + (calls + m + 2))
    BY <1>17, <1>18 DEF x
  <1> QED BY <1>19 DEF DecaysInStep, m

\* For any decay factor, length of a minute and clock: however the borrowers
\* time their calls, the rate that a redemption set goes down with the minutes
\* since, none counted twice but for the one it fell into and at least every
\* second one counted, up to what the powers and the writes round.
THEOREM RateAlwaysDecays == Spec => []DecaysInStep
  <1>1. Init => TypeOK /\ DecayHistory BY TypeInit, HistoryInit
  <1>2. TypeOK /\ DecayHistory /\ [Next]_vars => TypeOK' /\ DecayHistory'
    BY TypeStep, HistoryKept
  <1>3. TypeOK /\ DecayHistory => DecaysInStep BY InStepWhenTracked
  <1> QED BY <1>1, <1>2, <1>3, PTL DEF Spec
=============================================================================
