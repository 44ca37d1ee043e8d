----------------------------- MODULE TroveDebt ------------------------------
(***************************************************************************)
(* TroveDebt.sol and TroveLogic.sol: debts that bear interest.  A trove's  *)
(* debt is kept as a share of the total, scaled by an index that grows     *)
(* with time.  Every change of a debt first brings the index up to the     *)
(* present (updateState), which mints the interest accrued to the          *)
(* treasury, and then reads a new borrow rate (updateInterestRates).       *)
(***************************************************************************)
EXTENDS Integers, FiniteSets

CONSTANTS
  Owners,
  RAY,               \* one, with 27 decimals in WadRayMath.sol
  SECONDS_PER_YEAR,
  BorrowRates        \* what calculateInterestRates may return

ASSUME TroveDebtAssumption ==
  /\ IsFiniteSet(Owners)
  /\ RAY \in Nat \ {0} /\ RAY % 2 = 0
  /\ SECONDS_PER_YEAR \in Nat \ {0}
  /\ BorrowRates \subseteq Nat

VARIABLES
  now,               \* block.timestamp
  borrowIndex,
  currentBorrowRate,
  lastUpdateTimestamp,
  scaledBalance,     \* _balances, by owner
  scaledTotalSupply  \* _totalSupply

debtVars == <<borrowIndex, currentBorrowRate, lastUpdateTimestamp, scaledBalance, scaledTotalSupply>>

-----------------------------------------------------------------------------
(* WadRayMath: both round half up.                                         *)

RayMul(a, b) == (a * b + RAY \div 2) \div RAY

\* Mutant: rounds down.
RayDiv_Down(a, b) == (a * RAY) \div b

RayDiv(a, b) == (a * RAY + b \div 2) \div b

\* calculateCompoundedInterest: the first terms of (1 + r)^n.
CompoundedInterest(rate, elapsed) ==
  LET perSecond == rate \div SECONDS_PER_YEAR
      squared == RayMul(perSecond, perSecond)
      cubed == RayMul(squared, perSecond)
      pairs == elapsed * (elapsed - 1)
      triples == IF elapsed > 2 THEN pairs * (elapsed - 2) ELSE 0
  IN  RAY + perSecond * elapsed + (pairs * squared) \div 2 + (triples * cubed) \div 6

Elapsed == now - lastUpdateTimestamp

NormalizedDebt == RayMul(CompoundedInterest(currentBorrowRate, Elapsed), borrowIndex)

BalanceOf(o) == RayMul(scaledBalance[o], NormalizedDebt)
TotalSupply == RayMul(scaledTotalSupply, NormalizedDebt)

\* Troves without debt are not active: see NoDustTroves in ERDProperties.
Active == {o \in Owners : scaledBalance[o] # 0}

-----------------------------------------------------------------------------
(* updateState, addDebt or subDebt, and updateInterestRates: what all calls*)
(* that change a debt do, in this order.                                   *)

\* Mutant: the index stays, and the interest of the time gone by is lost.
NewIndex_Kept == borrowIndex

\* _updateIndexes: no debt, no interest.
NewIndex == IF scaledTotalSupply = 0 THEN borrowIndex ELSE NormalizedDebt

\* _mintToTreasury
InterestMinted ==
  RayMul(scaledTotalSupply, NewIndex) - RayMul(scaledTotalSupply, borrowIndex)

\* Mutant: the time without debt counts as soon as there is some.
UpdateState_OnlyWithDebt ==
  /\ borrowIndex' = NewIndex
  /\ lastUpdateTimestamp' = IF scaledTotalSupply = 0 THEN lastUpdateTimestamp ELSE now

UpdateState ==
  /\ borrowIndex' = NewIndex
  /\ lastUpdateTimestamp' = now

UpdateInterestRates == currentBorrowRate' \in BorrowRates

AddDebt(o, amount) ==
  LET scaled == RayDiv(amount, NewIndex)
  IN  /\ scaled > 0
      /\ scaledBalance' = [scaledBalance EXCEPT ![o] = @ + scaled]
      /\ scaledTotalSupply' = scaledTotalSupply + scaled

SubDebt(o, amount) ==
  LET scaled == RayDiv(amount, NewIndex)
  IN  /\ scaled > 0
      /\ scaled <= scaledBalance[o]
      /\ scaledBalance' = [scaledBalance EXCEPT ![o] = @ - scaled]
      /\ scaledTotalSupply' = scaledTotalSupply - scaled

IncreaseTroveDebt(o, amount) == UpdateState /\ AddDebt(o, amount) /\ UpdateInterestRates
DecreaseTroveDebt(o, amount) == UpdateState /\ SubDebt(o, amount) /\ UpdateInterestRates

\* _closeTrove takes off what balanceOf says, and spares the last trove.
MayCloseTrove == Cardinality(Active) > 1
CloseDebt(o) == MayCloseTrove /\ DecreaseTroveDebt(o, BalanceOf(o))

\* Mutant: the index is not initialised.
InitDebt_NoIndex ==
  /\ borrowIndex = 0
  /\ currentBorrowRate = 0
  /\ lastUpdateTimestamp = 0
  /\ scaledBalance = [o \in Owners |-> 0]
  /\ scaledTotalSupply = 0

InitDebt ==
  /\ borrowIndex = RAY
  /\ currentBorrowRate = 0
  /\ lastUpdateTimestamp = 0
  /\ scaledBalance = [o \in Owners |-> 0]
  /\ scaledTotalSupply = 0

\* The types of the debt's state; the index never falls below one.
DebtTypeOK ==
  /\ now \in Nat
  /\ borrowIndex \in Nat /\ borrowIndex >= RAY
  /\ currentBorrowRate \in BorrowRates \cup {0}
  /\ lastUpdateTimestamp \in 0..now
  /\ scaledBalance \in [Owners -> Nat]
  /\ scaledTotalSupply \in Int
=============================================================================
