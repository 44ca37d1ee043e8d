------------------------------- MODULE Rates --------------------------------
(***************************************************************************)
(* What passing time does to the system: the calls of BorrowerOperations,  *)
(* TroveManagerLiquidations and TroveManagerRedemptions seen from the debt *)
(* they change (TroveDebt), the fees they pay (BaseRate) and the USDE they *)
(* mint and burn.  Collateral and prices are left out, so that any trove   *)
(* may be liquidated or redeemed from and any mode and borrow rate may be  *)
(* met; ERD has those, and no clock.                                       *)
(***************************************************************************)
EXTENDS BaseRate

CONSTANTS
  USDE_GAS_COMPENSATION,
  MIN_NET_DEBT,
  Loans,             \* the amounts borrowed
  Repayments,        \* the amounts repaid or redeemed
  MaxTime,           \* the bounds on the clock and on the number of calls
  MaxCalls

ASSUME RatesAssumption ==
  /\ USDE_GAS_COMPENSATION \in Nat
  /\ MIN_NET_DEBT \in Nat \ {0}
  /\ Loans \subseteq Nat \ {0} /\ Repayments \subseteq Nat \ {0}
  /\ MaxTime \in Nat /\ MaxCalls \in Nat

VARIABLES
  supply,            \* the USDE of all holders but the gas pool
  defaultDebt,       \* redistributed debt that no trove has taken in yet
  calls

vars == <<now, debtVars, feeVars, supply, defaultDebt, calls>>

\* getEntireSystemDebt
EntireSystemDebt == TotalSupply + defaultDebt + Cardinality(Active) * USDE_GAS_COMPENSATION

\* The interest goes to the treasury; minted and burned is what the call
\* itself adds and takes away.
Settle(minted, burned) ==
  /\ burned <= supply
  /\ supply' = supply + InterestMinted + minted - burned
  /\ calls < MaxCalls
  /\ calls' = calls + 1
  /\ UNCHANGED now

-----------------------------------------------------------------------------
(* openTrove and adjustTrove: the fee depends on the mode.                 *)
Borrow(o, amount, fee) ==
  /\ BalanceOf(o) + amount + fee >= MIN_NET_DEBT
  /\ IncreaseTroveDebt(o, amount + fee)
  /\ Settle(amount + fee, 0)
  /\ UNCHANGED defaultDebt

BorrowInNormalMode(o, amount) ==
  /\ DecayBaseRateFromBorrowing
  /\ Borrow(o, amount, BorrowingFee(DecayedBaseRate, amount))

BorrowInRecoveryMode(o, amount) ==
  /\ Borrow(o, amount, (RecoveryFee * amount) \div DECIMAL_PRECISION)
  /\ UNCHANGED feeVars

Repay(o, amount) ==
  /\ amount + MIN_NET_DEBT <= BalanceOf(o)
  /\ DecreaseTroveDebt(o, amount)
  /\ Settle(0, amount)
  /\ UNCHANGED <<feeVars, defaultDebt>>

CloseTrove(o) ==
  /\ o \in Active
  /\ CloseDebt(o)
  /\ Settle(0, BalanceOf(o))
  /\ UNCHANGED <<feeVars, defaultDebt>>

\* Redemption from one trove: in part, or of all its debt, which closes it.
\* The reserve of a closed trove is burned in the gas pool.  A fee of 100%
\* is refused.
Redeem(o, amount) ==
  LET lot == MinOf(amount, BalanceOf(o))
  IN  /\ o \in Active
      /\ \/ lot = BalanceOf(o) /\ CloseDebt(o)
         \/ lot + MIN_NET_DEBT <= BalanceOf(o) /\ DecreaseTroveDebt(o, lot)
      /\ UpdateBaseRateFromRedemption(lot, EntireSystemDebt)
      /\ RedemptionRate(baseRate') < DECIMAL_PRECISION
      /\ Settle(0, lot)
      /\ UNCHANGED defaultDebt

\* Liquidation by redistribution: the debt passes to the DefaultPool and the
\* reserve of the trove to the liquidator.
Liquidate(o) ==
  /\ o \in Active
  /\ CloseDebt(o)
  /\ defaultDebt' = defaultDebt + BalanceOf(o) + USDE_GAS_COMPENSATION
  /\ Settle(USDE_GAS_COMPENSATION, 0)
  /\ UNCHANGED feeVars

\* One trove takes in all that is pending: the shares are in TroveManager.
ApplyPendingRewards(o) ==
  /\ o \in Active /\ defaultDebt > 0
  /\ IncreaseTroveDebt(o, defaultDebt)
  /\ defaultDebt' = 0
  /\ Settle(0, 0)
  /\ UNCHANGED feeVars

Tick ==
  /\ now < MaxTime
  /\ now' = now + 1
  /\ UNCHANGED <<debtVars, feeVars, supply, defaultDebt, calls>>

-----------------------------------------------------------------------------
Init ==
  /\ now = 0 /\ calls = 0
  /\ supply = 0 /\ defaultDebt = 0
  /\ InitDebt /\ InitFees

Next ==
  \/ \E o \in Owners :
       \/ \E amount \in Loans : BorrowInNormalMode(o, amount) \/ BorrowInRecoveryMode(o, amount)
       \/ \E amount \in Repayments : Repay(o, amount) \/ Redeem(o, amount)
       \/ CloseTrove(o)
       \/ Liquidate(o)
       \/ ApplyPendingRewards(o)
  \/ Tick

Spec == Init /\ [][Next]_vars

-----------------------------------------------------------------------------
(* Properties.                                                             *)

\* The types of the state; the index never falls below one, and the base
\* rate is at most 100%.
TypeOK ==
  /\ DebtTypeOK
  /\ baseRate \in 0..DECIMAL_PRECISION
  /\ lastFeeOperationTime \in 0..now
  /\ raised \in [rate : Nat, at : Nat]
  /\ supply \in Int /\ defaultDebt \in Nat
  /\ calls \in 0..MaxCalls

\* A trove can always be left without any debt: what balanceOf says it owes,
\* divided by the index again, is its whole scaled balance, so that closing
\* never fails for rounding and leaves nothing that could bear interest.
ClearsExactly ==
  \A o \in Owners : RayDiv(BalanceOf(o), NormalizedDebt) = scaledBalance[o]

\* A call of one owner changes nothing of what the others owe, neither by
\* the time since the last call nor by the rate the call ends with, and time
\* makes no debt smaller.
OthersOweTheSame ==
  [][\A o \in Owners :
       scaledBalance'[o] = scaledBalance[o] =>
         IF now' = now THEN BalanceOf(o)' = BalanceOf(o) ELSE BalanceOf(o)' >= BalanceOf(o)]_vars

\* All debt can be paid: at the end of every call the USDE in circulation is
\* the debt of all troves, interest included, and the debt that is being
\* redistributed, up to a rounding of each call that grows with the index.
SupplyMatchesDebt ==
  [][now' = now =>
       LET rounding == (1 + borrowIndex' \div RAY) * calls'
       IN  (TotalSupply + defaultDebt - supply)' \in -rounding..rounding]_vars

\* Borrowing does not keep the base rate up ("prevents base rate griefing"):
\* at least every second minute since the last redemption has counted.  And
\* no minute counts twice, but for the one the redemption fell into.  A power
\* is off by half a unit for each minute, and each call rounds what it writes
\* down.
DecaysInStep ==
  LET minutes == (now - raised.at) \div SECONDS_IN_ONE_MINUTE
      After(n) == (raised.rate * DecPow(MINUTE_DECAY_FACTOR, n)) \div DECIMAL_PRECISION
      rounding == calls + minutes + 2
  IN  DecayedBaseRate \in (After(minutes + 1) - rounding)..(After(minutes \div 2) + rounding)
=============================================================================
