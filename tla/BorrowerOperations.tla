------------------------- MODULE BorrowerOperations -------------------------
(***************************************************************************)
(* The calls a borrower makes: openTrove, the five entry points that end   *)
(* in _adjustTrove, closeTrove and claimCollateral, and the change of the  *)
(* gas compensation, which BorrowerOperations.updateUSDEGas settles.       *)
(*                                                                         *)
(* Who holds which USDE is left out: wallets is the sum over all accounts  *)
(* but the two pools (the treasury that receives the fees included), since *)
(* USDE moves freely between accounts.  The borrowing rate of normal mode  *)
(* (base rate plus floor, capped) is any member of BorrowingRates.         *)
(***************************************************************************)
EXTENDS TroveManager

CONSTANTS
  MarketCap,        \* the limit on the supply of USDE
  BorrowingRates,   \* the rates TroveManager.getBorrowingRate may give
  RECOVERY_FEE      \* the rate charged in recovery mode

ASSUME BorrowerOperationsAssumption ==
  /\ MarketCap \in Nat
  /\ BorrowingRates \subseteq 0..DECIMAL_PRECISION
  /\ RECOVERY_FEE \in 0..DECIMAL_PRECISION

\* _triggerBorrowingFee: minted to the treasury, added to the debt.
BorrowingFee(amount, rate) ==
  ((IF RecoveryMode THEN RECOVERY_FEE ELSE rate) * amount) \div DECIMAL_PRECISION

\* Mutant: the TCR before the change.
NewTCR_Old(coll, debt) == ComputeCR(ValueOf(EntireSystemColl), EntireSystemDebt)

\* The TCR the system would have after a change of its collateral and debt.
NewTCR(coll, debt) == ComputeCR(ValueOf(coll), debt)

\* Mutant: the reserve counts towards the minimum.
AtLeastMinNetDebt_WithReserve(netDebt) == netDebt + USDE_GAS_COMPENSATION >= MIN_NET_DEBT

AtLeastMinNetDebt(netDebt) == netDebt >= MIN_NET_DEBT

\* updateTroveRewardSnapshots
TakeRewardSnapshots(b) ==
  /\ snapshotColl' = [snapshotColl EXCEPT ![b] = E_Coll]
  /\ snapshotDebt' = [snapshotDebt EXCEPT ![b] = E_USDEDebt]

\* updateStakeAndTotalStakes for a trove that now holds coll
UpdateStakes(b, coll) ==
  /\ StakeComputable
  /\ Covers(totalStakes, stakes[b])
  /\ stakes' = [stakes EXCEPT ![b] = NewStakes(coll)]
  /\ totalStakes' = Plus(Minus(totalStakes, stakes[b]), NewStakes(coll))

-----------------------------------------------------------------------------
\* openTrove.  The collateral is in the ActivePool and its ETokens are minted
\* before the mode of the system is looked at.
OpenTrove(b, coll, amount, rate) ==
  LET sysColl == Plus(EntireSystemColl, coll)
      inRecovery == NewTCR(sysColl, EntireSystemDebt) < CCR
      fee == ((IF inRecovery THEN RECOVERY_FEE ELSE rate) * amount) \div DECIMAL_PRECISION
      netDebt == amount + fee
      compositeDebt == netDebt + USDE_GAS_COMPENSATION
      icr == ComputeCR(ValueOf(coll), compositeDebt)
  IN  /\ ~IsActive(b)
      /\ IsNonzero(coll)
      /\ amount > 0
      /\ AtLeastMinNetDebt(netDebt)
      /\ IF inRecovery
           THEN icr >= CCR
           ELSE icr >= MCR /\ NewTCR(sysColl, EntireSystemDebt + compositeDebt) >= CCR
      /\ USDESupply + compositeDebt <= MarketCap
      /\ status' = [status EXCEPT ![b] = "active"]
      /\ troveDebt' = [troveDebt EXCEPT ![b] = @ + netDebt]
      /\ troveDebtSupply' = troveDebtSupply + netDebt
      /\ TakeRewardSnapshots(b)
      /\ UpdateStakes(b, coll)
      /\ InsertSorted(b, icr)
      /\ TroveOwners' = Append(TroveOwners, b)
      /\ arrayIndex' = [arrayIndex EXCEPT ![b] = Len(TroveOwners)]
      /\ eToken' = [eToken EXCEPT ![b] = Plus(@, coll)]
      /\ activeColl' = Plus(activeColl, coll)
      /\ activeDebt' = activeDebt + compositeDebt
      /\ wallets' = wallets + netDebt
      /\ gasPool' = gasPool + USDE_GAS_COMPENSATION
      /\ UNCHANGED <<systemSnapshotVars, rewardVars, defaultColl, defaultDebt,
                     surplus, totalUSDEDeposits, envVars>>

\* Mutant: collateral may be withdrawn in recovery mode.
ValidInCurrentMode_Withdrawal(out, isIncrease, oldICR, newICR, newTCR) ==
  IF RecoveryMode
    THEN isIncrease => newICR >= CCR /\ newICR >= oldICR
    ELSE newICR >= MCR /\ newTCR >= CCR

\* _requireValidAdjustmentInCurrentMode
ValidInCurrentMode(out, isIncrease, oldICR, newICR, newTCR) ==
  IF RecoveryMode
    THEN /\ ~IsNonzero(out)
         /\ isIncrease => newICR >= CCR /\ newICR >= oldICR
    ELSE newICR >= MCR /\ newTCR >= CCR

\* _adjustTrove, for addColl, withdrawColl, withdrawUSDE, repayUSDE,
\* adjustTrove and the StabilityPool's moveCollGainToTrove.  Pending rewards
\* are applied first: the debts and balances before the change are the ones
\* that include them.
AdjustTrove(b, in, out, change, isIncrease, rate) ==
  LET fee == IF isIncrease THEN BorrowingFee(change, rate) ELSE 0
      netChange == change + fee
      signed(d) == IF isIncrease THEN d + netChange ELSE d - netChange
      coll == Plus(eToken[b], AppliedColl(b))
      newColl == Minus(Plus(coll, in), out)
      debt == TroveDebtOf(b) + AppliedDebt(b)
      oldICR == ComputeCR(ValueOf(coll), debt)
      newICR == ComputeCR(ValueOf(newColl), signed(debt))
      newTCR == NewTCR(Minus(Plus(EntireSystemColl, in), out), signed(EntireSystemDebt))
      pooled == Plus(Plus(activeColl, AppliedColl(b)), in)
  IN  /\ IsActive(b)
      /\ \A c \in Collaterals : in[c] = 0 \/ out[c] = 0
      /\ IsNonzero(in) \/ IsNonzero(out) \/ change # 0
      /\ isIncrease => change > 0
      /\ Covers(Plus(coll, in), out)
      /\ signed(debt) >= 0
      /\ ValidInCurrentMode(out, isIncrease, oldICR, newICR, newTCR)
      /\ IF isIncrease
           THEN USDESupply + netChange <= MarketCap
           ELSE change > 0 => /\ AtLeastMinNetDebt(debt - USDE_GAS_COMPENSATION - change)
                              /\ wallets >= change
      /\ Covers(defaultColl, AppliedColl(b))
      /\ PayableToUsers(out, pooled)
      /\ UpdateStakes(b, newColl)
      /\ IF HasPendingRewards(b) THEN TakeRewardSnapshots(b) ELSE UNCHANGED snapshotVars
      /\ ReInsertSorted(b, newICR)
      /\ troveDebt' = [troveDebt EXCEPT ![b] = signed(@ + AppliedDebt(b))]
      /\ troveDebtSupply' = signed(troveDebtSupply + AppliedDebt(b))
      /\ eToken' = [eToken EXCEPT ![b] = newColl]
      /\ defaultColl' = Minus(defaultColl, AppliedColl(b))
      /\ defaultDebt' = Decreased(defaultDebt, AppliedDebt(b))
      /\ activeColl' = Minus(pooled, out)
      /\ activeDebt' = IF isIncrease
                         THEN activeDebt + AppliedDebt(b) + netChange
                         ELSE Decreased(activeDebt + AppliedDebt(b), change)
      /\ wallets' = signed(wallets)
      /\ UNCHANGED <<status, TroveOwners, arrayIndex, systemSnapshotVars, rewardVars,
                     surplus, totalUSDEDeposits, gasPool, envVars>>

\* closeTrove, outside recovery mode only.
CloseTrove(b) ==
  LET coll == Plus(eToken[b], AppliedColl(b))
      netDebt == troveDebt[b] + AppliedDebt(b)
      pooled == Plus(activeColl, AppliedColl(b))
  IN  /\ IsActive(b)
      /\ ~RecoveryMode
      /\ wallets >= netDebt
      /\ NewTCR(Minus(EntireSystemColl, coll),
                EntireSystemDebt - (netDebt + USDE_GAS_COMPENSATION)) >= CCR
      /\ MayClose(TroveOwners, list)
      /\ gasPool >= USDE_GAS_COMPENSATION
      /\ Covers(defaultColl, AppliedColl(b))
      /\ PayableToUsers(coll, pooled)
      /\ Covers(totalStakes, stakes[b])
      /\ status' = [status EXCEPT ![b] = "closedByOwner"]
      /\ stakes' = [stakes EXCEPT ![b] = Zeros]
      /\ totalStakes' = Minus(totalStakes, stakes[b])
      /\ snapshotColl' = [snapshotColl EXCEPT ![b] = Zeros]
      /\ snapshotDebt' = [snapshotDebt EXCEPT ![b] = Zeros]
      /\ troveDebt' = [troveDebt EXCEPT ![b] = 0]
      /\ troveDebtSupply' = troveDebtSupply - troveDebt[b]
      /\ eToken' = [eToken EXCEPT ![b] = Zeros]
      /\ TroveOwners' = OwnersWithout(TroveOwners, arrayIndex, b)
      /\ arrayIndex' = IndexWithout(TroveOwners, arrayIndex, b)
      /\ RemoveSorted(b)
      /\ defaultColl' = Minus(defaultColl, AppliedColl(b))
      /\ defaultDebt' = Decreased(defaultDebt, AppliedDebt(b))
      /\ activeColl' = Minus(pooled, coll)
      /\ activeDebt' = Decreased(activeDebt + AppliedDebt(b), netDebt + USDE_GAS_COMPENSATION)
      /\ wallets' = wallets - netDebt
      /\ gasPool' = gasPool - USDE_GAS_COMPENSATION
      /\ UNCHANGED <<systemSnapshotVars, rewardVars, surplus, totalUSDEDeposits, envVars>>

\* claimCollateral: CollSurplusPool.claimColl pays out and forgets the surplus.
ClaimCollateral(b) ==
  /\ IsNonzero(surplus[b])
  /\ surplus' = [surplus EXCEPT ![b] = Zeros]
  /\ UNCHANGED <<troveVars, stakeVars, snapshotVars, systemSnapshotVars, rewardVars,
                 debtVars, eToken, poolVars, usdeVars, envVars>>

\* Mutant: the reserve of one trove only.
ReserveChange_OneTrove(gas) == gas - USDE_GAS_COMPENSATION

\* What bringing every open trove's reserve to gas takes.
ReserveChange(gas) == Len(TroveOwners) * gas - Len(TroveOwners) * USDE_GAS_COMPENSATION

\* setGasCompensation: every open trove's reserve in the GasPool is brought
\* to the new amount, by minting the difference or by burning it.
SetGasCompensation(gas) ==
  LET reserve == ReserveChange(gas)
  IN  /\ gas # USDE_GAS_COMPENSATION
      /\ gas <= MIN_NET_DEBT
      /\ gas > USDE_GAS_COMPENSATION => USDESupply + reserve <= MarketCap
      /\ gasPool + reserve >= 0
      /\ USDE_GAS_COMPENSATION' = gas
      /\ gasPool' = gasPool + reserve
      /\ activeDebt' = IF reserve >= 0 THEN activeDebt + reserve
                       ELSE Decreased(activeDebt, -reserve)
      /\ UNCHANGED <<troveVars, stakeVars, snapshotVars, systemSnapshotVars, rewardVars,
                     debtVars, eToken, activeColl, defaultColl, defaultDebt, surplus,
                     wallets, totalUSDEDeposits, price>>
=============================================================================
