--------------------------- MODULE ERDProperties ----------------------------
(***************************************************************************)
(* What the system promises, as invariants of its states and as action     *)
(* properties of its transactions.  The last part holds the promises of    *)
(* the README and of comments that the code does not keep.                 *)
(***************************************************************************)
EXTENDS ERD

ActiveTroves == {b \in Borrowers : IsActive(b)}
TotalColl(f) == [c \in Collaterals |-> SumFunction([b \in Borrowers |-> f[b][c]])]

\* The types of the shared state.
TypeOK ==
  /\ status \in [Borrowers -> Statuses]
  /\ TroveOwners \in Seq(Borrowers) /\ list \in Seq(Borrowers)
  /\ arrayIndex \in [Borrowers -> Nat] /\ recorded \in [Borrowers -> Nat]
  /\ stakes \in [Borrowers -> Amounts] /\ totalStakes \in Amounts
  /\ snapshotColl \in [Borrowers -> Amounts] /\ snapshotDebt \in [Borrowers -> Amounts]
  /\ totalStakesSnapshot \in Amounts /\ totalCollateralSnapshot \in Amounts
  /\ E_Coll \in Amounts /\ E_USDEDebt \in Amounts
  /\ lastCollError \in Amounts /\ lastUSDEDebtError \in Amounts
  /\ troveDebt \in [Borrowers -> Nat] /\ troveDebtSupply \in Nat
  /\ eToken \in [Borrowers -> Amounts] /\ surplus \in [Borrowers -> Amounts]
  /\ activeColl \in Amounts /\ defaultColl \in Amounts
  /\ activeDebt \in Nat /\ defaultDebt \in Nat
  /\ wallets \in Nat /\ totalUSDEDeposits \in Nat /\ gasPool \in Nat
  /\ price \in Prices /\ USDE_GAS_COMPENSATION \in GasCompensations

-----------------------------------------------------------------------------
(* Invariants.                                                             *)

\* Every USDE in circulation, outside the reserve, is owed by a trove or
\* waits in the DefaultPool to be owed by one: no path through minting,
\* fees, offsets, redistributions, compensations and redemptions creates or
\* destroys one without the other, saturating decreases included.  It takes
\* RewardsSeen (below): debt lost from the DefaultPool is missing here.
USDEBacked == wallets + totalUSDEDeposits = troveDebtSupply + defaultDebt

\* The GasPool holds exactly one reserve per open trove, at today's amount:
\* the close of the last of many troves can still pay its liquidator, also
\* after setGasCompensation changed the amount under open troves.
ReservesComplete == gasPool = Len(TroveOwners) * USDE_GAS_COMPENSATION

\* The debt the ActivePool records is what the open troves owe with their
\* reserves; a close that took back another reserve than the one paid in, or
\* a decrease that stopped at zero, would part the two for good.
ActiveDebtExact == activeDebt = troveDebtSupply + gasPool

\* TroveOwners, arrayIndex and status always name the same troves, although
\* owners move to freed slots while a batch closes others.
OwnersAgree ==
  /\ ToSet(TroveOwners) = ActiveTroves
  /\ IsInjective(TroveOwners)
  /\ \A i \in DOMAIN TroveOwners : arrayIndex[TroveOwners[i]] = i - 1

\* The list holds the open troves, each once, ordered by the recorded ICRs,
\* none of which is zero; an owner outside it has left nothing behind.
ListSorted ==
  /\ ToSet(list) = ActiveTroves
  /\ IsInjective(list)
  /\ IsSortedBy(list, recorded)
  /\ \A b \in Borrowers : recorded[b] # 0 <=> Contains(list, b)

\* The running totals are the sums of what the troves hold, and a trove that
\* is not active holds nothing.
TotalsAddUp ==
  /\ totalStakes = TotalColl(stakes)
  /\ troveDebtSupply = SumFunction(troveDebt)
  /\ \A b \in Borrowers \ ActiveTroves :
       stakes[b] = Zeros /\ eToken[b] = Zeros /\ troveDebt[b] = 0

CollRewardsCovered ==
  Covers(defaultColl, TotalColl([b \in Borrowers |-> PendingCollReward(b)]))

DebtRewardsCovered ==
  SumFunction([b \in Borrowers |-> PendingUSDEDebtReward(b)]) <= defaultDebt

\* The DefaultPool can pay every pending reward, in any order: what the sums
\* per unit staked promise to the stakes never exceeds what was put there,
\* however the rounding errors were fed back and the stakes corrected.  For the
\* debt it takes RewardsSeen, which dust can break (below).
RewardsCovered == CollRewardsCovered /\ DebtRewardsCovered

\* The ActivePool holds the collateral of every EToken.  This holds with one
\* collateral only: with several, a partial redemption that drains one leaves
\* its ETokens in place, where a comment in _calculateCollLot has
\* "trove.colls[collateral] = 0".
CollateralHeld == \A c \in Collaterals : ETokenSupply(c) <= activeColl[c]

\* An open trove owes at least the minimum: no sequence of repayments,
\* partial redemptions and rewards leaves one that is not worth liquidating.
NoDustTroves == \A b \in ActiveTroves : troveDebt[b] >= MIN_NET_DEBT

-----------------------------------------------------------------------------
(* Action properties.                                                      *)

BorrowerStep == \E b \in Borrowers : BorrowerCall(b)

\* A borrower cannot bring about recovery mode: a call in normal mode ends
\* in normal mode, although the guards judge the TCR before the stakes,
\* rewards and balances are updated.
BorrowersKeepNormalMode == [][BorrowerStep /\ ~RecoveryMode => ~RecoveryMode']_vars

\* In recovery mode a borrower cannot lower the value of the system's
\* collateral, and may add debt only where the trove ends above the CCR.
BorrowersHelpRecovery ==
  [][BorrowerStep /\ RecoveryMode =>
       /\ Covers(EntireSystemColl', EntireSystemColl)
       /\ \A b \in Borrowers : troveDebt'[b] > troveDebt[b] + PendingUSDEDebtReward(b)
                                 => CurrentICR(b)' >= CCR]_vars

ClosedIn(b, how) == IsActive(b) /\ status'[b] = how
Claimable(b) == ValueOf(Minus(surplus'[b], surplus[b]))

\* A trove at or above the MCR is liquidated only out of recovery mode and
\* only if its owner loses no more than MCR times the debt: the rest of the
\* collateral can be claimed.
CappedLiquidation ==
  [][\A b \in Borrowers :
       ClosedIn(b, "closedByLiquidation") /\ CurrentICR(b) >= MCR =>
         /\ RecoveryMode
         /\ totalUSDEDeposits >= EntireDebt(b)
         /\ (ValueOf(EntireColl(b)) - Claimable(b)) * DECIMAL_PRECISION
              <= EntireDebt(b) * MCR]_vars

\* A trove closed by a redemption costs its owner no more collateral than
\* the debt it paid off, less the reserve; the owner can claim the rest.
RedeemedAtFaceValue ==
  [][\A b \in Borrowers :
       ClosedIn(b, "closedByRedemption") =>
         ValueOf(EntireColl(b)) - Claimable(b) <= EntireDebt(b) - USDE_GAS_COMPENSATION]_vars

\* Collateral is drawn from the one of lowest priority up: a closed trove whose
\* owner lost some of one collateral can claim nothing of those after it.
LowPriorityFirst ==
  [][\A b \in Borrowers, i, j \in DOMAIN CollateralSupport :
       LET high == CollateralSupport[i]
           low  == CollateralSupport[j]
           claim(c) == surplus'[b][c] - surplus[b][c]
       IN  /\ i < j /\ IsNonzero(Minus(surplus'[b], surplus[b]))
           /\ IsActive(b) /\ ~IsActive(b)'
           /\ claim(high) < EntireColl(b)[high]
           => claim(low) = 0]_vars

\* A redemption makes no trove worse: one that stays open and was worth its
\* debt keeps or improves its ICR, whether it was redeemed from in part, had
\* its rewards applied by a walk that then gave up, or was not met at all.
RedemptionSparesTheRest ==
  [][Redemption =>
       \A b \in Borrowers :
         IsActive(b) /\ IsActive(b)' /\ CurrentICR(b) >= DECIMAL_PRECISION
           => CurrentICR(b)' >= CurrentICR(b)]_vars

\* Once a trove was opened there is always one: stakes, snapshots and pending
\* rewards keep somebody to refer to.
NeverEmptied == [][TroveOwners # <<>> => TroveOwners' # <<>>]_vars

-----------------------------------------------------------------------------
(* Promises of the documentation that the code does not keep.              *)

SortedByCurrentICR == \A i, j \in DOMAIN list : i < j => CurrentICR(list[i]) >= CurrentICR(list[j])

\* "Nodes also remain sorted as the ETH:USD price varies" (README).
PriceKeepsOrder == [][SortedByCurrentICR /\ price' # price => SortedByCurrentICR']_vars

\* "withdrawals from the Stability Pool are suspended when there are
\* liquidable Troves with ICR < 110% in the system" (README).
WithdrawalsSuspended ==
  [][totalUSDEDeposits' < totalUSDEDeposits /\ ~Liquidation
       => \A b \in ActiveTroves : CurrentICR(b) >= MCR]_vars

\* "redeemCollateral will only redeem from Troves that have an ICR >= MCR"
\* (README).
RedeemsAboveMCR ==
  [][\A b \in Borrowers :
       ClosedIn(b, "closedByRedemption") => CurrentICR(b) >= MCR]_vars

\* "The following assert() holds true" (comment in _computeNewStake).
StakeAssertion == StakeComputable

\* "this indicates that rewards have occured since the snapshot was made"
\* (comment in _hasPendingRewards): only the collateral is compared, so a
\* redistribution whose collateral per stake is rounded to nothing, and its debt
\* not, goes unseen.  Rewards and USDE are covered while that does not happen.
RewardsSeen == \A b \in ActiveTroves : HasPendingRewards(b) \/ snapshotDebt[b] = E_USDEDebt

\* "Redistribute all debt and collateral ... to active Troves" (README): after
\* a redistribution somebody owes the debt that is in the DefaultPool.
Redistributed ==
  defaultDebt > 0 => \E b \in ActiveTroves : PendingUSDEDebtReward(b) > 0
=============================================================================
