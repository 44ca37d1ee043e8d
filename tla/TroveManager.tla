---------------------------- MODULE TroveManager ----------------------------
(***************************************************************************)
(* The state the ERD contracts share and the views every handler computes  *)
(* from it: TroveManager (troves, stakes, redistribution sums), TroveDebt, *)
(* CollateralManager with its ETokens, ActivePool, DefaultPool,            *)
(* CollSurplusPool, USDE balances, and the sorted list of owners.          *)
(*                                                                         *)
(* A call of a contract is atomic: a revert undoes it, so a call that      *)
(* would revert is a disabled action.  SafeMath reverts below 0 and above  *)
(* 2^256 - 1, hence the guards of the form  x \in Uint256.                 *)
(*                                                                         *)
(* The borrow rate is zero here: TroveDebt's index stays at one and its    *)
(* balances are plain amounts.  Shares of an EToken equal amounts          *)
(* (EToken.getShare).                                                      *)
(***************************************************************************)
EXTENDS Integers, FiniteSets, SortedList

CONSTANTS
  Collaterals,          \* the supported collaterals
  CollateralSupport,    \* the same, as the array collateralSupport (priority order)
  WETH,                 \* the collateral ActivePool pays out as plain ETH
  DECIMAL_PRECISION,    \* the unit of ratios and rates
  MAX_UINT256,          \* 2^256 - 1, also the "infinite" ratio of a debt of 0
  MCR, CCR,             \* minimum and critical collateral ratio
  PERCENT_DIVISOR,      \* share of the collateral paid to liquidators
  MIN_NET_DEBT

Borrowers == Ids

ASSUME TroveManagerAssumption ==
  /\ IsFiniteSet(Borrowers)      \* addresses have 160 bits
  /\ CollateralSupport \in Seq(Collaterals)
  /\ ToSet(CollateralSupport) = Collaterals
  /\ IsInjective(CollateralSupport)
  /\ DECIMAL_PRECISION \in Nat \ {0}
  /\ PERCENT_DIVISOR \in Nat \ {0}
  /\ MCR \in Nat /\ CCR \in Nat /\ DECIMAL_PRECISION <= MCR /\ MCR <= CCR
  /\ MIN_NET_DEBT \in Nat /\ MAX_UINT256 \in Nat

VARIABLES
  \* TroveManager: struct Trove, TroveOwners, rewardSnapshots
  status, TroveOwners, arrayIndex, stakes, snapshotColl, snapshotDebt,
  \* TroveManager: system totals
  totalStakes, totalStakesSnapshot, totalCollateralSnapshot,
  E_Coll, E_USDEDebt, lastCollError, lastUSDEDebtError,
  \* TroveDebt and the ETokens
  troveDebt, troveDebtSupply, eToken,
  \* the pools: collateral balances and recorded debts
  activeColl, activeDebt, defaultColl, defaultDebt, surplus,
  \* USDE held by users, by the StabilityPool and by the GasPool
  wallets, totalUSDEDeposits, gasPool,
  \* CollateralManager.USDE_GAS_COMPENSATION and the value of each collateral
  USDE_GAS_COMPENSATION, price

troveVars    == <<status, TroveOwners, arrayIndex, sortedVars>>
stakeVars    == <<stakes, totalStakes>>
snapshotVars == <<snapshotColl, snapshotDebt>>
systemSnapshotVars == <<totalStakesSnapshot, totalCollateralSnapshot>>
rewardVars   == <<E_Coll, E_USDEDebt, lastCollError, lastUSDEDebtError>>
debtVars     == <<troveDebt, troveDebtSupply>>
poolVars     == <<activeColl, activeDebt, defaultColl, defaultDebt>>
usdeVars     == <<wallets, totalUSDEDeposits, gasPool>>
envVars      == <<USDE_GAS_COMPENSATION, price>>

vars == <<troveVars, stakeVars, snapshotVars, systemSnapshotVars, rewardVars,
          debtVars, eToken, poolVars, surplus, usdeVars, envVars>>

Uint256 == 0..MAX_UINT256
Amounts == [Collaterals -> Nat]     \* an array parallel to collateralSupport
Statuses == {"nonExistent", "active", "closedByOwner", "closedByLiquidation",
             "closedByRedemption"}

-----------------------------------------------------------------------------
(* Arrays of amounts (ERDMath) and their value (CollateralManager).        *)

Zeros      == [c \in Collaterals |-> 0]
Plus(f, g) == [c \in Collaterals |-> f[c] + g[c]]
Minus(f, g) == [c \in Collaterals |-> f[c] - g[c]]
Covers(f, g) == \A c \in Collaterals : f[c] >= g[c]
IsNonzero(f) == \E c \in Collaterals : f[c] # 0

MinOf(a, b) == IF a < b THEN a ELSE b

\* Mutant: a decrease by all of the debt leaves it in place.
Decreased_Strict(debt, amount) == IF amount < debt THEN debt - amount ELSE debt

\* ActivePool.decreaseUSDEDebt and DefaultPool.decreaseUSDEDebt stop at zero.
Decreased(debt, amount) == debt - MinOf(amount, debt)

Values(f) == [c \in Collaterals |-> f[c] * price[c]]
ValueOf(f) == SumFunction(Values(f))

ComputeCR(value, debt) ==
  IF debt > 0 THEN (value * DECIMAL_PRECISION) \div debt ELSE MAX_UINT256

\* collGasCompensation: the liquidator's share of each collateral.
CollGasCompensation(f) == [c \in Collaterals |-> f[c] \div PERCENT_DIVISOR]

\* The collaterals after c in collateralSupport: they are drawn first.
DrawnBefore(c) ==
  LET rank(x) == CHOOSE i \in DOMAIN CollateralSupport : CollateralSupport[i] = x
  IN  {x \in Collaterals : rank(x) > rank(c)}

\* Mutant: the last collateral drawn is not split.
Drawn_Whole(f, value) ==
  LET left(c) == value - SumFunctionOnSet(Values(f), DrawnBefore(c))
  IN  [c \in Collaterals |-> IF left(c) <= 0 THEN 0 ELSE f[c]]

\* Mutant: the collaterals are drawn in the order of their priority.
Drawn_HighFirst(f, value) ==
  LET v == Values(f)
      left(c) == value - SumFunctionOnSet(v, Collaterals \ ({c} \cup DrawnBefore(c)))
  IN  [c \in Collaterals |->
        IF left(c) <= 0 \/ v[c] = 0 THEN 0
        ELSE IF v[c] < left(c) THEN f[c]
        ELSE (f[c] * ((left(c) * DECIMAL_PRECISION) \div v[c])) \div DECIMAL_PRECISION]

\* The part of the amounts f drawn to make up a value, from the last
\* supported collateral to the first; the last one drawn is split pro rata
\* and rounded down twice.  One loop, written three times in the code.
Drawn(f, value) ==
  LET v == Values(f)
      left(c) == value - SumFunctionOnSet(v, DrawnBefore(c))
  IN  [c \in Collaterals |->
        IF left(c) <= 0 \/ v[c] = 0 THEN 0
        ELSE IF v[c] < left(c) THEN f[c]
        ELSE (f[c] * ((left(c) * DECIMAL_PRECISION) \div v[c])) \div DECIMAL_PRECISION]

-----------------------------------------------------------------------------
(* Views of a trove.                                                       *)

IsActive(b) == status[b] = "active"

PendingCollReward(b) ==
  [c \in Collaterals |->
     IF IsActive(b)
       THEN (stakes[b][c] * (E_Coll[c] - snapshotColl[b][c])) \div DECIMAL_PRECISION
       ELSE 0]

\* Mutant: the debt sums count from the start, whatever the snapshot.
PendingUSDEDebtReward_NoSnapshot(b) ==
  LET reward == [c \in Collaterals |-> (stakes[b][c] * E_USDEDebt[c]) \div DECIMAL_PRECISION]
  IN  IF IsActive(b) THEN SumFunction(reward) ELSE 0

PendingUSDEDebtReward(b) ==
  LET reward == [c \in Collaterals |->
        (stakes[b][c] * (E_USDEDebt[c] - snapshotDebt[b][c])) \div DECIMAL_PRECISION]
  IN  IF IsActive(b) THEN SumFunction(reward) ELSE 0

\* Only the collateral sums are compared, not the debt sums.
HasPendingRewards(b) ==
  IsActive(b) /\ \E c \in Collaterals : snapshotColl[b][c] < E_Coll[c]

TroveDebtOf(b) == troveDebt[b] + USDE_GAS_COMPENSATION    \* getTroveDebt
EntireDebt(b) == TroveDebtOf(b) + PendingUSDEDebtReward(b)
EntireColl(b) == Plus(eToken[b], PendingCollReward(b))

CurrentICR(b) ==
  IF IsActive(b) THEN ComputeCR(ValueOf(EntireColl(b)), EntireDebt(b)) ELSE MAX_UINT256

\* What applyPendingRewards moves from the DefaultPool into the trove.
AppliedColl(b) == IF HasPendingRewards(b) THEN PendingCollReward(b) ELSE Zeros
AppliedDebt(b) == IF HasPendingRewards(b) THEN PendingUSDEDebtReward(b) ELSE 0

\* _computeNewStake, which reverts when only the stakes snapshot is zero.
StakeComputable ==
  \A c \in Collaterals : totalCollateralSnapshot[c] # 0 => totalStakesSnapshot[c] # 0

NewStakes(coll) ==
  [c \in Collaterals |->
     IF totalCollateralSnapshot[c] = 0 THEN coll[c]
     ELSE (coll[c] * totalStakesSnapshot[c]) \div totalCollateralSnapshot[c]]

-----------------------------------------------------------------------------
(* Views of the system.                                                    *)

ETokenSupply(c) == SumFunction([b \in Borrowers |-> eToken[b][c]])

EntireSystemDebt == troveDebtSupply + defaultDebt + gasPool

\* getEntireSystemColl(price) counts ETokens, getEntireSystemColl() counts
\* what the ActivePool really holds.
EntireSystemColl == [c \in Collaterals |-> ETokenSupply(c) + defaultColl[c]]
PooledColl       == Plus(activeColl, defaultColl)

RecoveryMode == ComputeCR(ValueOf(EntireSystemColl), EntireSystemDebt) < CCR
TCR          == ComputeCR(ValueOf(PooledColl), EntireSystemDebt)

USDESupply == wallets + totalUSDEDeposits + gasPool

-----------------------------------------------------------------------------
(* Updates used by several handlers.                                       *)

\* sendCollateral leaves a nonzero balance behind in every collateral it
\* pays out as a token; WETH paid to a user goes out as ETH, down to the last.
PayableToUsers(amounts, before) ==
  \A c \in Collaterals :
    amounts[c] # 0 => IF c = WETH THEN before[c] >= amounts[c] ELSE before[c] > amounts[c]

PayableToPools(amounts, before) ==
  \A c \in Collaterals : amounts[c] # 0 => before[c] > amounts[c]

\* _removeTroveOwner: the last owner takes the freed slot (indices from 0).
OwnersWithout(owners, index, b) ==
  LET last == owners[Len(owners)]
  IN  SubSeq([owners EXCEPT ![index[b] + 1] = last], 1, Len(owners) - 1)

\* Mutant: the owner that moves keeps its old index.
IndexWithout_NotMoved(owners, index, b) == index

IndexWithout(owners, index, b) ==
  [index EXCEPT ![owners[Len(owners)]] = index[b]]

\* Mutant: the last trove may be closed.
MayClose_Last(owners, l) == Len(owners) >= 1 /\ Len(l) >= 1

\* _closeTrove refuses to close the last trove.
MayClose(owners, l) == Len(owners) > 1 /\ Len(l) > 1

InitTroveManager ==
  /\ status = [b \in Borrowers |-> "nonExistent"]
  /\ TroveOwners = <<>>
  /\ arrayIndex = [b \in Borrowers |-> 0]
  /\ stakes = [b \in Borrowers |-> Zeros]
  /\ snapshotColl = [b \in Borrowers |-> Zeros]
  /\ snapshotDebt = [b \in Borrowers |-> Zeros]
  /\ totalStakes = Zeros
  /\ totalStakesSnapshot = Zeros
  /\ totalCollateralSnapshot = Zeros
  /\ E_Coll = Zeros
  /\ E_USDEDebt = Zeros
  /\ lastCollError = Zeros
  /\ lastUSDEDebtError = Zeros
  /\ troveDebt = [b \in Borrowers |-> 0]
  /\ troveDebtSupply = 0
  /\ eToken = [b \in Borrowers |-> Zeros]
  /\ activeColl = Zeros
  /\ activeDebt = 0
  /\ defaultColl = Zeros
  /\ defaultDebt = 0
  /\ surplus = [b \in Borrowers |-> Zeros]
  /\ wallets = 0
  /\ totalUSDEDeposits = 0
  /\ gasPool = 0
  /\ InitSorted
=============================================================================
