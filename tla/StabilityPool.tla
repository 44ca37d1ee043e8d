--------------------------- MODULE StabilityPool ----------------------------
(***************************************************************************)
(* StabilityPool.sol: deposits that shrink with every offset of debt and   *)
(* gain the collateral of the liquidated troves, kept by a running product *)
(* P and running sums S in scales and epochs; front ends with the stakes   *)
(* of their depositors.                                                    *)
(*                                                                         *)
(* A call that would revert is a disabled action.  CommunityIssuance.issue *)
(* returns 0 and trigger does nothing, so the sum G stays at zero and is   *)
(* left out, and with it the kickback rates.                               *)
(***************************************************************************)
EXTENDS Integers, FiniteSets, Functions

CONSTANTS
  Users,             \* depositors and front ends
  NoFrontEnd,        \* address(0), the tag of a deposit made without a front end
  Collaterals,       \* every collateral that may be supported
  Removable,         \* those the owner may remove and add again
  Registrants,       \* the users that may register as a front end
  DECIMAL_PRECISION,
  SCALE_FACTOR,      \* also the literal 1e9 below which a deposit counts as nothing
  ProvideAmounts,    \* the USDE provideToSP may bring
  WithdrawAmounts,   \* the USDE withdrawFromSP may ask for
  Offsets,           \* the records [debt, coll] liquidations may pass
  DepositCap,        \* bound: the USDE in the pool
  CollCap,           \* bound: the collateral in the pool
  SumCap,            \* bound: the sums S of one collateral together
  MaxEpoch, MaxScale \* bounds: how often the pool is emptied and P is rescaled

FrontEnds == Users \cup {NoFrontEnd}
Amounts   == [Collaterals -> Nat]
Epochs    == 0..MaxEpoch
Scales    == 0..MaxScale + 1        \* the scale after the current one is read, too

ASSUME StabilityPoolAssumption ==
  /\ IsFiniteSet(Users) /\ IsFiniteSet(Collaterals) /\ NoFrontEnd \notin Users
  /\ Removable \subseteq Collaterals /\ Registrants \subseteq Users
  /\ SCALE_FACTOR \in Nat \ {0} /\ DECIMAL_PRECISION \in Nat
  /\ SCALE_FACTOR * SCALE_FACTOR <= DECIMAL_PRECISION
  /\ ProvideAmounts \subseteq Nat \ {0} /\ WithdrawAmounts \subseteq Nat
  /\ Offsets \subseteq [debt : Nat \ {0}, coll : Amounts]
  /\ DepositCap \in Nat /\ CollCap \in Nat /\ SumCap \in Nat /\ MaxEpoch \in Nat /\ MaxScale \in Nat

VARIABLES
  initialValue, frontEndTag,         \* deposits: struct Deposit
  depositSnapshots,                  \* S of each collateral, P, scale and epoch
  frontEndStakes, frontEndSnapshots, \* the same for front ends, address(0) included
  registered,                        \* frontEnds[...].registered
  totalUSDEDeposits,
  P, currentScale, currentEpoch,
  epochToScaleToSum,
  lastUSDELossError, lastCollError,  \* lastUSDELossError_Offset, lastCollError_Offset
  collBalance,                       \* the pool's balance of each collateral
  support,                           \* CollateralManager.collateralSupport
  paused

depositVars  == <<initialValue, frontEndTag, depositSnapshots, registered>>
frontEndVars == <<frontEndStakes, frontEndSnapshots>>
offsetVars   == <<P, currentScale, currentEpoch, epochToScaleToSum,
                  lastUSDELossError, lastCollError>>
ownerVars    == <<support, paused>>
vars == <<depositVars, frontEndVars, totalUSDEDeposits, offsetVars, collBalance, ownerVars>>

MinOf(a, b) == IF a < b THEN a ELSE b
Snapshots == [S : Amounts, P : Nat, scale : 0..MaxScale, epoch : Epochs]
NoSnapshot == [S |-> [c \in Collaterals |-> 0], P |-> 0, scale |-> 0, epoch |-> 0]
Zeros == [c \in Collaterals |-> 0]

-----------------------------------------------------------------------------
(* Compounded deposits and gains.                                          *)

\* Mutant: a stake made in the scale before is not divided.
Product_Undivided(stake, snap) ==
  IF currentScale - snap.scale \in {0, 1} THEN (stake * P) \div snap.P ELSE 0

Product(stake, snap) ==
  LET scaleDiff == currentScale - snap.scale
      product == (stake * P) \div snap.P
  IN  CASE scaleDiff = 0 -> product
        [] scaleDiff = 1 -> product \div SCALE_FACTOR
        [] OTHER -> 0

\* Mutant: a stake made before the pool was emptied is still worth something.
CompoundedStake_AnyEpoch(stake, snap) ==
  IF stake = 0 THEN 0 ELSE MinOf(Product(stake, snap), totalUSDEDeposits)

\* Less than a billionth counts as nothing.
CompoundedStake(stake, snap) ==
  IF stake = 0 \/ snap.epoch < currentEpoch THEN 0
  ELSE LET capped == MinOf(Product(stake, snap), totalUSDEDeposits)
       IN  IF capped < stake \div SCALE_FACTOR THEN 0 ELSE capped

CompoundedDeposit(u) == CompoundedStake(initialValue[u], depositSnapshots[u])
CompoundedFrontEndStake(f) == CompoundedStake(frontEndStakes[f], frontEndSnapshots[f])

SumSince(snap, c) ==
  epochToScaleToSum[c][snap.epoch][snap.scale] - snap.S[c]
    + epochToScaleToSum[c][snap.epoch][snap.scale + 1] \div SCALE_FACTOR

CollateralGain(u) ==
  [c \in Collaterals |->
     IF initialValue[u] = 0 \/ c \notin support THEN 0
     ELSE ((initialValue[u] * SumSince(depositSnapshots[u], c))
             \div depositSnapshots[u].P) \div DECIMAL_PRECISION]

\* SafeMath: getDepositorCollateralGain reverts where the sum S is below its snapshot.
GainComputable(u) ==
  \A c \in support :
    LET snap == depositSnapshots[u]
    IN  initialValue[u] # 0 => epochToScaleToSum[c][snap.epoch][snap.scale] >= snap.S[c]

\* SafeMath: a depositor's call reverts where the loss it logs, the deposit
\* less what is left of it, is negative.
LossComputable(u) == CompoundedDeposit(u) <= initialValue[u]

\* currentScale - scaleSnapshot and the divisions by P of the snapshot succeed.
NotAhead(snap) ==
  /\ snap.P # 0
  /\ snap.epoch <= currentEpoch
  /\ snap.epoch = currentEpoch => snap.scale <= currentScale

-----------------------------------------------------------------------------
(* Depositors.                                                             *)

CurrentS(c) == epochToScaleToSum[c][currentEpoch][currentScale]

\* _updateDepositAndSnapshots: the sums of unsupported collaterals stay as they are.
UpdateDeposit(u, newValue, tag) ==
  LET S == [c \in Collaterals |-> CASE c \notin support -> depositSnapshots[u].S[c]
                                    [] newValue = 0 -> 0
                                    [] OTHER -> CurrentS(c)]
      snap == IF newValue = 0 THEN [NoSnapshot EXCEPT !.S = S]
              ELSE [S |-> S, P |-> P, scale |-> currentScale, epoch |-> currentEpoch]
  IN  /\ initialValue' = [initialValue EXCEPT ![u] = newValue]
      /\ frontEndTag' = [frontEndTag EXCEPT ![u] = IF newValue = 0 THEN NoFrontEnd ELSE tag]
      /\ depositSnapshots' = [depositSnapshots EXCEPT ![u] = snap]

\* _updateFrontEndStakeAndSnapshots; the snapshot of a front end has no S.
UpdateFrontEndStake(f, newValue) ==
  /\ frontEndStakes' = [frontEndStakes EXCEPT ![f] = newValue]
  /\ frontEndSnapshots' = [frontEndSnapshots EXCEPT ![f] =
       IF newValue = 0 THEN NoSnapshot
       ELSE [S |-> Zeros, P |-> P, scale |-> currentScale, epoch |-> currentEpoch]]

PayGain(u) ==
  /\ GainComputable(u) /\ LossComputable(u)
  /\ \A c \in Collaterals : CollateralGain(u)[c] <= collBalance[c]
  /\ collBalance' = [c \in Collaterals |-> collBalance[c] - CollateralGain(u)[c]]

\* The tag is chosen with the first deposit and kept by a top-up.
ProvideToSP(u, amount, tag) ==
  LET frontEnd == IF initialValue[u] = 0 THEN tag ELSE frontEndTag[u]
  IN  /\ ~paused
      /\ tag \in registered \cup {NoFrontEnd} /\ u \notin registered
      /\ amount > 0 /\ totalUSDEDeposits + amount <= DepositCap
      /\ PayGain(u)
      /\ UpdateFrontEndStake(frontEnd, CompoundedFrontEndStake(frontEnd) + amount)
      /\ UpdateDeposit(u, CompoundedDeposit(u) + amount, frontEnd)
      /\ totalUSDEDeposits' = totalUSDEDeposits + amount
      /\ UNCHANGED <<registered, offsetVars, ownerVars>>

\* A positive amount needs the trove at the tail of the list to be above the
\* MCR; that is the state of other contracts and may hold or not.
WithdrawFromSP(u, amount) ==
  LET withdrawn == MinOf(amount, CompoundedDeposit(u))
      frontEnd == frontEndTag[u]
  IN  /\ ~paused /\ initialValue[u] # 0
      /\ PayGain(u)
      /\ CompoundedFrontEndStake(frontEnd) >= withdrawn
      /\ UpdateFrontEndStake(frontEnd, CompoundedFrontEndStake(frontEnd) - withdrawn)
      /\ UpdateDeposit(u, CompoundedDeposit(u) - withdrawn, frontEnd)
      /\ totalUSDEDeposits' = totalUSDEDeposits - withdrawn
      /\ UNCHANGED <<registered, offsetVars, ownerVars>>

\* The gain goes to the caller's trove, through moveCollGainToTrove.
WithdrawCollateralGainToTrove(u) ==
  /\ ~paused /\ initialValue[u] # 0
  /\ \E c \in Collaterals : CollateralGain(u)[c] # 0
  /\ PayGain(u)
  /\ UpdateFrontEndStake(frontEndTag[u], CompoundedFrontEndStake(frontEndTag[u]))
  /\ UpdateDeposit(u, CompoundedDeposit(u), frontEndTag[u])
  /\ UNCHANGED <<registered, totalUSDEDeposits, offsetVars, ownerVars>>

RegisterFrontEnd(u) ==
  /\ u \in Registrants \ registered /\ initialValue[u] = 0
  /\ registered' = registered \cup {u}
  /\ UNCHANGED <<initialValue, frontEndTag, depositSnapshots, frontEndVars,
                 totalUSDEDeposits, offsetVars, collBalance, ownerVars>>

-----------------------------------------------------------------------------
(* offset.                                                                 *)

LossNumerator(debt) == debt * DECIMAL_PRECISION - lastUSDELossError

\* "Slightly too much" loss, unless the pool is emptied.
LossPerUnitStaked(debt) ==
  IF debt = totalUSDEDeposits THEN DECIMAL_PRECISION
  ELSE LossNumerator(debt) \div totalUSDEDeposits + 1

LossError(debt) ==
  IF debt = totalUSDEDeposits THEN 0
  ELSE LossPerUnitStaked(debt) * totalUSDEDeposits - LossNumerator(debt)

CollNumerator(coll, c) == coll[c] * DECIMAL_PRECISION + lastCollError[c]

\* Mutant: the sum is not weighted by P.
GainPerUnitStaked_Unweighted(coll, c) ==
  (CollNumerator(coll, c) * DECIMAL_PRECISION) \div totalUSDEDeposits

GainPerUnitStaked(coll, c) == (CollNumerator(coll, c) * P) \div totalUSDEDeposits

\* _updateRewardSumAndProduct, the sums.
UpdateSums(coll) ==
  /\ epochToScaleToSum' =
       [c \in Collaterals |->
          IF c \notin support THEN epochToScaleToSum[c]
          ELSE [epochToScaleToSum[c] EXCEPT ![currentEpoch][currentScale] =
                  @ + GainPerUnitStaked(coll, c)]]
  /\ lastCollError' =
       [c \in Collaterals |->
          IF c \notin support THEN lastCollError[c]
          ELSE CollNumerator(coll, c)
                 - (GainPerUnitStaked(coll, c) * totalUSDEDeposits) \div P]

\* Mutant: the scale starts again but the epoch stays.
EmptyPool_SameEpoch ==
  /\ currentScale' = 0
  /\ P' = DECIMAL_PRECISION
  /\ UNCHANGED currentEpoch

\* _updateRewardSumAndProduct, the product: a new epoch where the factor is
\* zero, a new scale where P would fall below SCALE_FACTOR.
EmptyPool ==
  /\ currentEpoch < MaxEpoch
  /\ currentEpoch' = currentEpoch + 1
  /\ currentScale' = 0
  /\ P' = DECIMAL_PRECISION

\* Mutant: P is rescaled but the scale is not counted.
ShrinkProduct_Uncounted(factor) ==
  /\ P' = IF (P * factor) \div DECIMAL_PRECISION < SCALE_FACTOR
            THEN (P * factor * SCALE_FACTOR) \div DECIMAL_PRECISION
            ELSE (P * factor) \div DECIMAL_PRECISION
  /\ P' # 0
  /\ UNCHANGED <<currentScale, currentEpoch>>

\* Mutant: P may become zero.
ShrinkProduct_Zero(factor) ==
  IF (P * factor) \div DECIMAL_PRECISION < SCALE_FACTOR
    THEN /\ currentScale < MaxScale
         /\ P' = (P * factor * SCALE_FACTOR) \div DECIMAL_PRECISION
         /\ currentScale' = currentScale + 1
         /\ UNCHANGED currentEpoch
    ELSE /\ P' = (P * factor) \div DECIMAL_PRECISION
         /\ UNCHANGED <<currentScale, currentEpoch>>

ShrinkProduct(factor) ==
  IF (P * factor) \div DECIMAL_PRECISION < SCALE_FACTOR
    THEN /\ currentScale < MaxScale
         /\ P' = (P * factor * SCALE_FACTOR) \div DECIMAL_PRECISION
         /\ P' # 0
         /\ currentScale' = currentScale + 1
         /\ UNCHANGED currentEpoch
    ELSE /\ P' = (P * factor) \div DECIMAL_PRECISION
         /\ UNCHANGED <<currentScale, currentEpoch>>

TotalOfSums(c) ==
  SumFunction([e \in Epochs |-> SumFunction(epochToScaleToSum[c][e])])

\* offset: returns at once where there is nothing to offset or to offset it with.
Offset(debt, coll) ==
  /\ ~paused
  /\ totalUSDEDeposits # 0 /\ debt # 0
  /\ debt <= totalUSDEDeposits
  /\ debt # totalUSDEDeposits => LossNumerator(debt) >= 0
  /\ \A c \in Collaterals \ support : coll[c] = 0
  /\ lastUSDELossError' = LossError(debt)
  /\ UpdateSums(coll)
  /\ LET factor == DECIMAL_PRECISION - LossPerUnitStaked(debt)
     IN  /\ factor >= 0
         /\ IF factor = 0 THEN EmptyPool ELSE ShrinkProduct(factor)
  /\ totalUSDEDeposits' = totalUSDEDeposits - debt
  /\ collBalance' = [c \in Collaterals |-> collBalance[c] + coll[c]]
  /\ \A c \in Collaterals : collBalance'[c] <= CollCap
  /\ \A c \in Collaterals : TotalOfSums(c)' <= SumCap
  /\ UNCHANGED <<depositVars, frontEndVars, ownerVars>>

-----------------------------------------------------------------------------
(* The owner.                                                              *)

SetPause(val) ==
  /\ paused' = val
  /\ UNCHANGED <<depositVars, frontEndVars, totalUSDEDeposits, offsetVars, collBalance, support>>

\* CollateralManager.removeCollateral, of a paused collateral that is not the last.
RemoveCollateral(c) ==
  /\ c \in support /\ support # {c}
  /\ support' = support \ {c}
  /\ UNCHANGED <<depositVars, frontEndVars, totalUSDEDeposits, offsetVars, collBalance, paused>>

AddCollateral(c) ==
  /\ c \notin support
  /\ support' = support \cup {c}
  /\ UNCHANGED <<depositVars, frontEndVars, totalUSDEDeposits, offsetVars, collBalance, paused>>

-----------------------------------------------------------------------------
Init ==
  /\ initialValue = [u \in Users |-> 0]
  /\ frontEndTag = [u \in Users |-> NoFrontEnd]
  /\ depositSnapshots = [u \in Users |-> NoSnapshot]
  /\ frontEndStakes = [f \in FrontEnds |-> 0]
  /\ frontEndSnapshots = [f \in FrontEnds |-> NoSnapshot]
  /\ registered = {}
  /\ totalUSDEDeposits = 0
  /\ P = DECIMAL_PRECISION /\ currentScale = 0 /\ currentEpoch = 0
  /\ epochToScaleToSum = [c \in Collaterals |-> [e \in Epochs |-> [s \in Scales |-> 0]]]
  /\ lastUSDELossError = 0
  /\ lastCollError = Zeros
  /\ collBalance = Zeros
  /\ support = Collaterals
  /\ paused = FALSE

DepositorCall(u) ==
  \/ \E amount \in ProvideAmounts, tag \in FrontEnds : ProvideToSP(u, amount, tag)
  \/ \E amount \in WithdrawAmounts : WithdrawFromSP(u, amount)
  \/ WithdrawCollateralGainToTrove(u)

OffsetStep == \E o \in Offsets : Offset(o.debt, o.coll)

Next ==
  \/ \E u \in Users : DepositorCall(u) \/ RegisterFrontEnd(u)
  \/ OffsetStep
  \/ \E val \in BOOLEAN : SetPause(val)

Spec == Init /\ [][Next]_vars

\* The owner also changes the set of supported collaterals.
NextWithSupportChanges ==
  Next \/ \E c \in Removable : RemoveCollateral(c) \/ AddCollateral(c)

SpecWithSupportChanges == Init /\ [][NextWithSupportChanges]_vars


-----------------------------------------------------------------------------
(* Properties.                                                             *)

\* The types of the state; P never becomes zero.
TypeOK ==
  /\ initialValue \in [Users -> Nat] /\ frontEndTag \in [Users -> FrontEnds]
  /\ depositSnapshots \in [Users -> Snapshots]
  /\ frontEndStakes \in [FrontEnds -> Nat] /\ frontEndSnapshots \in [FrontEnds -> Snapshots]
  /\ registered \subseteq Users /\ totalUSDEDeposits \in Nat
  /\ P \in 1..DECIMAL_PRECISION
  /\ currentScale \in 0..MaxScale /\ currentEpoch \in Epochs
  /\ epochToScaleToSum \in [Collaterals -> [Epochs -> [Scales -> Nat]]]
  /\ lastUSDELossError \in Nat /\ lastCollError \in Amounts
  /\ collBalance \in Amounts /\ support \subseteq Collaterals /\ paused \in BOOLEAN

\* No snapshot of a deposit or of a front end is ahead of the pool, no S of a
\* deposit is above the sum it was taken from, and no deposit has outgrown
\* what it was, across rescalings and emptied pools: a subtraction or division
\* that failed on one would lock the deposit in, withdrawals included.
SnapshotsNotAhead ==
  /\ \A u \in Users : initialValue[u] # 0 =>
       NotAhead(depositSnapshots[u]) /\ GainComputable(u) /\ LossComputable(u)
  /\ \A f \in FrontEnds : frontEndStakes[f] # 0 => NotAhead(frontEndSnapshots[f])

\* What product and snapshot make of a deposit, before it is capped at the pool's total.
Uncapped(u) ==
  IF initialValue[u] = 0 \/ depositSnapshots[u].epoch < currentEpoch THEN 0
  ELSE Product(initialValue[u], depositSnapshots[u])

TotalUncapped == SumFunction([u \in Users |-> Uncapped(u)])

\* The deposits together, even without the cap at the pool's total, never
\* outgrow the pool by more than one part in DECIMAL_PRECISION of the most the
\* pool ever held; a pool below DECIMAL_PRECISION covers them exactly.  It is
\* not zero in general: the error fed back by one offset is left out of the
\* next one's loss.
DepositsCovered == (TotalUncapped - totalUSDEDeposits) * DECIMAL_PRECISION <= DepositCap

\* The pool holds the collateral all depositors together can claim, in any
\* order, through top-ups, partial losses, rescalings and emptied pools, as
\* long as amounts are small against DECIMAL_PRECISION.  Where deposits outgrow
\* the pool, an offset promises more collateral than it brings, in the same
\* proportion.
GainsCovered ==
  \A c \in Collaterals : SumFunction([u \in Users |-> CollateralGain(u)[c]]) <= collBalance[c]

\* What one depositor does changes nobody else's gain, and nobody else's
\* deposit that the pool covers: only one that by itself exceeds all that is
\* left of the pool moves, with the cap.
OthersUntouched ==
  [][\A u \in Users : DepositorCall(u) =>
       \A v \in Users \ {u} :
         /\ CollateralGain(v)' = CollateralGain(v)
         /\ \/ CompoundedDeposit(v)' = CompoundedDeposit(v)
            \/ Uncapped(v) > MinOf(totalUSDEDeposits, totalUSDEDeposits')]_vars

\* An offset turns deposits into gains and never the other way: it enlarges
\* nobody's deposit and takes from nobody's gain, where it rescales P or
\* empties the pool, too.
OffsetOnlyConverts ==
  [][OffsetStep =>
       \A u \in Users : /\ CompoundedDeposit(u)' <= CompoundedDeposit(u)
                        /\ \A c \in Collaterals : CollateralGain(u)'[c] >= CollateralGain(u)[c]]_vars

\* "We want 'slightly too much' USDE loss, which ensures the error in any given
\* compoundedUSDEDeposit favors the Stability Pool" (comment of
\* _computeRewardsPerUnitStaked): then the deposits together are no more than
\* the pool, and whoever withdraws last still gets all of one.
ErrorFavoursPool == SumFunction([u \in Users |-> CompoundedDeposit(u)]) <= totalUSDEDeposits

\* "If _amount > userDeposit, the user withdraws all of their compounded
\* deposit" (comment of withdrawFromSP): the stake of the front end, from
\* which the withdrawal is subtracted, is no smaller than the deposit.
WholeWithdrawal ==
  \A u \in Users : CompoundedDeposit(u) <= CompoundedFrontEndStake(frontEndTag[u])

\* "Calculate the collateral gain earned by the deposit since its last
\* snapshots were taken" (comment of getDepositorCollateralGain): every offset
\* changes P, the scale or the epoch, so a deposit whose snapshot has the
\* current ones was there for none and has no gain.
GainsSinceSnapshots ==
  \A u \in Users :
    LET snap == depositSnapshots[u]
    IN  /\ initialValue[u] # 0
        /\ <<snap.P, snap.scale, snap.epoch>> = <<P, currentScale, currentEpoch>>
        => CollateralGain(u) = Zeros
=============================================================================
