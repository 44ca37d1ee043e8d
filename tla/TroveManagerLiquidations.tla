---------------------- MODULE TroveManagerLiquidations ----------------------
(***************************************************************************)
(* liquidateTroves and batchLiquidateTroves.  Both walk over troves, close *)
(* those they may, add up what each leaves behind, and settle the totals   *)
(* once at the end: first against the StabilityPool, then by spreading the *)
(* rest over the remaining stakes, then the surplus, the new system        *)
(* snapshots and the liquidator's compensation.                            *)
(*                                                                         *)
(* The walk is a function of the state: run[i] is the accumulator after i  *)
(* troves.  The current ICRs it reads are those of the state before the    *)
(* call, since closing a trove changes no other trove.                     *)
(***************************************************************************)
EXTENDS TroveManager

(* LiquidationValues of one trove, LiquidationTotals of a walk, with what   *)
(* the closed troves take out of the DefaultPool and out of totalStakes.    *)
ZeroVals == [debt |-> 0, offset |-> 0, redist |-> 0, gas |-> 0, pendDebt |-> 0,
             toSP |-> Zeros, redColl |-> Zeros, gasColl |-> Zeros, surplus |-> Zeros,
             pendColl |-> Zeros, stakes |-> Zeros]

\* Mutant: the stakes of the last closed trove only.
AddVals_LastStakes(v, w) ==
  [debt |-> v.debt + w.debt, offset |-> v.offset + w.offset,
   redist |-> v.redist + w.redist, gas |-> v.gas + w.gas,
   pendDebt |-> v.pendDebt + w.pendDebt,
   toSP |-> Plus(v.toSP, w.toSP), redColl |-> Plus(v.redColl, w.redColl),
   gasColl |-> Plus(v.gasColl, w.gasColl), surplus |-> Plus(v.surplus, w.surplus),
   pendColl |-> Plus(v.pendColl, w.pendColl), stakes |-> w.stakes]

\* addLiquidationValuesToTotals
AddVals(v, w) ==
  [debt |-> v.debt + w.debt, offset |-> v.offset + w.offset,
   redist |-> v.redist + w.redist, gas |-> v.gas + w.gas,
   pendDebt |-> v.pendDebt + w.pendDebt,
   toSP |-> Plus(v.toSP, w.toSP), redColl |-> Plus(v.redColl, w.redColl),
   gasColl |-> Plus(v.gasColl, w.gasColl), surplus |-> Plus(v.surplus, w.surplus),
   pendColl |-> Plus(v.pendColl, w.pendColl), stakes |-> Plus(v.stakes, w.stakes)]

\* The part of coll sent to the StabilityPool when offset of debt is paid there.
CollToSP(coll, debt, offset) ==
  IF offset = 0 THEN Zeros ELSE Drawn(coll, (ValueOf(coll) * offset) \div debt)

\* Mutant: all is redistributed, whatever was offset.
FullVals_AllShared(b, left) ==
  LET gasColl == CollGasCompensation(EntireColl(b))
      coll == Minus(EntireColl(b), gasColl)
      offset == MinOf(EntireDebt(b), left)
  IN  [debt |-> EntireDebt(b), offset |-> offset, redist |-> EntireDebt(b),
       gas |-> USDE_GAS_COMPENSATION, pendDebt |-> PendingUSDEDebtReward(b),
       toSP |-> CollToSP(coll, EntireDebt(b), offset), redColl |-> coll,
       gasColl |-> gasColl, surplus |-> Zeros,
       pendColl |-> PendingCollReward(b), stakes |-> stakes[b]]

\* Mutant: all that is left in the StabilityPool is used, also when it is
\* more than the debt.
FullVals_WholePool(b, left) ==
  LET gasColl == CollGasCompensation(EntireColl(b))
      coll == Minus(EntireColl(b), gasColl)
      toSP == CollToSP(coll, EntireDebt(b), left)
  IN  [debt |-> EntireDebt(b), offset |-> left, redist |-> EntireDebt(b) - left,
       gas |-> USDE_GAS_COMPENSATION, pendDebt |-> PendingUSDEDebtReward(b),
       toSP |-> toSP, redColl |-> Minus(coll, toSP), gasColl |-> gasColl,
       surplus |-> Zeros, pendColl |-> PendingCollReward(b), stakes |-> stakes[b]]

\* Offset against the left USDE, redistribute the rest: _liquidateNormalMode,
\* and _liquidateRecoveryMode below the MCR (left = 0 at or below 100%).
FullVals(b, left) ==
  LET gasColl == CollGasCompensation(EntireColl(b))
      coll == Minus(EntireColl(b), gasColl)
      offset == MinOf(EntireDebt(b), left)
      toSP == CollToSP(coll, EntireDebt(b), offset)
  IN  [debt |-> EntireDebt(b), offset |-> offset, redist |-> EntireDebt(b) - offset,
       gas |-> USDE_GAS_COMPENSATION, pendDebt |-> PendingUSDEDebtReward(b),
       toSP |-> toSP, redColl |-> Minus(coll, toSP), gasColl |-> gasColl,
       surplus |-> Zeros, pendColl |-> PendingCollReward(b), stakes |-> stakes[b]]

\* Mutant: the StabilityPool gets all of the collateral.
CappedVals_Uncapped(b) ==
  LET gasColl == CollGasCompensation(EntireColl(b))
  IN  [debt |-> EntireDebt(b), offset |-> EntireDebt(b), redist |-> 0,
       gas |-> USDE_GAS_COMPENSATION, pendDebt |-> PendingUSDEDebtReward(b),
       toSP |-> Minus(EntireColl(b), gasColl), redColl |-> Zeros, gasColl |-> gasColl,
       surplus |-> Zeros, pendColl |-> PendingCollReward(b), stakes |-> stakes[b]]

\* _getCappedOffsetVals: the StabilityPool pays the whole debt and gets MCR
\* times its value; the owner may claim the rest.
CappedVals(b) ==
  LET capped == Drawn(EntireColl(b), (EntireDebt(b) * MCR) \div DECIMAL_PRECISION)
      gasColl == CollGasCompensation(capped)
  IN  [debt |-> EntireDebt(b), offset |-> EntireDebt(b), redist |-> 0,
       gas |-> USDE_GAS_COMPENSATION, pendDebt |-> PendingUSDEDebtReward(b),
       toSP |-> Minus(capped, gasColl), redColl |-> Zeros, gasColl |-> gasColl,
       surplus |-> Minus(EntireColl(b), capped),
       pendColl |-> PendingCollReward(b), stakes |-> stakes[b]]

-----------------------------------------------------------------------------
(* The accumulator of a walk.                                              *)

Start ==
  [left |-> totalUSDEDeposits, normal |-> ~RecoveryMode, stopped |-> FALSE,
   reverted |-> FALSE, sysDebt |-> EntireSystemDebt, sysColl |-> PooledColl,
   closed |-> {}, owners |-> TroveOwners, index |-> arrayIndex, list |-> list,
   surplus |-> surplus, totals |-> ZeroVals]

RecoveryVals(acc, b) ==
  LET icr == CurrentICR(b)
  IN  IF Len(acc.owners) <= 1 THEN ZeroVals
      ELSE IF icr <= DECIMAL_PRECISION THEN FullVals(b, 0)
      ELSE IF icr < MCR THEN FullVals(b, acc.left)
      ELSE IF /\ icr < ComputeCR(ValueOf(acc.sysColl), acc.sysDebt)
              /\ EntireDebt(b) <= acc.left
        THEN CappedVals(b)
      ELSE ZeroVals

\* Close b, or not when it has no values (last trove, or out of reach).
Closing(acc, b, v) ==
  IF v = ZeroVals THEN acc
  ELSE IF ~MayClose(acc.owners, acc.list) THEN [acc EXCEPT !.reverted = TRUE]
  ELSE [acc EXCEPT !.left = @ - v.offset,
                   !.closed = @ \cup {b},
                   !.owners = OwnersWithout(acc.owners, acc.index, b),
                   !.index = IndexWithout(acc.owners, acc.index, b),
                   !.list = Without(@, b),
                   !.surplus[b] = Plus(@, v.surplus),
                   !.totals = AddVals(@, v)]

\* The running totals of recovery mode, and whether they end it.
Tracked(acc, v) ==
  LET debt == acc.sysDebt - v.offset
      coll == Minus(acc.sysColl, Plus(Plus(v.toSP, v.gasColl), v.surplus))
  IN  [acc EXCEPT !.sysDebt = debt, !.sysColl = coll,
                  !.reverted = @ \/ debt < 0 \/ ~Covers(coll, Zeros),
                  !.normal = ComputeCR(ValueOf(coll), debt) >= CCR]

\* A trove the walk passes over: closed, or safe with nothing to offset.
Spared(acc, b) ==
  \/ ~IsActive(b) \/ b \in acc.closed
  \/ CurrentICR(b) >= MCR /\ (acc.normal \/ acc.left = 0)

\* One trove of the walk.  liquidateTroves stops at the first trove it would
\* pass over, batchLiquidateTroves goes on to the next.
Process(acc, b, stopAtSpared) ==
  IF acc.reverted \/ acc.stopped THEN acc
  ELSE IF Spared(acc, b) THEN [acc EXCEPT !.stopped = stopAtSpared]
  ELSE IF acc.normal THEN Closing(acc, b, FullVals(b, acc.left))
  ELSE Tracked(Closing(acc, b, RecoveryVals(acc, b)), RecoveryVals(acc, b))

RunOver(owners, stopAtSpared) ==
  LET run[i \in 0..Len(owners)] ==
        IF i = 0 THEN Start ELSE Process(run[i - 1], owners[i], stopAtSpared)
  IN  run[Len(owners)]

-----------------------------------------------------------------------------
\* Mutant: each collateral carries all of the debt.
Prorated_Full(t) == [c \in Collaterals |-> IF t.redColl[c] > 0 THEN t.redist ELSE 0]

\* The share of the debt each collateral carries, by its value.
Prorated(t) ==
  LET value == Values(t.redColl)
      total == ValueOf(t.redColl)
  IN  [c \in Collaterals |-> IF total > 0 THEN (value[c] * t.redist) \div total ELSE 0]

\* redistributeDebtAndColl: add to the sums per unit staked, for the
\* collaterals somebody still has a stake in, with the error fed back.
Redistribute(t) ==
  LET shared == Minus(totalStakes, t.stakes)
      collNumerator(c) == t.redColl[c] * DECIMAL_PRECISION + lastCollError[c]
      debtNumerator(c) == Prorated(t)[c] * DECIMAL_PRECISION + lastUSDEDebtError[c]
      Share(sum, numerator(_)) ==
        [c \in Collaterals |->
           IF shared[c] = 0 THEN sum[c] ELSE sum[c] + numerator(c) \div shared[c]]
      Error(last, numerator(_)) ==
        [c \in Collaterals |->
           IF shared[c] = 0 THEN last[c] ELSE numerator(c) % shared[c]]
  IN  IF t.redist = 0 THEN UNCHANGED rewardVars
      ELSE /\ E_Coll' = Share(E_Coll, collNumerator)
           /\ E_USDEDebt' = Share(E_USDEDebt, debtNumerator)
           /\ lastCollError' = Error(lastCollError, collNumerator)
           /\ lastUSDEDebtError' = Error(lastUSDEDebtError, debtNumerator)

\* updateSystemSnapshots_excludeCollRemainder: what the pools will hold once
\* the liquidator has taken gasColl, for the collaterals gasColl has some of.
TakeSystemSnapshots(gasColl) ==
  /\ totalStakesSnapshot' = [c \in Collaterals |->
       IF gasColl[c] = 0 THEN totalStakesSnapshot[c] ELSE totalStakes'[c]]
  /\ totalCollateralSnapshot' = [c \in Collaterals |->
       IF gasColl[c] = 0 THEN totalCollateralSnapshot[c]
       ELSE activeColl'[c] + defaultColl'[c]]

Settle(acc) ==
  LET t == acc.totals
      toDefault == IF t.redist = 0 THEN Zeros ELSE t.redColl
      pooled == Plus(activeColl, t.pendColl)
      afterSP == Minus(pooled, t.toSP)
      afterDefault == Minus(afterSP, toDefault)
      afterSurplus == Minus(afterDefault, t.surplus)
      closed == acc.closed
  IN  /\ ~acc.reverted
      /\ t.debt # 0
      /\ Covers(totalStakes, t.stakes)
      /\ Covers(defaultColl, t.pendColl)
      /\ PayableToPools(t.toSP, pooled)
      /\ PayableToPools(toDefault, afterSP)
      /\ PayableToPools(t.surplus, afterDefault)
      /\ PayableToUsers(t.gasColl, afterSurplus)
      /\ totalUSDEDeposits >= t.offset
      /\ gasPool >= t.gas
      /\ status' = [b \in Borrowers |->
                      IF b \in closed THEN "closedByLiquidation" ELSE status[b]]
      /\ TroveOwners' = acc.owners
      /\ arrayIndex' = acc.index
      /\ list' = acc.list
      /\ recorded' = [b \in Borrowers |-> IF b \in closed THEN 0 ELSE recorded[b]]
      /\ stakes' = [b \in Borrowers |-> IF b \in closed THEN Zeros ELSE stakes[b]]
      /\ totalStakes' = Minus(totalStakes, t.stakes)
      /\ snapshotColl' = [b \in Borrowers |-> IF b \in closed THEN Zeros ELSE snapshotColl[b]]
      /\ snapshotDebt' = [b \in Borrowers |-> IF b \in closed THEN Zeros ELSE snapshotDebt[b]]
      /\ troveDebt' = [b \in Borrowers |-> IF b \in closed THEN 0 ELSE troveDebt[b]]
      /\ troveDebtSupply' = troveDebtSupply - (t.debt - t.pendDebt - t.gas)
      /\ eToken' = [b \in Borrowers |-> IF b \in closed THEN Zeros ELSE eToken[b]]
      /\ surplus' = acc.surplus
      /\ Redistribute(t)
      /\ activeColl' = Minus(afterSurplus, t.gasColl)
      /\ defaultColl' = Plus(Minus(defaultColl, t.pendColl), toDefault)
      /\ defaultDebt' = Decreased(defaultDebt, t.pendDebt) + t.redist
      /\ activeDebt' = Decreased(Decreased(activeDebt + t.pendDebt, t.offset), t.redist)
      /\ totalUSDEDeposits' = totalUSDEDeposits - t.offset
      /\ wallets' = wallets + t.gas
      /\ gasPool' = gasPool - t.gas
      /\ TakeSystemSnapshots(t.gasColl)
      /\ UNCHANGED envVars

-----------------------------------------------------------------------------
\* batchLiquidateTroves, for the owners the caller lists, in that order.
BatchLiquidate(owners) == Settle(RunOver(owners, FALSE))

\* liquidateTroves: from the tail of the list up, at most n troves; the walk
\* of recovery mode leaves the head alone.
LiquidateTroves(n) ==
  LET upwards == Reverse(IF RecoveryMode THEN Tail(list) ELSE list)
  IN  /\ list # <<>>
      /\ Settle(RunOver(SubSeq(upwards, 1, MinOf(n, Len(upwards))), TRUE))
=============================================================================
