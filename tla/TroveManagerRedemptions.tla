---------------------- MODULE TroveManagerRedemptions -----------------------
(***************************************************************************)
(* redeemCollateral: USDE is exchanged at face value for collateral of the *)
(* troves that stand lowest in the list among those at or above the MCR.   *)
(* The walk goes up the list from there; every trove it meets but the last *)
(* is left without debt and closed.  And updateTroves, which lets anybody  *)
(* bring the recorded ICR of a trove up to date.                           *)
(*                                                                         *)
(* The rate of the redemption (base rate plus floor, capped) is any member *)
(* of RedemptionRates; who redeems is left out, as in BorrowerOperations.  *)
(***************************************************************************)
EXTENDS BorrowerOperations

CONSTANT RedemptionRates

ASSUME RedemptionsAssumption == RedemptionRates \subseteq 0..DECIMAL_PRECISION

\* Where the walk may start: the lowest trove at or above the MCR, or any
\* place that looks like it to _isValidFirstRedemptionHint.
FirstPositions ==
  {p \in 1..Len(list) :
     /\ CurrentICR(list[p]) >= MCR
     /\ p = Len(list) \/ CurrentICR(list[p + 1]) < MCR}

\* The owners met from position p upwards, at most n of them.
PathFrom(p, n) == [i \in 1..MinOf(n, p) |-> list[p + 1 - i]]

-----------------------------------------------------------------------------
(* The accumulator of the walk: the USDE left to redeem, the totals, and   *)
(* the parts of the state it changes as it goes, under their own names.    *)
NothingRedeemed(amount) ==
  [left |-> amount, redeemed |-> 0, drawn |-> Zeros, gas |-> 0,
   pendDebt |-> 0, pendColl |-> Zeros, touched |-> {}, closed |-> {}, partial |-> {}, newICR |-> 0,
   cancelled |-> FALSE, reverted |-> FALSE,
   owners |-> TroveOwners, index |-> arrayIndex, list |-> list,
   troveDebt |-> troveDebt, eToken |-> eToken, surplus |-> surplus,
   stakes |-> stakes, pooled |-> activeColl]

\* applyPendingRewards: the first thing done to every trove on the way.
Met(acc, b) ==
  [acc EXCEPT !.touched = IF HasPendingRewards(b) THEN @ \cup {b} ELSE @,
              !.pendDebt = @ + AppliedDebt(b),
              !.pendColl = Plus(@, AppliedColl(b)),
              !.troveDebt[b] = @ + AppliedDebt(b),
              !.eToken[b] = Plus(@, AppliedColl(b)),
              !.pooled = Plus(@, AppliedColl(b))]

Exchanged(acc, lot, drawn) ==
  [acc EXCEPT !.left = @ - lot, !.redeemed = @ + lot, !.drawn = Plus(@, drawn)]

\* No debt but the reserve is left: the trove is closed, the reserve burned
\* and the rest of the collateral kept for the owner to claim.
RedeemedInFull(acc, b, remains) ==
  IF ~MayClose(acc.owners, acc.list) \/ ~PayableToPools(remains, acc.pooled)
    THEN [acc EXCEPT !.reverted = TRUE]
    ELSE [acc EXCEPT !.closed = @ \cup {b},
                     !.gas = @ + USDE_GAS_COMPENSATION,
                     !.owners = OwnersWithout(acc.owners, acc.index, b),
                     !.index = IndexWithout(acc.owners, acc.index, b),
                     !.list = Without(@, b),
                     !.troveDebt[b] = 0,
                     !.eToken[b] = Zeros,
                     !.stakes[b] = Zeros,
                     !.surplus[b] = Plus(@, remains),
                     !.pooled = Minus(@, remains)]

\* resetEToken writes the amounts that are left, but not those that are zero.
ResetEToken(held, remains) ==
  [c \in Collaterals |-> IF remains[c] = 0 THEN held[c] ELSE remains[c]]

\* Mutant: the debt of the trove stays.
RedeemedInPart_DebtKept(acc, b, lot, remains, newICR) ==
  LET coll == ResetEToken(acc.eToken[b], remains)
  IN  IF newICR = 0 \/ ~StakeComputable THEN [acc EXCEPT !.reverted = TRUE]
      ELSE [acc EXCEPT !.partial = {b}, !.newICR = newICR, !.eToken[b] = coll,
                       !.stakes[b] = NewStakes(coll)]

RedeemedInPart(acc, b, lot, remains, newICR) ==
  LET coll == ResetEToken(acc.eToken[b], remains)
  IN  IF newICR = 0 \/ ~StakeComputable THEN [acc EXCEPT !.reverted = TRUE]
      ELSE [acc EXCEPT !.partial = {b},
                       !.newICR = newICR,
                       !.troveDebt[b] = @ - lot,
                       !.eToken[b] = coll,
                       !.stakes[b] = NewStakes(coll)]

\* _redeemCollateralFromTrove.  hintFresh says whether the new ICR is near
\* enough to the one the redeemer's hint was computed for.
RedeemFrom(acc, b, hintFresh) ==
  LET met == Met(acc, b)
      lot == MinOf(acc.left, met.troveDebt[b])
      drawn == Drawn(met.eToken[b], lot)
      remains == Minus(met.eToken[b], drawn)
      newNet == met.troveDebt[b] - lot
      newICR == ComputeCR(ValueOf(remains), newNet + USDE_GAS_COMPENSATION)
  IN  IF newNet = 0
        THEN RedeemedInFull(Exchanged(met, lot, drawn), b, remains)
      ELSE IF ~hintFresh \/ newNet < MIN_NET_DEBT
        THEN [met EXCEPT !.cancelled = TRUE]
      ELSE RedeemedInPart(Exchanged(met, lot, drawn), b, lot, remains, newICR)

RedeemStep(acc, b, hintFresh) ==
  IF acc.left = 0 \/ acc.cancelled \/ acc.reverted THEN acc
  ELSE RedeemFrom(acc, b, hintFresh)

RedeemAlong(path, amount, hintFresh) ==
  LET run[i \in 0..Len(path)] ==
        IF i = 0 THEN NothingRedeemed(amount)
        ELSE RedeemStep(run[i - 1], path[i], hintFresh)
  IN  run[Len(path)]

-----------------------------------------------------------------------------
\* _calcRedemptionFee
CollFees(drawn, rate) == [c \in Collaterals |-> (rate * drawn[c]) \div DECIMAL_PRECISION]

\* The end of redeemCollateral, for the walk that ended in acc.
SettleRedemption(acc, rate) ==
  LET fees == CollFees(acc.drawn, rate)
      toRedeemer == Minus(acc.drawn, fees)
      value == ValueOf(acc.drawn)
      afterFees == Minus(acc.pooled, fees)
      changed == acc.closed \cup acc.partial
      lost(c) == SumFunctionOnSet([b \in Borrowers |-> stakes[b][c]], changed)
      gained(c) == SumFunctionOnSet([b \in Borrowers |-> acc.stakes[b][c]], changed)
  IN  /\ ~acc.reverted
      /\ IsNonzero(acc.drawn)
      /\ (rate * value) \div DECIMAL_PRECISION < value
      /\ \A c \in Collaterals : acc.drawn[c] # 0 => fees[c] < acc.drawn[c]
      /\ PayableToPools(fees, acc.pooled)
      /\ PayableToUsers(toRedeemer, afterFees)
      /\ Covers(defaultColl, acc.pendColl)
      /\ gasPool >= acc.gas
      /\ \A c \in Collaterals : totalStakes[c] >= lost(c)
      /\ status' = [b \in Borrowers |->
                      IF b \in acc.closed THEN "closedByRedemption" ELSE status[b]]
      /\ TroveOwners' = acc.owners
      /\ arrayIndex' = acc.index
      /\ list' \in IF acc.partial = {} THEN {acc.list}
                   ELSE UNION {Replacements(acc.list, recorded, b, acc.newICR) : b \in acc.partial}
      /\ recorded' = [b \in Borrowers |-> IF b \in acc.closed THEN 0
                                          ELSE IF b \in acc.partial THEN acc.newICR
                                          ELSE recorded[b]]
      /\ stakes' = acc.stakes
      /\ totalStakes' = [c \in Collaterals |-> totalStakes[c] - lost(c) + gained(c)]
      /\ snapshotColl' = [b \in Borrowers |-> IF b \in acc.closed THEN Zeros
                            ELSE IF b \in acc.touched THEN E_Coll ELSE snapshotColl[b]]
      /\ snapshotDebt' = [b \in Borrowers |-> IF b \in acc.closed THEN Zeros
                            ELSE IF b \in acc.touched THEN E_USDEDebt ELSE snapshotDebt[b]]
      /\ troveDebt' = acc.troveDebt
      /\ troveDebtSupply' = troveDebtSupply + acc.pendDebt - acc.redeemed
      /\ eToken' = acc.eToken
      /\ surplus' = acc.surplus
      /\ activeColl' = Minus(afterFees, toRedeemer)
      /\ activeDebt' = Decreased(Decreased(activeDebt + acc.pendDebt, acc.gas), acc.redeemed)
      /\ defaultColl' = Minus(defaultColl, acc.pendColl)
      /\ defaultDebt' = Decreased(defaultDebt, acc.pendDebt)
      /\ wallets' = wallets - acc.redeemed
      /\ gasPool' = gasPool - acc.gas
      /\ UNCHANGED <<systemSnapshotVars, rewardVars, totalUSDEDeposits, envVars>>

\* redeemCollateral, after the bootstrap period.  A walk that finds nobody at
\* or above the MCR has no collateral to show and reverts.
RedeemCollateral(amount, p, n, hintFresh, rate) ==
  /\ TCR >= MCR
  /\ amount > 0 /\ amount <= wallets /\ amount <= EntireSystemDebt
  /\ p \in FirstPositions
  /\ SettleRedemption(RedeemAlong(PathFrom(p, n), amount, hintFresh), rate)

\* updateTroves, for one owner; a longer array is as many such calls in a row.
UpdateTrove(b) ==
  /\ ReInsertSorted(b, CurrentICR(b))
  /\ UNCHANGED <<status, TroveOwners, arrayIndex, stakeVars, snapshotVars,
                 systemSnapshotVars, rewardVars, debtVars, eToken, poolVars, surplus,
                 usdeVars, envVars>>
=============================================================================
