----------------------------- MODULE LedgerProofs -----------------------------
(***************************************************************************)
(* The accounts of the whole system hold, for every number of owners and   *)
(* collaterals: types, totals, debts of the pools, the USDE in circulation *)
(* and what the sums per unit staked promise to the troves.  And an owner  *)
(* whose trove is closed loses no more than the way of closing grants.     *)
(*                                                                         *)
(* One invariant, Ledger, carries it all.  Every handler is shown to keep  *)
(* it (LedgerStep); the walks of a liquidation and of a redemption need an *)
(* invariant of their accumulator each (LiquidationLedger,                 *)
(* RedemptionLedger), kept by every trove they meet.  What the sums of     *)
(* debt per unit staked promise needs a second one, DebtPromisesKept, and  *)
(* holds only from states where RewardsSeen does.                          *)
(*                                                                         *)
(* The last part compares ratios before and after a call: what a borrower  *)
(* may do to the mode of the system, and what a redemption leaves of the   *)
(* troves that stay open (RedemptionSpares, kept along its walk).          *)
(***************************************************************************)
EXTENDS ERDProofs

(* Arithmetic, and the types of the views.                                 *)

\* Quotient and remainder of natural numbers.
LEMMA Division ==
  ASSUME NEW a \in Nat, NEW d \in Nat \ {0}
  PROVE  /\ a \div d \in Nat /\ a % d \in Nat /\ d * (a \div d) \in Nat
         /\ d * (a \div d) <= a
         /\ a = d * (a \div d) + (a % d)
<1>1. a \div d \in Nat
  BY Z3
<1>2. a % d \in 0..(d - 1)
  BY Z3
<1>3. a = d * (a \div d) + (a % d)
  BY Z3
<1>4. d * (a \div d) <= a
  BY Z3
<1>5. d * (a \div d) \in Nat
  BY <1>1, Z3
<1> QED BY <1>1, <1>2, <1>3, <1>4, <1>5

\* A share of at most all of an amount.
LEMMA ShareOfAmount ==
  ASSUME NEW a \in Nat, NEW q \in Nat, NEW d \in Nat \ {0}, q <= d
  PROVE  (a * q) \div d \in Nat /\ (a * q) \div d <= a
<1>1. a * q \in Nat /\ a * q <= a * d
  BY Z3
<1>2. (a * q) \div d \in Nat /\ d * ((a * q) \div d) <= a * q
  BY <1>1, Division
<1> DEFINE r == (a * q) \div d
<1>3. d * r <= a * d /\ r \in Nat
  BY <1>1, <1>2, Z3
<1> HIDE DEF r
<1>4. r <= a
  BY <1>3, Z3
<1> QED BY <1>3, <1>4 DEF r

\* The ratio of a part to the whole is at most one.
LEMMA RatioOfPart ==
  ASSUME NEW l \in Nat, NEW v \in Nat \ {0}, l <= v, NEW d \in Nat \ {0}
  PROVE  (l * d) \div v \in Nat /\ (l * d) \div v <= d
<1>1. l * d \in Nat /\ l * d = d * l
  BY Z3
<1>2. (d * l) \div v \in Nat /\ (d * l) \div v <= d
  BY ShareOfAmount
<1> QED BY <1>1, <1>2

\* What the assumptions say of the constants, in the form the proofs cite.
LEMMA ConstantTypes ==
  /\ IsFiniteSet(Borrowers) /\ IsFiniteSet(Collaterals)
  /\ DECIMAL_PRECISION \in Nat \ {0} /\ PERCENT_DIVISOR \in Nat \ {0}
  /\ MCR \in Nat /\ CCR \in Nat /\ MIN_NET_DEBT \in Nat /\ MAX_UINT256 \in Nat
<1>1. IsFiniteSet(Collaterals)
  <2>1. CollateralSupport \in Seq(Collaterals) /\ ToSet(CollateralSupport) = Collaterals
    BY TroveManagerAssumption
  <2>2. Len(CollateralSupport) \in Nat /\ DOMAIN CollateralSupport = 1..Len(CollateralSupport)
    BY <2>1, LenProperties
  <2>3. CollateralSupport \in Surjection(1..Len(CollateralSupport), Collaterals)
    BY <2>1, <2>2 DEF ToSet, Surjection
  <2>4. IsFiniteSet(1..Len(CollateralSupport))
    BY <2>2, FS_Interval
  <2> QED BY <2>3, <2>4, FS_Surjection
<1> QED BY <1>1, TroveManagerAssumption

\* Adding up an amount per collateral.
LEMMA SumsOfAmounts ==
  ASSUME NEW f \in Amounts
  PROVE  /\ SumFunctionOnSet(f, Collaterals) \in Nat
         /\ SumFunction(f) = SumFunctionOnSet(f, Collaterals)
<1>1. DOMAIN f = Collaterals /\ \A c \in Collaterals : f[c] \in Nat
  BY DEF Amounts
<1>2. Collaterals \in SUBSET Collaterals
  OBVIOUS
<1> QED BY <1>1, <1>2, ConstantTypes, SumOfNaturals DEF SumFunction

\* Every price is a natural number.
Priced == price \in [Collaterals -> Nat \ {0}]

\* The value of amounts is a natural number.
LEMMA ValueIsNat ==
  ASSUME Priced, NEW f \in Amounts
  PROVE  Values(f) \in Amounts /\ ValueOf(f) \in Nat
<1>1. \A c \in Collaterals : f[c] \in Nat /\ price[c] \in Nat
  BY DEF Amounts, Priced
<1>2. \A c \in Collaterals : f[c] * price[c] \in Nat
  BY <1>1
<1>3. Values(f) \in Amounts
  BY <1>2 DEF Values, Amounts
<1> QED BY <1>3, SumsOfAmounts DEF ValueOf

\* A collateral ratio is a natural number, the infinite one too.
LEMMA RatioIsNat ==
  ASSUME NEW value \in Nat, NEW debt \in Nat
  PROVE  ComputeCR(value, debt) \in Nat
<1>1. value * DECIMAL_PRECISION \in Nat
  BY ConstantTypes
<1>2. debt > 0 => (value * DECIMAL_PRECISION) \div debt \in Nat
  BY <1>1, Division
<1> QED BY <1>2, ConstantTypes DEF ComputeCR

\* What is drawn is a part of what is there.
LEMMA DrawnIsPart ==
  ASSUME Priced, NEW f \in Amounts, NEW value \in Int
  PROVE  Drawn(f, value) \in Amounts /\ Covers(f, Drawn(f, value))
<1> DEFINE v == Values(f)
           left(c) == value - SumFunctionOnSet(v, DrawnBefore(c))
           drawn(c) == IF left(c) <= 0 \/ v[c] = 0 THEN 0
                       ELSE IF v[c] < left(c) THEN f[c]
                       ELSE (f[c] * ((left(c) * DECIMAL_PRECISION) \div v[c])) \div DECIMAL_PRECISION
<1>1. Drawn(f, value) = [c \in Collaterals |-> drawn(c)]
  BY DEF Drawn
<1>2. ASSUME NEW c \in Collaterals
      PROVE  drawn(c) \in Nat /\ drawn(c) <= f[c]
  <2>1. v \in Amounts /\ f[c] \in Nat
    BY ValueIsNat DEF Amounts
  <2>2. DrawnBefore(c) \in SUBSET Collaterals
    BY DEF DrawnBefore
  <2>3. \A x \in Collaterals : v[x] \in Nat
    BY <2>1 DEF Amounts
  <2>4. SumFunctionOnSet(v, DrawnBefore(c)) \in Nat
    <3> HIDE DEF v
    <3> QED BY <2>2, <2>3, ConstantTypes, SumOfNaturals
  <2>5. left(c) \in Int /\ v[c] \in Nat
    BY <2>3, <2>4
  <2> HIDE DEF v, left
  <2>6. CASE left(c) <= 0 \/ v[c] = 0
    BY <2>1, <2>6
  <2>7. CASE ~(left(c) <= 0 \/ v[c] = 0) /\ v[c] < left(c)
    BY <2>1, <2>7
  <2>8. CASE ~(left(c) <= 0 \/ v[c] = 0) /\ ~(v[c] < left(c))
    <3> DEFINE q == (left(c) * DECIMAL_PRECISION) \div v[c]
    <3>1. left(c) \in Nat /\ v[c] \in Nat \ {0} /\ left(c) <= v[c]
      BY <2>5, <2>8
    <3>2. q \in Nat /\ q <= DECIMAL_PRECISION
      BY <3>1, ConstantTypes, RatioOfPart
    <3>3. drawn(c) = (f[c] * q) \div DECIMAL_PRECISION
      BY <2>8
    <3> HIDE DEF q, drawn
    <3> QED BY <2>1, <3>2, <3>3, ConstantTypes, ShareOfAmount
  <2> QED BY <2>6, <2>7, <2>8
<1> HIDE DEF drawn
<1> QED BY <1>1, <1>2 DEF Amounts, Covers

-----------------------------------------------------------------------------
(* The invariant.                                                          *)

\* A sum over all owners, and the amounts they hold of one collateral.
Total(f) == SumFunctionOnSet(f, Borrowers)
Col(f, c) == [b \in Borrowers |-> f[b][c]]

\* No trove has seen more of the sums per unit staked than there is.
SnapshotsBehind ==
  \A b \in Borrowers, c \in Collaterals :
    snapshotColl[b][c] <= E_Coll[c] /\ snapshotDebt[b][c] <= E_USDEDebt[c]

\* TotalsAddUp, collateral by collateral.
Totals ==
  /\ \A c \in Collaterals : totalStakes[c] = Total(Col(stakes, c))
  /\ troveDebtSupply = Total(troveDebt)
  /\ \A b \in Borrowers : ~IsActive(b) =>
       stakes[b] = Zeros /\ eToken[b] = Zeros /\ troveDebt[b] = 0

\* What the collateral sums promise to the stakes, before the division.
PromisedTo(stk, sums, snaps, c) == [b \in Borrowers |-> stk[b][c] * (sums[c] - snaps[b][c])]

CollPromisesKept ==
  \A c \in Collaterals :
    Total(PromisedTo(stakes, E_Coll, snapshotColl, c)) + lastCollError[c]
      <= DECIMAL_PRECISION * defaultColl[c]

DebtCoversUSDE == wallets + totalUSDEDeposits <= troveDebtSupply + defaultDebt

OneCollateral == \E x : Collaterals = {x}
ETokensHeld == \A c \in Collaterals : Total(Col(eToken, c)) <= activeColl[c]

Ledger ==
  /\ TypeOK
  /\ SnapshotsBehind
  /\ Totals
  /\ NoDustTroves
  /\ ActiveDebtExact
  /\ DebtCoversUSDE
  /\ CollPromisesKept
  /\ OneCollateral => ETokensHeld

\* What every trove has coming, in debt and in one of the collaterals.
PendingDebts == [b \in Borrowers |-> PendingUSDEDebtReward(b)]
PendingColls(c) == [b \in Borrowers |-> PendingCollReward(b)[c]]

LedgerStep ==
  /\ Ledger'
  /\ USDEBacked /\ DebtRewardsCovered => USDEBacked'

\* A sum over all owners, folded over its domain or over Borrowers.
LEMMA SumsOverOwners ==
  ASSUME NEW f, DOMAIN f = Borrowers
  PROVE  SumFunction(f) = Total(f)
BY DEF SumFunction, Total

\* The promise about pending debts, as a total over the owners.
LEMMA DebtRewardsAreTotalled == DebtRewardsCovered <=> Total(PendingDebts) <= defaultDebt
<1>1. /\ DOMAIN PendingDebts = Borrowers
      /\ DebtRewardsCovered <=> SumFunction(PendingDebts) <= defaultDebt
  BY DEF PendingDebts, DebtRewardsCovered
<1> QED BY <1>1, SumsOverOwners

-----------------------------------------------------------------------------
(* The types of the views.                                                 *)

\* Every price is positive.
LEMMA PricesArePrices ==
  ASSUME TypeOK
  PROVE  Priced
BY ERDAssumption DEF TypeOK, Priced

\* The gas compensation is a positive number.
LEMMA GasTypes ==
  ASSUME TypeOK
  PROVE  USDE_GAS_COMPENSATION \in Nat /\ USDE_GAS_COMPENSATION > 0
BY ERDAssumption DEF TypeOK

\* Amounts are added and subtracted for each collateral by itself.
LEMMA PlusMinusTypes ==
  /\ Zeros \in Amounts /\ \A c \in Collaterals : Zeros[c] = 0
  /\ \A f, g \in Amounts : /\ Plus(f, g) \in Amounts
                           /\ \A c \in Collaterals : Plus(f, g)[c] = f[c] + g[c]
  /\ \A f, g \in Amounts : /\ Covers(f, g) => Minus(f, g) \in Amounts
                           /\ \A c \in Collaterals : Minus(f, g)[c] = f[c] - g[c]
<1>1. Zeros \in Amounts /\ \A c \in Collaterals : Zeros[c] = 0
  BY DEF Zeros, Amounts
<1>2. ASSUME NEW f \in Amounts, NEW g \in Amounts
      PROVE  Plus(f, g) \in Amounts /\ \A c \in Collaterals : Plus(f, g)[c] = f[c] + g[c]
  BY DEF Plus, Amounts
<1>3. ASSUME NEW f \in Amounts, NEW g \in Amounts
      PROVE  /\ Covers(f, g) => Minus(f, g) \in Amounts
             /\ \A c \in Collaterals : Minus(f, g)[c] = f[c] - g[c]
  BY DEF Minus, Amounts, Covers
<1> QED BY <1>1, <1>2, <1>3

\* Amounts that agree on each collateral are the same.
LEMMA AmountsAreEqual ==
  ASSUME NEW f \in Amounts, NEW g \in Amounts, \A c \in Collaterals : f[c] = g[c]
  PROVE  f = g
BY DEF Amounts

\* A reward is a part of what the sums promise.
LEMMA RewardIsPart ==
  ASSUME NEW s \in Nat, NEW e \in Nat, NEW n \in Nat, n <= e
  PROVE  /\ s * (e - n) \in Nat
         /\ (s * (e - n)) \div DECIMAL_PRECISION \in Nat
         /\ DECIMAL_PRECISION * ((s * (e - n)) \div DECIMAL_PRECISION) <= s * (e - n)
<1>1. e - n \in Nat
  OBVIOUS
<1>2. s * (e - n) \in Nat
  BY <1>1, Z3
<1> QED BY <1>2, ConstantTypes, Division

\* Pending rewards are amounts, and what is applied is all of them or nothing.
LEMMA PendingTypes ==
  ASSUME TypeOK, SnapshotsBehind, NEW b \in Borrowers
  PROVE  /\ PendingCollReward(b) \in Amounts /\ PendingUSDEDebtReward(b) \in Nat
         /\ AppliedColl(b) \in Amounts /\ AppliedDebt(b) \in Nat
         /\ AppliedDebt(b) <= PendingUSDEDebtReward(b)
<1>1. ASSUME NEW c \in Collaterals
      PROVE  /\ stakes[b][c] \in Nat /\ E_Coll[c] \in Nat /\ E_USDEDebt[c] \in Nat
             /\ snapshotColl[b][c] \in Nat /\ snapshotColl[b][c] <= E_Coll[c]
             /\ snapshotDebt[b][c] \in Nat /\ snapshotDebt[b][c] <= E_USDEDebt[c]
  BY DEF TypeOK, SnapshotsBehind, Amounts
<1>2. PendingCollReward(b) \in Amounts
  <2>1. \A c \in Collaterals :
          (stakes[b][c] * (E_Coll[c] - snapshotColl[b][c])) \div DECIMAL_PRECISION \in Nat
    BY <1>1, RewardIsPart
  <2> QED BY <2>1 DEF PendingCollReward, Amounts
<1>3. PendingUSDEDebtReward(b) \in Nat
  <2> DEFINE reward == [c \in Collaterals |->
        (stakes[b][c] * (E_USDEDebt[c] - snapshotDebt[b][c])) \div DECIMAL_PRECISION]
  <2>1. reward \in Amounts
    <3>1. \A c \in Collaterals :
            (stakes[b][c] * (E_USDEDebt[c] - snapshotDebt[b][c])) \div DECIMAL_PRECISION \in Nat
      BY <1>1, RewardIsPart
    <3> QED BY <3>1 DEF Amounts
  <2>2. PendingUSDEDebtReward(b) = IF IsActive(b) THEN SumFunction(reward) ELSE 0
    BY DEF PendingUSDEDebtReward
  <2> HIDE DEF reward
  <2> QED BY <2>1, <2>2, SumsOfAmounts
<1>4. AppliedColl(b) \in Amounts
  BY <1>2, PlusMinusTypes DEF AppliedColl
<1>5. AppliedDebt(b) \in Nat /\ AppliedDebt(b) <= PendingUSDEDebtReward(b)
  BY <1>3 DEF AppliedDebt
<1> QED BY <1>2, <1>3, <1>4, <1>5

\* Types of what is recorded of an owner and of the views of a trove.
LEMMA TroveTypes ==
  ASSUME TypeOK, SnapshotsBehind, NEW b \in Borrowers
  PROVE  /\ troveDebt[b] \in Nat /\ eToken[b] \in Amounts /\ stakes[b] \in Amounts
         /\ surplus[b] \in Amounts
         /\ TroveDebtOf(b) \in Nat /\ EntireDebt(b) \in Nat
         /\ EntireDebt(b) = troveDebt[b] + USDE_GAS_COMPENSATION + PendingUSDEDebtReward(b)
         /\ EntireColl(b) \in Amounts
<1>1. troveDebt[b] \in Nat /\ eToken[b] \in Amounts /\ stakes[b] \in Amounts /\ surplus[b] \in Amounts
  BY DEF TypeOK
<1>2. EntireColl(b) \in Amounts
  BY <1>1, PendingTypes, PlusMinusTypes DEF EntireColl
<1> QED BY <1>1, <1>2, PendingTypes, GasTypes DEF TroveDebtOf, EntireDebt

\* Stakes are amounts where they can be computed at all.
LEMMA NewStakesTypes ==
  ASSUME TypeOK, NEW coll \in Amounts, StakeComputable
  PROVE  NewStakes(coll) \in Amounts
<1> DEFINE new(c) == IF totalCollateralSnapshot[c] = 0 THEN coll[c]
                     ELSE (coll[c] * totalStakesSnapshot[c]) \div totalCollateralSnapshot[c]
<1>1. ASSUME NEW c \in Collaterals
      PROVE  new(c) \in Nat
  <2>1. coll[c] \in Nat /\ totalStakesSnapshot[c] \in Nat /\ totalCollateralSnapshot[c] \in Nat
    BY DEF TypeOK, Amounts
  <2>2. coll[c] * totalStakesSnapshot[c] \in Nat
    BY <2>1
  <2> QED BY <2>1, <2>2, Division
<1>2. NewStakes(coll) = [c \in Collaterals |-> new(c)]
  BY DEF NewStakes
<1> HIDE DEF new
<1> QED BY <1>1, <1>2 DEF Amounts

\* A decrease that stops at zero, as ActivePool's does.
LEMMA DecreasedIs ==
  ASSUME NEW debt \in Nat, NEW amount \in Nat
  PROVE  /\ Decreased(debt, amount) \in Nat
         /\ Decreased(debt, amount) >= debt - amount
         /\ amount <= debt => Decreased(debt, amount) = debt - amount
BY DEF Decreased, MinOf

\* What a trove applies is a part of what it was promised, and afterwards nothing
\* is promised to it any more.
LEMMA AppliedIsPart ==
  ASSUME TypeOK, SnapshotsBehind, NEW b \in Borrowers, NEW c \in Collaterals
  PROVE  /\ stakes[b][c] * (E_Coll[c] - snapshotColl[b][c]) \in Nat
         /\ DECIMAL_PRECISION * PendingCollReward(b)[c]
              <= stakes[b][c] * (E_Coll[c] - snapshotColl[b][c])
         /\ DECIMAL_PRECISION * AppliedColl(b)[c]
              <= stakes[b][c] * (E_Coll[c] - snapshotColl[b][c])
         /\ IsActive(b) /\ ~HasPendingRewards(b) => snapshotColl[b][c] = E_Coll[c]
<1> DEFINE owed == stakes[b][c] * (E_Coll[c] - snapshotColl[b][c])
<1>1. /\ stakes[b][c] \in Nat /\ E_Coll[c] \in Nat
      /\ snapshotColl[b][c] \in Nat /\ snapshotColl[b][c] <= E_Coll[c]
  BY DEF TypeOK, SnapshotsBehind, Amounts
<1>2. owed \in Nat /\ DECIMAL_PRECISION * (owed \div DECIMAL_PRECISION) <= owed
  BY <1>1, RewardIsPart
<1>3. PendingCollReward(b)[c] = IF IsActive(b) THEN owed \div DECIMAL_PRECISION ELSE 0
  BY DEF PendingCollReward
<1>4. AppliedColl(b)[c] = PendingCollReward(b)[c] \/ AppliedColl(b)[c] = 0
  BY PlusMinusTypes DEF AppliedColl
<1>5. DECIMAL_PRECISION * 0 = 0
  BY ConstantTypes
<1>6. IsActive(b) /\ ~HasPendingRewards(b) => snapshotColl[b][c] = E_Coll[c]
  BY <1>1 DEF HasPendingRewards
<1> HIDE DEF owed
<1>7. DECIMAL_PRECISION * PendingCollReward(b)[c] <= owed
  BY <1>2, <1>3, <1>5
<1>8. DECIMAL_PRECISION * AppliedColl(b)[c] <= owed
  BY <1>2, <1>4, <1>5, <1>7
<1> QED BY <1>2, <1>6, <1>7, <1>8 DEF owed

-----------------------------------------------------------------------------
(* A transaction that concerns one trove.                                  *)

\* A total of natural numbers, of which each is a part.
LEMMA TotalIsNat ==
  ASSUME NEW f, \A x \in Borrowers : f[x] \in Nat
  PROVE  /\ Total(f) \in Nat
         /\ \A x \in Borrowers : f[x] <= Total(f)
<1>1. Borrowers \in SUBSET Borrowers
  OBVIOUS
<1>2. Total(f) \in Nat
  BY <1>1, ConstantTypes, SumOfNaturals DEF Total
<1>3. ASSUME NEW x \in Borrowers
      PROVE  f[x] <= Total(f)
  BY ConstantTypes, SumHolds DEF Total
<1> QED BY <1>2, <1>3

\* The total after the number of one owner was replaced.
LEMMA TotalReplacedAt ==
  ASSUME NEW f, NEW g, NEW b \in Borrowers,
         \A x \in Borrowers : f[x] \in Nat /\ g[x] \in Nat,
         \A x \in Borrowers \ {b} : g[x] = f[x]
  PROVE  Total(g) = Total(f) - f[b] + g[b]
<1>1. \A x \in Borrowers : f[x] \in Int /\ g[x] \in Int
  OBVIOUS
<1> QED BY <1>1, ConstantTypes, SumReplacedAt DEF Total

\* Over the owners in D the function f became zero.
LEMMA TotalCleared ==
  ASSUME NEW f, NEW g, NEW D \in SUBSET Borrowers,
         \A x \in Borrowers : f[x] \in Nat /\ g[x] \in Nat,
         \A x \in Borrowers \ D : g[x] = f[x], \A x \in D : g[x] = 0
  PROVE  Total(g) = Total(f) - SumFunctionOnSet(f, D)
<1>1. \A x \in Borrowers : f[x] \in Int /\ g[x] \in Int
  OBVIOUS
<1>2. SumFunctionOnSet(g, Borrowers) =
        SumFunctionOnSet(f, Borrowers) - SumFunctionOnSet(f, D) + SumFunctionOnSet(g, D)
  BY <1>1, ConstantTypes, SumReplaced
<1>3. IsFiniteSet(D)
  BY ConstantTypes, FS_Subset
<1>4. SumFunctionOnSet(g, D) = 0
  BY <1>3, SumOfZeros
<1>5. SumFunctionOnSet(f, D) \in Nat /\ SumFunctionOnSet(f, Borrowers) \in Nat
  BY ConstantTypes, SumOfNaturals
<1> QED BY <1>2, <1>4, <1>5 DEF Total

\* The sum over one owner.
LEMMA SumOfOne ==
  ASSUME NEW f, NEW b \in Borrowers, \A x \in Borrowers : f[x] \in Nat
  PROVE  SumFunctionOnSet(f, {b}) = f[b]
<1>1. \A x \in Borrowers : f[x] \in Int
  OBVIOUS
<1>2. {b} \in SUBSET Borrowers /\ b \in {b} /\ {b} \ {b} = {}
  OBVIOUS
<1>3. SumFunctionOnSet(f, {b}) = f[b] + SumFunctionOnSet(f, {b} \ {b})
  BY <1>1, <1>2, ConstantTypes, SumWithout
<1>4. SumFunctionOnSet(f, {b} \ {b}) = 0
  BY <1>2, SumOfNone
<1> QED BY <1>3, <1>4

\* One collateral's column of amounts kept per owner.
LEMMA ColIsAt ==
  ASSUME NEW f \in [Borrowers -> Amounts], NEW c \in Collaterals
  PROVE  \A b \in Borrowers : Col(f, c)[b] = f[b][c] /\ f[b][c] \in Nat
BY DEF Col, Amounts

\* The totals still add up when one trove and the totals change by the same.
LEMMA OneTroveTotals ==
  ASSUME TypeOK, Totals, NEW b \in Borrowers,
         NEW s \in Amounts, NEW d \in Nat, NEW e \in Amounts,
         stakes' = [stakes EXCEPT ![b] = s],
         totalStakes' \in [Collaterals -> Int],
         \A c \in Collaterals : totalStakes'[c] = totalStakes[c] - stakes[b][c] + s[c],
         troveDebt' = [troveDebt EXCEPT ![b] = d],
         troveDebtSupply' = troveDebtSupply - troveDebt[b] + d,
         eToken' = [eToken EXCEPT ![b] = e],
         \A x \in Borrowers \ {b} : IsActive(x)' = IsActive(x),
         ~IsActive(b)' => s = Zeros /\ e = Zeros /\ d = 0
  PROVE  /\ Totals'
         /\ stakes' \in [Borrowers -> Amounts] /\ totalStakes' \in Amounts
         /\ troveDebt' \in [Borrowers -> Nat] /\ troveDebtSupply' \in Nat
         /\ eToken' \in [Borrowers -> Amounts]
         /\ troveDebt[b] <= troveDebtSupply
<1>1. /\ stakes \in [Borrowers -> Amounts] /\ totalStakes \in Amounts
      /\ troveDebt \in [Borrowers -> Nat] /\ troveDebtSupply \in Nat
      /\ eToken \in [Borrowers -> Amounts]
  BY DEF TypeOK
<1>2. /\ stakes' \in [Borrowers -> Amounts]
      /\ stakes'[b] = s /\ \A x \in Borrowers \ {b} : stakes'[x] = stakes[x]
  BY <1>1
<1>3. /\ eToken' \in [Borrowers -> Amounts]
      /\ eToken'[b] = e /\ \A x \in Borrowers \ {b} : eToken'[x] = eToken[x]
  BY <1>1
<1>4. /\ troveDebt' \in [Borrowers -> Nat]
      /\ troveDebt'[b] = d /\ \A x \in Borrowers \ {b} : troveDebt'[x] = troveDebt[x]
  BY <1>1
<1>5. ASSUME NEW c \in Collaterals
      PROVE  totalStakes'[c] = Total(Col(stakes', c)) /\ totalStakes'[c] \in Nat
  <2>1. \A x \in Borrowers : Col(stakes, c)[x] = stakes[x][c] /\ Col(stakes, c)[x] \in Nat
    BY <1>1, ColIsAt
  <2>2. \A x \in Borrowers : Col(stakes', c)[x] = stakes'[x][c] /\ Col(stakes', c)[x] \in Nat
    BY <1>2, ColIsAt
  <2>3. \A x \in Borrowers \ {b} : Col(stakes', c)[x] = Col(stakes, c)[x]
    BY <1>2, <2>1, <2>2
  <2>4. Total(Col(stakes', c)) = Total(Col(stakes, c)) - Col(stakes, c)[b] + Col(stakes', c)[b]
    <3> DEFINE f == Col(stakes, c)
               g == Col(stakes', c)
    <3>1. /\ \A x \in Borrowers : f[x] \in Nat /\ g[x] \in Nat
          /\ \A x \in Borrowers \ {b} : g[x] = f[x]
      BY <2>1, <2>2, <2>3
    <3> HIDE DEF f, g
    <3>2. Total(g) = Total(f) - f[b] + g[b]
      BY <3>1, TotalReplacedAt
    <3> QED BY <3>2 DEF f, g
  <2>5. Total(Col(stakes', c)) \in Nat
    BY <2>2, TotalIsNat
  <2>6. totalStakes[c] = Total(Col(stakes, c))
    BY DEF Totals
  <2> QED BY <1>2, <2>1, <2>2, <2>4, <2>5, <2>6
<1>6. totalStakes' \in Amounts
  BY <1>5 DEF Amounts
<1>7. troveDebtSupply' = Total(troveDebt') /\ troveDebtSupply' \in Nat /\ troveDebt[b] <= troveDebtSupply
  <2>1. Total(troveDebt') = Total(troveDebt) - troveDebt[b] + troveDebt'[b]
    <3> DEFINE f == troveDebt
               g == troveDebt'
    <3>1. /\ \A x \in Borrowers : f[x] \in Nat /\ g[x] \in Nat
          /\ \A x \in Borrowers \ {b} : g[x] = f[x]
      BY <1>1, <1>4
    <3> HIDE DEF f, g
    <3>2. Total(g) = Total(f) - f[b] + g[b]
      BY <3>1, TotalReplacedAt
    <3> QED BY <3>2 DEF f, g
  <2>2. Total(troveDebt') \in Nat /\ troveDebt[b] <= Total(troveDebt)
    BY <1>1, <1>4, TotalIsNat
  <2>3. troveDebtSupply = Total(troveDebt)
    BY DEF Totals
  <2> QED BY <1>4, <2>1, <2>2, <2>3
<1>8. ASSUME NEW x \in Borrowers, ~IsActive(x)'
      PROVE  stakes'[x] = Zeros /\ eToken'[x] = Zeros /\ troveDebt'[x] = 0
  <2>1. CASE x = b
    BY <1>2, <1>3, <1>4, <1>8, <2>1
  <2>2. CASE x # b
    <3>1. ~IsActive(x)
      BY <1>8, <2>2
    <3> QED BY <1>2, <1>3, <1>4, <2>2, <3>1 DEF Totals
  <2> QED BY <2>1, <2>2
<1>9. Totals'
  BY <1>5, <1>7, <1>8 DEF Totals, Zeros
<1> QED BY <1>2, <1>3, <1>4, <1>6, <1>7, <1>9

\* The owners in D took their rewards in, or hold no stake any more.
LEMMA PromisesTakenIn ==
  ASSUME TypeOK, SnapshotsBehind, CollPromisesKept, NEW D \in SUBSET Borrowers,
         E_Coll' = E_Coll, E_USDEDebt' = E_USDEDebt, lastCollError' = lastCollError,
         stakes' \in [Borrowers -> Amounts],
         snapshotColl' \in [Borrowers -> Amounts], snapshotDebt' \in [Borrowers -> Amounts],
         \A x \in Borrowers \ D : /\ stakes'[x] = stakes[x]
                                  /\ snapshotColl'[x] = snapshotColl[x]
                                  /\ snapshotDebt'[x] = snapshotDebt[x],
         \A x \in D, c \in Collaterals :
           /\ snapshotColl'[x][c] <= E_Coll[c] /\ snapshotDebt'[x][c] <= E_USDEDebt[c]
           /\ stakes'[x][c] = 0 \/ snapshotColl'[x][c] = E_Coll[c],
         NEW a \in Amounts, \A c \in Collaterals :
           /\ defaultColl'[c] = defaultColl[c] - a[c]
           /\ DECIMAL_PRECISION * a[c]
                <= SumFunctionOnSet(PromisedTo(stakes, E_Coll, snapshotColl, c), D)
  PROVE  SnapshotsBehind' /\ CollPromisesKept'
<1>1. SnapshotsBehind'
  <2>1. ASSUME NEW x \in Borrowers, NEW c \in Collaterals
        PROVE  snapshotColl'[x][c] <= E_Coll[c] /\ snapshotDebt'[x][c] <= E_USDEDebt[c]
    BY DEF SnapshotsBehind
  <2> QED BY <2>1 DEF SnapshotsBehind
<1>2. ASSUME NEW c \in Collaterals
      PROVE  Total(PromisedTo(stakes', E_Coll, snapshotColl', c)) + lastCollError[c]
               <= DECIMAL_PRECISION * defaultColl'[c]
  <2> DEFINE f == PromisedTo(stakes, E_Coll, snapshotColl, c)
             g == PromisedTo(stakes', E_Coll, snapshotColl', c)
  <2>1. ASSUME NEW x \in Borrowers
        PROVE  /\ f[x] = stakes[x][c] * (E_Coll[c] - snapshotColl[x][c]) /\ f[x] \in Nat
               /\ g[x] = stakes'[x][c] * (E_Coll[c] - snapshotColl'[x][c]) /\ g[x] \in Nat
    <3>1. /\ stakes[x][c] \in Nat /\ E_Coll[c] \in Nat /\ snapshotColl[x][c] \in Nat
          /\ stakes'[x][c] \in Nat /\ snapshotColl'[x][c] \in Nat
      BY DEF TypeOK, Amounts
    <3>2. snapshotColl[x][c] <= E_Coll[c] /\ snapshotColl'[x][c] <= E_Coll[c]
      BY <1>1 DEF SnapshotsBehind
    <3> QED BY <3>1, <3>2, RewardIsPart DEF PromisedTo
  <2>2. \A x \in Borrowers \ D : g[x] = f[x]
    BY <2>1
  <2>3. \A x \in D : g[x] = 0
    <3> TAKE x \in D
    <3>1. stakes'[x][c] \in Nat /\ E_Coll[c] \in Nat /\ snapshotColl'[x][c] \in Nat
      BY DEF TypeOK, Amounts
    <3>2. g[x] = stakes'[x][c] * (E_Coll[c] - snapshotColl'[x][c])
      BY <2>1
    <3>3. CASE stakes'[x][c] = 0
      BY <3>1, <3>2, <3>3
    <3>4. CASE snapshotColl'[x][c] = E_Coll[c]
      BY <3>1, <3>2, <3>4
    <3> QED BY <3>3, <3>4
  <2>4. DECIMAL_PRECISION * a[c] <= SumFunctionOnSet(f, D)
    OBVIOUS
  <2>5. Total(f) + lastCollError[c] <= DECIMAL_PRECISION * defaultColl[c]
    BY DEF CollPromisesKept
  <2> HIDE DEF f, g
  <2>6. Total(g) = Total(f) - SumFunctionOnSet(f, D)
    BY <2>1, <2>2, <2>3, TotalCleared
  <2>7. Total(f) \in Nat /\ SumFunctionOnSet(f, D) \in Nat
    BY <2>1, TotalIsNat, ConstantTypes, SumOfNaturals
  <2>8. /\ DECIMAL_PRECISION \in Nat /\ defaultColl[c] \in Nat /\ a[c] \in Nat /\ lastCollError[c] \in Nat
        /\ defaultColl'[c] = defaultColl[c] - a[c]
    BY ConstantTypes DEF TypeOK, Amounts
  <2>9. DECIMAL_PRECISION * defaultColl'[c] = DECIMAL_PRECISION * defaultColl[c] - DECIMAL_PRECISION * a[c]
    BY <2>8, Z3
  <2>10. DECIMAL_PRECISION * defaultColl[c] \in Int /\ DECIMAL_PRECISION * a[c] \in Int
    BY <2>8
  <2>11. Total(g) + lastCollError[c] <= DECIMAL_PRECISION * defaultColl'[c]
    BY <2>4, <2>5, <2>6, <2>7, <2>8, <2>9, <2>10
  <2> QED BY <2>11 DEF g
<1>3. CollPromisesKept'
  BY <1>2 DEF CollPromisesKept
<1> QED BY <1>1, <1>3

\* One trove took its rewards in.
LEMMA OneTrovePromises ==
  ASSUME TypeOK, SnapshotsBehind, CollPromisesKept, NEW b \in Borrowers,
         E_Coll' = E_Coll, E_USDEDebt' = E_USDEDebt, lastCollError' = lastCollError,
         NEW s \in Amounts, stakes' = [stakes EXCEPT ![b] = s],
         \/ /\ snapshotColl' = [snapshotColl EXCEPT ![b] = E_Coll]
            /\ snapshotDebt' = [snapshotDebt EXCEPT ![b] = E_USDEDebt]
         \/ /\ snapshotColl' = snapshotColl /\ snapshotDebt' = snapshotDebt
            /\ IsActive(b) /\ ~HasPendingRewards(b)
         \/ /\ snapshotColl' = [snapshotColl EXCEPT ![b] = Zeros]
            /\ snapshotDebt' = [snapshotDebt EXCEPT ![b] = Zeros]
            /\ s = Zeros,
         NEW a \in {Zeros, AppliedColl(b)},
         \A c \in Collaterals : defaultColl'[c] = defaultColl[c] - a[c]
  PROVE  /\ SnapshotsBehind' /\ CollPromisesKept'
         /\ snapshotColl' \in [Borrowers -> Amounts] /\ snapshotDebt' \in [Borrowers -> Amounts]
<1>1. /\ stakes \in [Borrowers -> Amounts]
      /\ snapshotColl \in [Borrowers -> Amounts] /\ snapshotDebt \in [Borrowers -> Amounts]
      /\ E_Coll \in Amounts /\ E_USDEDebt \in Amounts /\ defaultColl \in Amounts
  BY DEF TypeOK
<1>2. stakes' \in [Borrowers -> Amounts] /\ stakes'[b] = s /\ \A x \in Borrowers \ {b} : stakes'[x] = stakes[x]
  BY <1>1
<1>3. Zeros \in Amounts /\ \A c \in Collaterals : Zeros[c] = 0
  BY PlusMinusTypes
<1>4. /\ snapshotColl' \in [Borrowers -> Amounts]
      /\ \A x \in Borrowers \ {b} : snapshotColl'[x] = snapshotColl[x]
      /\ \/ snapshotColl'[b] = E_Coll
         \/ snapshotColl'[b] = snapshotColl[b] /\ IsActive(b) /\ ~HasPendingRewards(b)
         \/ snapshotColl'[b] = Zeros /\ s = Zeros
  BY <1>1, <1>3
<1>5. /\ snapshotDebt' \in [Borrowers -> Amounts]
      /\ \A x \in Borrowers \ {b} : snapshotDebt'[x] = snapshotDebt[x]
      /\ snapshotDebt'[b] = E_USDEDebt \/ snapshotDebt'[b] = snapshotDebt[b] \/ snapshotDebt'[b] = Zeros
  BY <1>1, <1>3
<1>6. ASSUME NEW c \in Collaterals
      PROVE  /\ snapshotColl'[b][c] <= E_Coll[c] /\ snapshotDebt'[b][c] <= E_USDEDebt[c]
             /\ stakes'[b][c] = 0 \/ snapshotColl'[b][c] = E_Coll[c]
  <2>1. /\ E_Coll[c] \in Nat /\ E_USDEDebt[c] \in Nat /\ Zeros[c] = 0
        /\ snapshotColl[b][c] <= E_Coll[c] /\ snapshotDebt[b][c] <= E_USDEDebt[c]
        /\ IsActive(b) /\ ~HasPendingRewards(b) => snapshotColl[b][c] = E_Coll[c]
    BY <1>1, <1>3, AppliedIsPart DEF Amounts, SnapshotsBehind
  <2> QED BY <1>2, <1>4, <1>5, <2>1
<1>7. a \in Amounts
  BY <1>3, PendingTypes
<1>8. ASSUME NEW c \in Collaterals
      PROVE  /\ defaultColl'[c] = defaultColl[c] - a[c]
             /\ DECIMAL_PRECISION * a[c]
                <= SumFunctionOnSet(PromisedTo(stakes, E_Coll, snapshotColl, c), {b})
  <2> DEFINE f == PromisedTo(stakes, E_Coll, snapshotColl, c)
  <2>1. \A x \in Borrowers : f[x] = stakes[x][c] * (E_Coll[c] - snapshotColl[x][c]) /\ f[x] \in Nat
    BY AppliedIsPart DEF PromisedTo
  <2>2. SumFunctionOnSet(f, {b}) = f[b]
    <3> HIDE DEF f
    <3> QED BY <2>1, SumOfOne
  <2>3. DECIMAL_PRECISION * AppliedColl(b)[c] <= f[b]
    BY <2>1, AppliedIsPart
  <2>4. DECIMAL_PRECISION * Zeros[c] = 0 /\ f[b] >= 0
    BY <1>3, <2>1, ConstantTypes
  <2>5. defaultColl'[c] = defaultColl[c] - a[c]
    OBVIOUS
  <2> HIDE DEF f
  <2>6. DECIMAL_PRECISION * a[c] <= SumFunctionOnSet(f, {b})
    BY <2>2, <2>3, <2>4
  <2> QED BY <2>5, <2>6 DEF f
<1> DEFINE D == {b}
<1>9. /\ D \in SUBSET Borrowers
      /\ \A x \in Borrowers \ D : /\ stakes'[x] = stakes[x]
                                  /\ snapshotColl'[x] = snapshotColl[x]
                                  /\ snapshotDebt'[x] = snapshotDebt[x]
  BY <1>2, <1>4, <1>5
<1>10. \A x \in D, c \in Collaterals :
           /\ snapshotColl'[x][c] <= E_Coll[c] /\ snapshotDebt'[x][c] <= E_USDEDebt[c]
           /\ stakes'[x][c] = 0 \/ snapshotColl'[x][c] = E_Coll[c]
  BY <1>6
<1>11. \A c \in Collaterals :
         /\ defaultColl'[c] = defaultColl[c] - a[c]
         /\ DECIMAL_PRECISION * a[c]
              <= SumFunctionOnSet(PromisedTo(stakes, E_Coll, snapshotColl, c), D)
  BY <1>8
<1> HIDE DEF D
<1>12. SnapshotsBehind' /\ CollPromisesKept'
  BY <1>2, <1>4, <1>5, <1>7, <1>9, <1>10, <1>11, PromisesTakenIn
<1> QED BY <1>4, <1>5, <1>12

\* The ActivePool received what the trove's ETokens grew by.
LEMMA OneTroveETokens ==
  ASSUME TypeOK, ETokensHeld, NEW b \in Borrowers, NEW e \in Amounts,
         eToken' = [eToken EXCEPT ![b] = e],
         \A c \in Collaterals : activeColl'[c] = activeColl[c] - eToken[b][c] + e[c]
  PROVE  ETokensHeld'
<1>1. eToken \in [Borrowers -> Amounts] /\ activeColl \in Amounts
  BY DEF TypeOK
<1>2. /\ eToken' \in [Borrowers -> Amounts]
      /\ eToken'[b] = e /\ \A x \in Borrowers \ {b} : eToken'[x] = eToken[x]
  BY <1>1
<1>3. ASSUME NEW c \in Collaterals
      PROVE  Total(Col(eToken', c)) <= activeColl'[c]
  <2>1. \A x \in Borrowers : Col(eToken, c)[x] = eToken[x][c] /\ Col(eToken, c)[x] \in Nat
    BY <1>1, ColIsAt
  <2>2. \A x \in Borrowers : Col(eToken', c)[x] = eToken'[x][c] /\ Col(eToken', c)[x] \in Nat
    BY <1>2, ColIsAt
  <2>3. \A x \in Borrowers \ {b} : Col(eToken', c)[x] = Col(eToken, c)[x]
    BY <1>2, <2>1, <2>2
  <2>4. Total(Col(eToken', c)) = Total(Col(eToken, c)) - Col(eToken, c)[b] + Col(eToken', c)[b]
    <3> DEFINE f == Col(eToken, c)
               g == Col(eToken', c)
    <3>1. /\ \A x \in Borrowers : f[x] \in Nat /\ g[x] \in Nat
          /\ \A x \in Borrowers \ {b} : g[x] = f[x]
      BY <2>1, <2>2, <2>3
    <3> HIDE DEF f, g
    <3>2. Total(g) = Total(f) - f[b] + g[b]
      BY <3>1, TotalReplacedAt
    <3> QED BY <3>2 DEF f, g
  <2>5. Total(Col(eToken, c)) \in Nat /\ activeColl[c] \in Nat
    BY <1>1, <2>1, TotalIsNat DEF Amounts
  <2>6. Total(Col(eToken, c)) <= activeColl[c]
    BY DEF ETokensHeld
  <2>7. activeColl'[c] = activeColl[c] - eToken[b][c] + e[c]
    OBVIOUS
  <2>8. /\ Col(eToken, c)[b] = eToken[b][c] /\ eToken[b][c] \in Nat
        /\ Col(eToken', c)[b] = e[c] /\ e[c] \in Nat
    BY <1>2, <2>1, <2>2
  <2> QED BY <2>4, <2>5, <2>6, <2>7, <2>8
<1> QED BY <1>3 DEF ETokensHeld

-----------------------------------------------------------------------------
(* The calls of borrowers.                                                 *)

\* Types of the owners array and of the list, which the books contain.
LEMMA BooksTypes ==
  ASSUME Books'
  PROVE  TroveOwners' \in Seq(Borrowers) /\ list' \in Seq(Borrowers)
BY DEF Books, Indexed, OrderedList, OrderedBy, Borrowers

\* What is pending to one trove is a part of what is pending to all.
LEMMA PendingIsCovered ==
  ASSUME TypeOK, SnapshotsBehind, DebtRewardsCovered, NEW b \in Borrowers
  PROVE  PendingUSDEDebtReward(b) <= defaultDebt
<1> DEFINE f == PendingDebts
<1>1. \A x \in Borrowers : f[x] = PendingUSDEDebtReward(x) /\ f[x] \in Nat
  BY PendingTypes DEF PendingDebts
<1>2. Total(f) <= defaultDebt /\ defaultDebt \in Nat
  BY DebtRewardsAreTotalled DEF TypeOK
<1> HIDE DEF f
<1>3. f[b] <= Total(f) /\ Total(f) \in Nat
  BY <1>1, TotalIsNat
<1> QED BY <1>1, <1>2, <1>3

\* A fee is a natural number.
LEMMA FeeIsNat ==
  ASSUME NEW r \in 0..DECIMAL_PRECISION, NEW amount \in Nat
  PROVE  (r * amount) \div DECIMAL_PRECISION \in Nat
<1>1. r * amount \in Nat
  BY ConstantTypes
<1> QED BY <1>1, ConstantTypes, Division

\* Opening a trove keeps the ledger.
LEMMA OpenTroveKeepsLedger ==
  ASSUME Books, Ledger, Books', NEW b \in Borrowers, NEW coll \in Amounts, NEW amount \in Nat,
         NEW rate \in 0..DECIMAL_PRECISION, OpenTrove(b, coll, amount, rate)
  PROVE  LedgerStep
<1> DEFINE inRecovery == NewTCR(Plus(EntireSystemColl, coll), EntireSystemDebt) < CCR
           r == IF inRecovery THEN RECOVERY_FEE ELSE rate
           fee == (r * amount) \div DECIMAL_PRECISION
           netDebt == amount + fee
           compositeDebt == netDebt + USDE_GAS_COMPENSATION
           icr == ComputeCR(ValueOf(coll), compositeDebt)
           s == NewStakes(coll)
           d == troveDebt[b] + netDebt
           e == Plus(eToken[b], coll)
<1>1. /\ ~IsActive(b) /\ AtLeastMinNetDebt(netDebt)
      /\ status' = [status EXCEPT ![b] = "active"]
      /\ troveDebt' = [troveDebt EXCEPT ![b] = @ + netDebt]
      /\ troveDebtSupply' = troveDebtSupply + netDebt
      /\ TakeRewardSnapshots(b) /\ UpdateStakes(b, coll)
      /\ InsertSorted(b, icr)
      /\ arrayIndex' = [arrayIndex EXCEPT ![b] = Len(TroveOwners)]
      /\ eToken' = [eToken EXCEPT ![b] = Plus(@, coll)]
      /\ activeColl' = Plus(activeColl, coll)
      /\ activeDebt' = activeDebt + compositeDebt
      /\ wallets' = wallets + netDebt
      /\ gasPool' = gasPool + USDE_GAS_COMPENSATION
      /\ UNCHANGED <<systemSnapshotVars, rewardVars, defaultColl, defaultDebt,
                     surplus, totalUSDEDeposits, envVars>>
  BY DEF OpenTrove
<1>2. r \in 0..DECIMAL_PRECISION
  BY BorrowerOperationsAssumption
<1> HIDE DEF inRecovery, r
<1>3. fee \in Nat
  BY <1>2, FeeIsNat
<1> HIDE DEF fee
<1>4. netDebt \in Nat /\ compositeDebt \in Nat /\ compositeDebt = netDebt + USDE_GAS_COMPENSATION
  BY <1>3, GasTypes DEF Ledger
<1> HIDE DEF netDebt, compositeDebt
<1>5. TypeOK /\ Priced /\ SnapshotsBehind /\ Totals /\ CollPromisesKept
  BY PricesArePrices DEF Ledger
<1>6. icr \in Nat
  BY <1>4, <1>5, ValueIsNat, RatioIsNat
<1> HIDE DEF icr
<1>7. /\ status \in [Borrowers -> Statuses] /\ arrayIndex \in [Borrowers -> Nat]
      /\ recorded \in [Borrowers -> Nat] /\ TroveOwners \in Seq(Borrowers)
      /\ troveDebt \in [Borrowers -> Nat] /\ troveDebtSupply \in Nat
      /\ eToken \in [Borrowers -> Amounts] /\ stakes \in [Borrowers -> Amounts]
      /\ totalStakes \in Amounts /\ activeColl \in Amounts /\ defaultColl \in Amounts
      /\ activeDebt \in Nat /\ wallets \in Nat /\ gasPool \in Nat
      /\ totalUSDEDeposits \in Nat /\ defaultDebt \in Nat /\ USDE_GAS_COMPENSATION \in Nat
      /\ Zeros \in Amounts
  BY <1>5, GasTypes, PlusMinusTypes DEF TypeOK
<1>8. s \in Amounts /\ e \in Amounts /\ d \in Nat /\ d = troveDebt[b] + netDebt
  BY <1>1, <1>4, <1>5, <1>7, NewStakesTypes, PlusMinusTypes DEF UpdateStakes
<1>9. stakes' = [stakes EXCEPT ![b] = s] /\ troveDebt' = [troveDebt EXCEPT ![b] = d]
      /\ eToken' = [eToken EXCEPT ![b] = e]
  BY <1>1, <1>7 DEF UpdateStakes
<1>10. /\ totalStakes' \in [Collaterals -> Int]
       /\ \A c \in Collaterals : totalStakes'[c] = totalStakes[c] - stakes[b][c] + s[c]
  <2>1. Minus(totalStakes, stakes[b]) \in Amounts
    BY <1>1, <1>7, PlusMinusTypes DEF UpdateStakes
  <2>2. totalStakes' = Plus(Minus(totalStakes, stakes[b]), s)
    BY <1>1 DEF UpdateStakes
  <2>3. /\ \A c \in Collaterals : totalStakes'[c] = Minus(totalStakes, stakes[b])[c] + s[c]
        /\ \A c \in Collaterals : Minus(totalStakes, stakes[b])[c] = totalStakes[c] - stakes[b][c]
        /\ totalStakes' \in Amounts
    BY <1>7, <1>8, <2>1, <2>2, PlusMinusTypes
  <2> QED BY <2>3 DEF Amounts
<1>11. IsActive(b)' /\ \A x \in Borrowers \ {b} : IsActive(x)' = IsActive(x)
  BY <1>1, <1>7 DEF IsActive
<1> HIDE DEF s, d, e
<1>12. /\ Totals'
       /\ stakes' \in [Borrowers -> Amounts] /\ totalStakes' \in Amounts
       /\ troveDebt' \in [Borrowers -> Nat] /\ troveDebtSupply' \in Nat
       /\ eToken' \in [Borrowers -> Amounts]
  <2>1. troveDebtSupply' = troveDebtSupply - troveDebt[b] + d
    BY <1>1, <1>4, <1>7, <1>8
  <2> QED BY <1>5, <1>8, <1>9, <1>10, <1>11, <2>1, OneTroveTotals
<1>13. /\ SnapshotsBehind' /\ CollPromisesKept'
       /\ snapshotColl' \in [Borrowers -> Amounts] /\ snapshotDebt' \in [Borrowers -> Amounts]
  <2>1. E_Coll' = E_Coll /\ E_USDEDebt' = E_USDEDebt /\ lastCollError' = lastCollError
    BY <1>1 DEF rewardVars
  <2>2. \A c \in Collaterals : defaultColl'[c] = defaultColl[c] - Zeros[c]
    BY <1>1, <1>7 DEF Amounts, Zeros
  <2>3. /\ snapshotColl' = [snapshotColl EXCEPT ![b] = E_Coll]
        /\ snapshotDebt' = [snapshotDebt EXCEPT ![b] = E_USDEDebt]
    BY <1>1 DEF TakeRewardSnapshots
  <2> QED BY <1>5, <1>8, <1>9, <2>1, <2>2, <2>3, OneTrovePromises
<1>14. NoDustTroves'
  <2>1. ASSUME NEW x \in Borrowers, IsActive(x)'
        PROVE  troveDebt'[x] >= MIN_NET_DEBT
    <3>1. CASE x = b
      BY <1>1, <1>4, <1>7, <1>8, <1>9, <3>1, ConstantTypes DEF AtLeastMinNetDebt
    <3>2. CASE x # b
      BY <1>7, <1>9, <1>11, <2>1, <3>2 DEF Ledger, NoDustTroves, ActiveTroves
    <3> QED BY <3>1, <3>2
  <2> QED BY <2>1 DEF NoDustTroves, ActiveTroves
<1>15. /\ ActiveDebtExact' /\ DebtCoversUSDE'
       /\ USDEBacked => USDEBacked'
  BY <1>1, <1>4, <1>7 DEF Ledger, ActiveDebtExact, DebtCoversUSDE, USDEBacked
<1>16. ETokensHeld => ETokensHeld'
  <2>1. \A c \in Collaterals : activeColl'[c] = activeColl[c] - eToken[b][c] + e[c]
    <3> TAKE c \in Collaterals
    <3>1. activeColl'[c] = activeColl[c] + coll[c] /\ e[c] = eToken[b][c] + coll[c]
      BY <1>1, <1>7, PlusMinusTypes DEF e
    <3>2. activeColl[c] \in Nat /\ coll[c] \in Nat /\ eToken[b][c] \in Nat
      BY <1>7 DEF Amounts
    <3> QED BY <3>1, <3>2
  <2> QED BY <1>5, <1>8, <1>9, <2>1, OneTroveETokens
<1>17. TypeOK'
  <2>1. TroveOwners' \in Seq(Borrowers) /\ list' \in Seq(Borrowers)
    BY BooksTypes
  <2>2. status' \in [Borrowers -> Statuses]
    BY <1>1, <1>7 DEF Statuses
  <2>3. arrayIndex' \in [Borrowers -> Nat]
    BY <1>1, <1>7, LenProperties
  <2>4. recorded' \in [Borrowers -> Nat]
    BY <1>1, <1>6, <1>7 DEF InsertSorted
  <2>5. activeColl' \in Amounts
    BY <1>1, <1>7, PlusMinusTypes
  <2>6. activeDebt' \in Nat /\ wallets' \in Nat /\ gasPool' \in Nat
    BY <1>1, <1>4, <1>7
  <2>7. UNCHANGED <<totalStakesSnapshot, totalCollateralSnapshot, E_Coll, E_USDEDebt, lastCollError,
                    lastUSDEDebtError, defaultColl, defaultDebt, surplus, totalUSDEDeposits,
                    USDE_GAS_COMPENSATION, price>>
    BY <1>1 DEF systemSnapshotVars, rewardVars, envVars
  <2> QED BY <1>5, <1>12, <1>13, <2>1, <2>2, <2>3, <2>4, <2>5, <2>6, <2>7 DEF TypeOK
<1> QED BY <1>12, <1>13, <1>14, <1>15, <1>16, <1>17 DEF LedgerStep, Ledger

\* Adjusting a trove keeps the ledger.
LEMMA AdjustTroveKeepsLedger ==
  ASSUME Books, Ledger, Books', NEW b \in Borrowers, NEW in \in Amounts, NEW out \in Amounts,
         NEW change \in Nat, NEW isIncrease \in BOOLEAN, NEW rate \in 0..DECIMAL_PRECISION,
         AdjustTrove(b, in, out, change, isIncrease, rate)
  PROVE  LedgerStep
<1> DEFINE r == IF RecoveryMode THEN RECOVERY_FEE ELSE rate
           fee == IF isIncrease THEN BorrowingFee(change, rate) ELSE 0
           netChange == change + fee
           signed(x) == IF isIncrease THEN x + netChange ELSE x - netChange
           applied == AppliedColl(b)
           appliedDebt == AppliedDebt(b)
           coll == Plus(eToken[b], applied)
           newColl == Minus(Plus(coll, in), out)
           debt == TroveDebtOf(b) + appliedDebt
           newICR == ComputeCR(ValueOf(newColl), signed(debt))
           pooled == Plus(Plus(activeColl, applied), in)
           s == NewStakes(newColl)
           d == signed(troveDebt[b] + appliedDebt)
<1>1. /\ IsActive(b)
      /\ Covers(Plus(coll, in), out)
      /\ signed(debt) >= 0
      /\ ~isIncrease /\ change > 0 => /\ AtLeastMinNetDebt(debt - USDE_GAS_COMPENSATION - change)
                                      /\ wallets >= change
      /\ Covers(defaultColl, applied)
      /\ PayableToUsers(out, pooled)
      /\ UpdateStakes(b, newColl)
      /\ IF HasPendingRewards(b) THEN TakeRewardSnapshots(b) ELSE UNCHANGED snapshotVars
      /\ ReInsertSorted(b, newICR)
      /\ troveDebt' = [troveDebt EXCEPT ![b] = signed(@ + appliedDebt)]
      /\ troveDebtSupply' = signed(troveDebtSupply + appliedDebt)
      /\ eToken' = [eToken EXCEPT ![b] = newColl]
      /\ defaultColl' = Minus(defaultColl, applied)
      /\ defaultDebt' = Decreased(defaultDebt, appliedDebt)
      /\ activeColl' = Minus(pooled, out)
      /\ activeDebt' = IF isIncrease
                         THEN activeDebt + appliedDebt + netChange
                         ELSE Decreased(activeDebt + appliedDebt, change)
      /\ wallets' = signed(wallets)
      /\ UNCHANGED <<status, TroveOwners, arrayIndex, systemSnapshotVars, rewardVars,
                     surplus, totalUSDEDeposits, gasPool, envVars>>
  BY DEF AdjustTrove
<1>2. r \in 0..DECIMAL_PRECISION
  BY BorrowerOperationsAssumption
<1>3. fee \in Nat /\ (~isIncrease => fee = 0)
  <2>1. BorrowingFee(change, rate) = (r * change) \div DECIMAL_PRECISION
    BY DEF BorrowingFee
  <2> HIDE DEF r
  <2> QED BY <1>2, <2>1, FeeIsNat
<1> HIDE DEF r, fee
<1>4. netChange \in Nat /\ netChange >= change /\ (~isIncrease => netChange = change)
  BY <1>3
<1> HIDE DEF netChange
<1>5. TypeOK /\ Priced /\ SnapshotsBehind /\ Totals /\ CollPromisesKept
  BY PricesArePrices DEF Ledger
<1>6. applied \in Amounts /\ appliedDebt \in Nat /\ appliedDebt <= PendingUSDEDebtReward(b)
      /\ PendingUSDEDebtReward(b) \in Nat
  BY <1>5, PendingTypes
<1> HIDE DEF appliedDebt
<1>7. /\ status \in [Borrowers -> Statuses] /\ arrayIndex \in [Borrowers -> Nat]
      /\ recorded \in [Borrowers -> Nat]
      /\ troveDebt \in [Borrowers -> Nat] /\ troveDebtSupply \in Nat
      /\ eToken \in [Borrowers -> Amounts] /\ stakes \in [Borrowers -> Amounts]
      /\ totalStakes \in Amounts /\ activeColl \in Amounts /\ defaultColl \in Amounts
      /\ activeDebt \in Nat /\ wallets \in Nat /\ gasPool \in Nat
      /\ totalUSDEDeposits \in Nat /\ defaultDebt \in Nat /\ USDE_GAS_COMPENSATION \in Nat
      /\ Zeros \in Amounts
  BY <1>5, GasTypes, PlusMinusTypes DEF TypeOK
<1>8. /\ coll \in Amounts /\ Plus(coll, in) \in Amounts /\ newColl \in Amounts /\ pooled \in Amounts
      /\ Plus(activeColl, applied) \in Amounts
      /\ \A c \in Collaterals : /\ newColl[c] = eToken[b][c] + applied[c] + in[c] - out[c]
                                /\ pooled[c] = activeColl[c] + applied[c] + in[c]
  <2>1. coll \in Amounts /\ \A c \in Collaterals : coll[c] = eToken[b][c] + applied[c]
    BY <1>6, <1>7, PlusMinusTypes
  <2>2. /\ Plus(activeColl, applied) \in Amounts
        /\ \A c \in Collaterals : Plus(activeColl, applied)[c] = activeColl[c] + applied[c]
    BY <1>6, <1>7, PlusMinusTypes
  <2> HIDE DEF coll, applied
  <2>3. Plus(coll, in) \in Amounts /\ \A c \in Collaterals : Plus(coll, in)[c] = coll[c] + in[c]
    BY <2>1, PlusMinusTypes
  <2>4. newColl \in Amounts /\ \A c \in Collaterals : newColl[c] = Plus(coll, in)[c] - out[c]
    BY <1>1, <2>3, PlusMinusTypes
  <2>5. pooled \in Amounts /\ \A c \in Collaterals : pooled[c] = Plus(activeColl, applied)[c] + in[c]
    BY <2>2, PlusMinusTypes
  <2> HIDE DEF newColl, pooled
  <2>6. ASSUME NEW c \in Collaterals
        PROVE  /\ newColl[c] = eToken[b][c] + applied[c] + in[c] - out[c]
               /\ pooled[c] = activeColl[c] + applied[c] + in[c]
    <3>1. newColl[c] = Plus(coll, in)[c] - out[c] /\ pooled[c] = Plus(activeColl, applied)[c] + in[c]
      BY <2>4, <2>5
    <3>2. /\ Plus(coll, in)[c] = coll[c] + in[c] /\ coll[c] = eToken[b][c] + applied[c]
          /\ Plus(activeColl, applied)[c] = activeColl[c] + applied[c]
      BY <2>1, <2>2, <2>3
    <3>3. /\ eToken[b][c] \in Nat /\ applied[c] \in Nat /\ in[c] \in Nat /\ out[c] \in Nat
          /\ activeColl[c] \in Nat
      BY <1>6, <1>7 DEF Amounts
    <3> QED BY <3>1, <3>2, <3>3
  <2> QED BY <2>1, <2>2, <2>3, <2>4, <2>5, <2>6
<1>9. newICR \in Nat
  <2>1. debt \in Nat
    BY <1>5, <1>6, TroveTypes
  <2> HIDE DEF debt, newColl
  <2>2. signed(debt) \in Nat
    BY <1>1, <1>4, <2>1
  <2> QED BY <1>5, <1>8, <2>2, ValueIsNat, RatioIsNat
<1> HIDE DEF newICR, coll, pooled, newColl
<1>10. s \in Amounts
  BY <1>1, <1>5, <1>8, NewStakesTypes DEF UpdateStakes
<1>11. /\ d \in Nat /\ d >= MIN_NET_DEBT
       /\ wallets' \in Nat
       /\ ~isIncrease => change <= troveDebt[b] + appliedDebt
       /\ d = IF isIncrease THEN troveDebt[b] + appliedDebt + netChange
                            ELSE troveDebt[b] + appliedDebt - change
  <2>1. troveDebt[b] \in Nat /\ MIN_NET_DEBT \in Nat
    BY <1>7, ConstantTypes
  <2>2. troveDebt[b] >= MIN_NET_DEBT
    BY <1>1 DEF Ledger, NoDustTroves, ActiveTroves
  <2>3. ~isIncrease /\ change > 0 => troveDebt[b] + appliedDebt - change >= MIN_NET_DEBT
    BY <1>1, <1>6, <1>7, <2>1 DEF AtLeastMinNetDebt, TroveDebtOf
  <2> QED BY <1>1, <1>4, <1>6, <1>7, <2>1, <2>2, <2>3
<1>12. /\ stakes' = [stakes EXCEPT ![b] = s] /\ eToken' = [eToken EXCEPT ![b] = newColl]
       /\ troveDebt' = [troveDebt EXCEPT ![b] = d]
  BY <1>1, <1>7 DEF UpdateStakes
<1>13. /\ totalStakes' \in [Collaterals -> Int]
       /\ \A c \in Collaterals : totalStakes'[c] = totalStakes[c] - stakes[b][c] + s[c]
  <2>1. Minus(totalStakes, stakes[b]) \in Amounts
    BY <1>1, <1>7, PlusMinusTypes DEF UpdateStakes
  <2>2. totalStakes' = Plus(Minus(totalStakes, stakes[b]), s)
    BY <1>1 DEF UpdateStakes
  <2>3. /\ \A c \in Collaterals : totalStakes'[c] = Minus(totalStakes, stakes[b])[c] + s[c]
        /\ \A c \in Collaterals : Minus(totalStakes, stakes[b])[c] = totalStakes[c] - stakes[b][c]
        /\ totalStakes' \in Amounts
    BY <1>7, <1>10, <2>1, <2>2, PlusMinusTypes
  <2> QED BY <2>3 DEF Amounts
<1>14. \A x \in Borrowers : IsActive(x)' = IsActive(x)
  BY <1>1 DEF IsActive
<1>15. /\ troveDebtSupply' = troveDebtSupply - troveDebt[b] + d
       /\ troveDebtSupply' = IF isIncrease THEN troveDebtSupply + appliedDebt + netChange
                                           ELSE troveDebtSupply + appliedDebt - change
       /\ wallets' = IF isIncrease THEN wallets + netChange ELSE wallets - change
  <2>1. troveDebt[b] \in Nat
    BY <1>7
  <2> QED BY <1>1, <1>4, <1>6, <1>7, <2>1
<1> HIDE DEF s, d, signed
<1>16. /\ Totals'
       /\ stakes' \in [Borrowers -> Amounts] /\ totalStakes' \in Amounts
       /\ troveDebt' \in [Borrowers -> Nat] /\ troveDebtSupply' \in Nat
       /\ eToken' \in [Borrowers -> Amounts]
       /\ troveDebt[b] <= troveDebtSupply
  <2>1. IsActive(b)' /\ \A x \in Borrowers \ {b} : IsActive(x)' = IsActive(x)
    BY <1>1, <1>14
  <2> QED BY <1>5, <1>8, <1>10, <1>11, <1>12, <1>13, <1>15, <2>1, OneTroveTotals
<1>17. /\ SnapshotsBehind' /\ CollPromisesKept'
       /\ snapshotColl' \in [Borrowers -> Amounts] /\ snapshotDebt' \in [Borrowers -> Amounts]
  <2>1. E_Coll' = E_Coll /\ E_USDEDebt' = E_USDEDebt /\ lastCollError' = lastCollError
    BY <1>1 DEF rewardVars
  <2>2. \A c \in Collaterals : defaultColl'[c] = defaultColl[c] - AppliedColl(b)[c]
    BY <1>1, <1>6, <1>7, PlusMinusTypes
  <2>3. \/ /\ snapshotColl' = [snapshotColl EXCEPT ![b] = E_Coll]
           /\ snapshotDebt' = [snapshotDebt EXCEPT ![b] = E_USDEDebt]
        \/ /\ snapshotColl' = snapshotColl /\ snapshotDebt' = snapshotDebt
           /\ IsActive(b) /\ ~HasPendingRewards(b)
    BY <1>1 DEF TakeRewardSnapshots, snapshotVars
  <2> QED BY <1>5, <1>10, <1>12, <2>1, <2>2, <2>3, OneTrovePromises
<1>18. NoDustTroves'
  <2>1. ASSUME NEW x \in Borrowers, IsActive(x)'
        PROVE  troveDebt'[x] >= MIN_NET_DEBT
    <3>1. troveDebt[x] >= MIN_NET_DEBT
      BY <1>14, <2>1 DEF Ledger, NoDustTroves, ActiveTroves
    <3> QED BY <1>7, <1>11, <1>12, <3>1
  <2> QED BY <2>1 DEF NoDustTroves, ActiveTroves
<1>19. /\ defaultDebt' \in Nat /\ defaultDebt' >= defaultDebt - appliedDebt
       /\ appliedDebt <= defaultDebt => defaultDebt' = defaultDebt - appliedDebt
  BY <1>1, <1>6, <1>7, DecreasedIs
<1>20. gasPool' = gasPool /\ totalUSDEDeposits' = totalUSDEDeposits
  BY <1>1
<1>21. ActiveDebtExact' /\ activeDebt' \in Nat
  <2>1. activeDebt = troveDebtSupply + gasPool
    BY DEF Ledger, ActiveDebtExact
  <2>2. troveDebt[b] \in Nat
    BY <1>7
  <2>3. CASE isIncrease
    <3>1. activeDebt' = activeDebt + appliedDebt + netChange
      BY <1>1, <2>3
    <3> QED BY <1>4, <1>6, <1>7, <1>15, <1>20, <2>1, <2>3, <3>1 DEF ActiveDebtExact
  <2>4. CASE ~isIncrease
    <3>1. activeDebt + appliedDebt \in Nat /\ change <= activeDebt + appliedDebt
      BY <1>6, <1>7, <1>11, <1>16, <2>1, <2>2, <2>4
    <3>2. activeDebt' = Decreased(activeDebt + appliedDebt, change)
      BY <1>1, <2>4
    <3>3. Decreased(activeDebt + appliedDebt, change) = activeDebt + appliedDebt - change
      BY <1>6, <1>7, <3>1 DEF Decreased, MinOf
    <3> QED BY <1>6, <1>7, <1>15, <1>20, <2>1, <2>4, <3>1, <3>2, <3>3 DEF ActiveDebtExact
  <2> QED BY <2>3, <2>4
<1>22. DebtCoversUSDE'
  <2>1. wallets + totalUSDEDeposits <= troveDebtSupply + defaultDebt
    BY DEF Ledger, DebtCoversUSDE
  <2> QED BY <1>4, <1>6, <1>7, <1>15, <1>19, <1>20, <2>1 DEF DebtCoversUSDE
<1>23. USDEBacked /\ DebtRewardsCovered => USDEBacked'
  <2> SUFFICES ASSUME USDEBacked, DebtRewardsCovered PROVE USDEBacked'
    OBVIOUS
  <2>1. wallets + totalUSDEDeposits = troveDebtSupply + defaultDebt
    BY DEF USDEBacked
  <2>2. defaultDebt' = defaultDebt - appliedDebt
    BY <1>5, <1>6, <1>7, <1>19, PendingIsCovered
  <2> QED BY <1>4, <1>6, <1>7, <1>15, <1>20, <2>1, <2>2 DEF USDEBacked
<1>24. /\ activeColl' \in Amounts
       /\ \A c \in Collaterals : activeColl'[c] = activeColl[c] - eToken[b][c] + newColl[c]
  <2>1. activeColl' \in Amounts
    <3>1. Covers(pooled, out)
      <4>1. \A c \in Collaterals : pooled[c] \in Nat /\ out[c] \in Nat
        BY <1>8 DEF Amounts
      <4> QED BY <1>1, <4>1 DEF PayableToUsers, Covers
    <3> QED BY <1>1, <1>8, <3>1, PlusMinusTypes
  <2>2. ASSUME NEW c \in Collaterals
        PROVE  activeColl'[c] = activeColl[c] - eToken[b][c] + newColl[c]
    <3>1. activeColl'[c] = pooled[c] - out[c]
      BY <1>1, <1>8, PlusMinusTypes
    <3>2. /\ activeColl[c] \in Nat /\ eToken[b][c] \in Nat /\ applied[c] \in Nat
          /\ in[c] \in Nat /\ out[c] \in Nat
      BY <1>6, <1>7 DEF Amounts
    <3> HIDE DEF applied
    <3> QED BY <1>8, <3>1, <3>2
  <2> QED BY <2>1, <2>2
<1>25. ETokensHeld => ETokensHeld'
  BY <1>5, <1>8, <1>12, <1>24, OneTroveETokens
<1>26. TypeOK'
  <2>1. TroveOwners' \in Seq(Borrowers) /\ list' \in Seq(Borrowers)
    BY BooksTypes
  <2>2. recorded' \in [Borrowers -> Nat]
    BY <1>1, <1>7, <1>9 DEF ReInsertSorted
  <2>3. defaultColl' \in Amounts
    BY <1>1, <1>6, <1>7, PlusMinusTypes
  <2>4. UNCHANGED <<status, arrayIndex, totalStakesSnapshot, totalCollateralSnapshot, E_Coll,
                    E_USDEDebt, lastCollError, lastUSDEDebtError, surplus, totalUSDEDeposits,
                    gasPool, USDE_GAS_COMPENSATION, price>>
    BY <1>1 DEF systemSnapshotVars, rewardVars, envVars
  <2> QED BY <1>5, <1>11, <1>16, <1>17, <1>19, <1>21, <1>24, <2>1, <2>2, <2>3, <2>4 DEF TypeOK
<1> QED BY <1>16, <1>17, <1>18, <1>21, <1>22, <1>23, <1>25, <1>26 DEF LedgerStep, Ledger

\* An index without one owner is still an index.
LEMMA IndexWithoutType ==
  ASSUME NEW index \in [Borrowers -> Nat], NEW owners, NEW b \in Borrowers
  PROVE  IndexWithout(owners, index, b) \in [Borrowers -> Nat]
BY DEF IndexWithout

\* Closing a trove keeps the ledger.
LEMMA CloseTroveKeepsLedger ==
  ASSUME Books, Ledger, Books', NEW b \in Borrowers, CloseTrove(b)
  PROVE  LedgerStep
<1> DEFINE applied == AppliedColl(b)
           appliedDebt == AppliedDebt(b)
           coll == Plus(eToken[b], applied)
           netDebt == troveDebt[b] + appliedDebt
           pooled == Plus(activeColl, applied)
<1>1. /\ IsActive(b)
      /\ wallets >= netDebt
      /\ gasPool >= USDE_GAS_COMPENSATION
      /\ Covers(defaultColl, applied)
      /\ PayableToUsers(coll, pooled)
      /\ Covers(totalStakes, stakes[b])
      /\ status' = [status EXCEPT ![b] = "closedByOwner"]
      /\ stakes' = [stakes EXCEPT ![b] = Zeros]
      /\ totalStakes' = Minus(totalStakes, stakes[b])
      /\ snapshotColl' = [snapshotColl EXCEPT ![b] = Zeros]
      /\ snapshotDebt' = [snapshotDebt EXCEPT ![b] = Zeros]
      /\ troveDebt' = [troveDebt EXCEPT ![b] = 0]
      /\ troveDebtSupply' = troveDebtSupply - troveDebt[b]
      /\ eToken' = [eToken EXCEPT ![b] = Zeros]
      /\ arrayIndex' = IndexWithout(TroveOwners, arrayIndex, b)
      /\ RemoveSorted(b)
      /\ defaultColl' = Minus(defaultColl, applied)
      /\ defaultDebt' = Decreased(defaultDebt, appliedDebt)
      /\ activeColl' = Minus(pooled, coll)
      /\ activeDebt' = Decreased(activeDebt + appliedDebt, netDebt + USDE_GAS_COMPENSATION)
      /\ wallets' = wallets - netDebt
      /\ gasPool' = gasPool - USDE_GAS_COMPENSATION
      /\ UNCHANGED <<systemSnapshotVars, rewardVars, surplus, totalUSDEDeposits, envVars>>
  BY DEF CloseTrove
<1>2. TypeOK /\ SnapshotsBehind /\ Totals /\ CollPromisesKept
  BY DEF Ledger
<1>3. applied \in Amounts /\ appliedDebt \in Nat /\ appliedDebt <= PendingUSDEDebtReward(b)
      /\ PendingUSDEDebtReward(b) \in Nat
  BY <1>2, PendingTypes
<1> HIDE DEF appliedDebt
<1>4. /\ status \in [Borrowers -> Statuses] /\ arrayIndex \in [Borrowers -> Nat]
      /\ recorded \in [Borrowers -> Nat]
      /\ troveDebt \in [Borrowers -> Nat] /\ troveDebtSupply \in Nat
      /\ eToken \in [Borrowers -> Amounts] /\ stakes \in [Borrowers -> Amounts]
      /\ totalStakes \in Amounts /\ activeColl \in Amounts /\ defaultColl \in Amounts
      /\ activeDebt \in Nat /\ wallets \in Nat /\ gasPool \in Nat
      /\ totalUSDEDeposits \in Nat /\ defaultDebt \in Nat /\ USDE_GAS_COMPENSATION \in Nat
      /\ Zeros \in Amounts /\ \A c \in Collaterals : Zeros[c] = 0
  BY <1>2, GasTypes, PlusMinusTypes DEF TypeOK
<1>5. /\ coll \in Amounts /\ pooled \in Amounts
      /\ \A c \in Collaterals : /\ coll[c] = eToken[b][c] + applied[c]
                                /\ pooled[c] = activeColl[c] + applied[c]
  BY <1>3, <1>4, PlusMinusTypes
<1>6. netDebt \in Nat /\ netDebt = troveDebt[b] + appliedDebt /\ troveDebt[b] \in Nat
  BY <1>3, <1>4
<1> HIDE DEF coll, pooled, netDebt
<1>7. /\ totalStakes' \in [Collaterals -> Int]
      /\ \A c \in Collaterals : totalStakes'[c] = totalStakes[c] - stakes[b][c] + Zeros[c]
  <2>1. totalStakes' \in Amounts /\ \A c \in Collaterals : totalStakes'[c] = totalStakes[c] - stakes[b][c]
    BY <1>1, <1>4, PlusMinusTypes
  <2>2. \A c \in Collaterals : totalStakes[c] \in Nat /\ stakes[b][c] \in Nat
    BY <1>4 DEF Amounts
  <2>3. totalStakes' \in [Collaterals -> Int]
    BY <2>1 DEF Amounts
  <2>4. \A c \in Collaterals : totalStakes'[c] = totalStakes[c] - stakes[b][c] + Zeros[c]
    BY <1>4, <2>1, <2>2
  <2> QED BY <2>3, <2>4
<1>8. ~IsActive(b)' /\ \A x \in Borrowers \ {b} : IsActive(x)' = IsActive(x)
  BY <1>1, <1>4 DEF IsActive
<1>9. /\ Totals'
      /\ stakes' \in [Borrowers -> Amounts] /\ totalStakes' \in Amounts
      /\ troveDebt' \in [Borrowers -> Nat] /\ troveDebtSupply' \in Nat
      /\ eToken' \in [Borrowers -> Amounts]
      /\ troveDebt[b] <= troveDebtSupply
  <2>1. troveDebtSupply' = troveDebtSupply - troveDebt[b] + 0 /\ 0 \in Nat
    BY <1>1, <1>4, <1>6
  <2> QED BY <1>1, <1>2, <1>4, <1>7, <1>8, <2>1, OneTroveTotals
<1>10. /\ SnapshotsBehind' /\ CollPromisesKept'
       /\ snapshotColl' \in [Borrowers -> Amounts] /\ snapshotDebt' \in [Borrowers -> Amounts]
  <2>1. E_Coll' = E_Coll /\ E_USDEDebt' = E_USDEDebt /\ lastCollError' = lastCollError
    BY <1>1 DEF rewardVars
  <2>2. \A c \in Collaterals : defaultColl'[c] = defaultColl[c] - AppliedColl(b)[c]
    BY <1>1, <1>3, <1>4, PlusMinusTypes
  <2> QED BY <1>1, <1>2, <1>4, <2>1, <2>2, OneTrovePromises
<1>11. NoDustTroves'
  <2>1. ASSUME NEW x \in Borrowers, IsActive(x)'
        PROVE  troveDebt'[x] >= MIN_NET_DEBT
    <3>1. x # b /\ IsActive(x)
      BY <1>8, <2>1
    <3>2. troveDebt[x] >= MIN_NET_DEBT
      BY <3>1 DEF Ledger, NoDustTroves, ActiveTroves
    <3> QED BY <1>1, <1>4, <3>1, <3>2
  <2> QED BY <2>1 DEF NoDustTroves, ActiveTroves
<1>12. /\ defaultDebt' \in Nat /\ defaultDebt' >= defaultDebt - appliedDebt
       /\ appliedDebt <= defaultDebt => defaultDebt' = defaultDebt - appliedDebt
  BY <1>1, <1>3, <1>4, DecreasedIs
<1>13. totalUSDEDeposits' = totalUSDEDeposits
  BY <1>1
<1>14. ActiveDebtExact' /\ activeDebt' \in Nat
  <2>1. activeDebt = troveDebtSupply + gasPool
    BY DEF Ledger, ActiveDebtExact
  <2>2. netDebt + USDE_GAS_COMPENSATION <= activeDebt + appliedDebt
    BY <1>1, <1>3, <1>4, <1>6, <1>9, <2>1
  <2>3. activeDebt' = activeDebt + appliedDebt - (netDebt + USDE_GAS_COMPENSATION)
    BY <1>1, <1>3, <1>4, <1>6, <2>2 DEF Decreased, MinOf
  <2> QED BY <1>1, <1>3, <1>4, <1>6, <2>1, <2>2, <2>3 DEF ActiveDebtExact
<1>15. DebtCoversUSDE'
  <2>1. wallets + totalUSDEDeposits <= troveDebtSupply + defaultDebt
    BY DEF Ledger, DebtCoversUSDE
  <2> QED BY <1>1, <1>3, <1>4, <1>6, <1>12, <1>13, <2>1 DEF DebtCoversUSDE
<1>16. USDEBacked /\ DebtRewardsCovered => USDEBacked'
  <2> SUFFICES ASSUME USDEBacked, DebtRewardsCovered PROVE USDEBacked'
    OBVIOUS
  <2>1. wallets + totalUSDEDeposits = troveDebtSupply + defaultDebt
    BY DEF USDEBacked
  <2>2. defaultDebt' = defaultDebt - appliedDebt
    BY <1>2, <1>3, <1>4, <1>12, PendingIsCovered
  <2> QED BY <1>1, <1>3, <1>4, <1>6, <1>13, <2>1, <2>2 DEF USDEBacked
<1>17. /\ activeColl' \in Amounts
       /\ \A c \in Collaterals : activeColl'[c] = activeColl[c] - eToken[b][c] + Zeros[c]
  <2>1. activeColl' \in Amounts
    <3>1. Covers(pooled, coll)
      <4>1. \A c \in Collaterals : pooled[c] \in Nat /\ coll[c] \in Nat
        BY <1>5 DEF Amounts
      <4> QED BY <1>1, <4>1 DEF PayableToUsers, Covers
    <3> QED BY <1>1, <1>5, <3>1, PlusMinusTypes
  <2>2. ASSUME NEW c \in Collaterals
        PROVE  activeColl'[c] = activeColl[c] - eToken[b][c] + Zeros[c]
    <3>1. activeColl'[c] = pooled[c] - coll[c]
      BY <1>1, <1>5, PlusMinusTypes
    <3>2. activeColl[c] \in Nat /\ eToken[b][c] \in Nat /\ applied[c] \in Nat /\ Zeros[c] = 0
      BY <1>3, <1>4 DEF Amounts
    <3> HIDE DEF applied
    <3> QED BY <1>5, <3>1, <3>2
  <2> QED BY <2>1, <2>2
<1>18. ETokensHeld => ETokensHeld'
  BY <1>1, <1>2, <1>4, <1>17, OneTroveETokens
<1>19. TypeOK'
  <2>1. TroveOwners' \in Seq(Borrowers) /\ list' \in Seq(Borrowers)
    BY BooksTypes
  <2>2. recorded' \in [Borrowers -> Nat]
    BY <1>1, <1>4 DEF RemoveSorted
  <2>3. defaultColl' \in Amounts
    BY <1>1, <1>3, <1>4, PlusMinusTypes
  <2>4. status' \in [Borrowers -> Statuses]
    BY <1>1, <1>4 DEF Statuses
  <2>5. arrayIndex' \in [Borrowers -> Nat]
    BY <1>1, <1>4, IndexWithoutType
  <2>6. wallets' \in Nat /\ gasPool' \in Nat
    BY <1>1, <1>4, <1>6
  <2>7. UNCHANGED <<totalStakesSnapshot, totalCollateralSnapshot, E_Coll,
                    E_USDEDebt, lastCollError, lastUSDEDebtError, surplus, totalUSDEDeposits,
                    USDE_GAS_COMPENSATION, price>>
    BY <1>1 DEF systemSnapshotVars, rewardVars, envVars
  <2> QED BY <1>2, <1>9, <1>10, <1>12, <1>14, <1>17, <2>1, <2>2, <2>3, <2>4, <2>5, <2>6, <2>7 DEF TypeOK
<1> QED BY <1>9, <1>10, <1>11, <1>14, <1>15, <1>16, <1>18, <1>19 DEF LedgerStep, Ledger

-----------------------------------------------------------------------------
(* Calls that leave the troves alone.                                      *)

\* What the ledger says of troves is kept by a call that changes none.
LEMMA TrovesLeftAlone ==
  ASSUME Ledger, UNCHANGED <<stakeVars, snapshotVars, rewardVars, debtVars, eToken, activeColl,
                             defaultColl, status>>
  PROVE  /\ SnapshotsBehind' /\ Totals' /\ NoDustTroves' /\ CollPromisesKept'
         /\ ETokensHeld => ETokensHeld'
<1>1. SnapshotsBehind'
  BY DEF Ledger, SnapshotsBehind, snapshotVars, rewardVars
<1>2. Totals'
  BY DEF Ledger, Totals, stakeVars, debtVars, IsActive
<1>3. NoDustTroves'
  BY DEF Ledger, NoDustTroves, ActiveTroves, IsActive, debtVars
<1>4. CollPromisesKept'
  BY DEF Ledger, CollPromisesKept, stakeVars, rewardVars, snapshotVars
<1>5. ETokensHeld => ETokensHeld'
  BY DEF ETokensHeld
<1> QED BY <1>1, <1>2, <1>3, <1>4, <1>5

\* Claiming a surplus keeps the ledger.
LEMMA ClaimCollateralKeepsLedger ==
  ASSUME Ledger, Books', NEW b \in Borrowers, ClaimCollateral(b)
  PROVE  LedgerStep
<1>1. /\ surplus' = [surplus EXCEPT ![b] = Zeros]
      /\ UNCHANGED <<troveVars, stakeVars, snapshotVars, systemSnapshotVars, rewardVars,
                   debtVars, eToken, poolVars, usdeVars, envVars>>
  BY DEF ClaimCollateral
<1>2. /\ SnapshotsBehind' /\ Totals' /\ NoDustTroves' /\ CollPromisesKept'
      /\ ETokensHeld => ETokensHeld'
  BY <1>1, TrovesLeftAlone DEF troveVars, poolVars
<1>3. TypeOK'
  <2>1. surplus' \in [Borrowers -> Amounts]
    BY <1>1, PlusMinusTypes DEF Ledger, TypeOK
  <2> QED BY <1>1, <2>1 DEF Ledger, TypeOK, troveVars, sortedVars, stakeVars, snapshotVars,
             systemSnapshotVars, rewardVars, debtVars, poolVars, usdeVars, envVars
<1>4. ActiveDebtExact' /\ DebtCoversUSDE' /\ (USDEBacked => USDEBacked')
  BY <1>1 DEF Ledger, ActiveDebtExact, DebtCoversUSDE, USDEBacked, debtVars, poolVars, usdeVars
<1> QED BY <1>2, <1>3, <1>4 DEF LedgerStep, Ledger

\* A new gas compensation, which the GasPool and debts follow, keeps the ledger.
LEMMA SetGasCompensationKeepsLedger ==
  ASSUME Books, Ledger, NEW gas \in GasCompensations, SetGasCompensation(gas)
  PROVE  LedgerStep
<1> DEFINE reserve == ReserveChange(gas)
<1>1. /\ gasPool + reserve >= 0
      /\ USDE_GAS_COMPENSATION' = gas
      /\ gasPool' = gasPool + reserve
      /\ activeDebt' = IF reserve >= 0 THEN activeDebt + reserve
                       ELSE Decreased(activeDebt, -reserve)
      /\ UNCHANGED <<troveVars, stakeVars, snapshotVars, systemSnapshotVars, rewardVars,
                     debtVars, eToken, activeColl, defaultColl, defaultDebt, surplus,
                     wallets, totalUSDEDeposits, price>>
  BY DEF SetGasCompensation
<1>2. /\ SnapshotsBehind' /\ Totals' /\ NoDustTroves' /\ CollPromisesKept'
      /\ ETokensHeld => ETokensHeld'
  BY <1>1, TrovesLeftAlone DEF troveVars
<1>3. reserve \in Int
  <2>1. Len(TroveOwners) \in Nat /\ gas \in Nat /\ USDE_GAS_COMPENSATION \in Nat
    BY ERDAssumption, GasTypes, LenProperties DEF Ledger, TypeOK
  <2>2. Len(TroveOwners) * gas \in Int /\ Len(TroveOwners) * USDE_GAS_COMPENSATION \in Int
    BY <2>1
  <2> QED BY <2>2 DEF ReserveChange
<1> HIDE DEF reserve
<1>4. activeDebt \in Nat /\ gasPool \in Nat /\ troveDebtSupply \in Nat
      /\ activeDebt = troveDebtSupply + gasPool
  BY DEF Ledger, TypeOK, ActiveDebtExact
<1>5. activeDebt' = activeDebt + reserve /\ activeDebt' \in Nat /\ gasPool' \in Nat
  <2>1. CASE reserve >= 0
    BY <1>1, <1>3, <1>4, <2>1
  <2>2. CASE ~(reserve >= 0)
    <3>1. -reserve \in Nat /\ -reserve <= activeDebt
      BY <1>1, <1>3, <1>4, <2>2
    <3>2. Decreased(activeDebt, -reserve) = activeDebt - (-reserve)
      BY <1>4, <3>1, DecreasedIs
    <3> QED BY <1>1, <1>3, <1>4, <2>2, <3>1, <3>2
  <2> QED BY <2>1, <2>2
<1>6. TypeOK'
  BY <1>1, <1>5 DEF Ledger, TypeOK, troveVars, sortedVars, stakeVars, snapshotVars,
             systemSnapshotVars, rewardVars, debtVars
<1>7. ActiveDebtExact'
  BY <1>1, <1>3, <1>4, <1>5 DEF ActiveDebtExact, debtVars
<1>8. DebtCoversUSDE' /\ (USDEBacked => USDEBacked')
  BY <1>1 DEF Ledger, DebtCoversUSDE, USDEBacked, debtVars
<1> QED BY <1>2, <1>6, <1>7, <1>8 DEF LedgerStep, Ledger

\* A new price keeps the ledger.
LEMMA SetPriceKeepsLedger ==
  ASSUME Ledger, NEW prices \in Prices, SetPrice(prices)
  PROVE  LedgerStep
<1>1. /\ price' = prices
      /\ UNCHANGED <<troveVars, stakeVars, snapshotVars, systemSnapshotVars, rewardVars,
                     debtVars, eToken, poolVars, surplus, usdeVars, USDE_GAS_COMPENSATION>>
  BY DEF SetPrice
<1>2. /\ SnapshotsBehind' /\ Totals' /\ NoDustTroves' /\ CollPromisesKept'
      /\ ETokensHeld => ETokensHeld'
  BY <1>1, TrovesLeftAlone DEF troveVars, poolVars
<1>3. TypeOK'
  BY <1>1 DEF Ledger, TypeOK, troveVars, sortedVars, stakeVars, snapshotVars,
             systemSnapshotVars, rewardVars, debtVars, poolVars, usdeVars
<1>4. ActiveDebtExact' /\ DebtCoversUSDE' /\ (USDEBacked => USDEBacked')
  BY <1>1 DEF Ledger, ActiveDebtExact, DebtCoversUSDE, USDEBacked, debtVars, poolVars, usdeVars
<1> QED BY <1>2, <1>3, <1>4 DEF LedgerStep, Ledger

\* Moving USDE between wallets and StabilityPool keeps the ledger.
LEMMA MoveToStabilityPoolKeepsLedger ==
  ASSUME Ledger, NEW amount \in Int, amount <= wallets, -amount <= totalUSDEDeposits,
         MoveToStabilityPool(amount)
  PROVE  LedgerStep
<1>1. /\ wallets' = wallets - amount
      /\ totalUSDEDeposits' = totalUSDEDeposits + amount
      /\ UNCHANGED <<troveVars, stakeVars, snapshotVars, systemSnapshotVars, rewardVars,
                     debtVars, eToken, poolVars, surplus, gasPool, envVars>>
  BY DEF MoveToStabilityPool
<1>2. /\ SnapshotsBehind' /\ Totals' /\ NoDustTroves' /\ CollPromisesKept'
      /\ ETokensHeld => ETokensHeld'
  BY <1>1, TrovesLeftAlone DEF troveVars, poolVars
<1>3. wallets \in Nat /\ totalUSDEDeposits \in Nat
  BY DEF Ledger, TypeOK
<1>4. /\ wallets' \in Nat /\ totalUSDEDeposits' \in Nat
      /\ wallets' + totalUSDEDeposits' = wallets + totalUSDEDeposits
  BY <1>1, <1>3
<1>5. TypeOK'
  BY <1>1, <1>4 DEF Ledger, TypeOK, troveVars, sortedVars, stakeVars, snapshotVars,
             systemSnapshotVars, rewardVars, debtVars, poolVars, envVars
<1>6. ActiveDebtExact' /\ DebtCoversUSDE' /\ (USDEBacked => USDEBacked')
  BY <1>1, <1>4 DEF Ledger, ActiveDebtExact, DebtCoversUSDE, USDEBacked, debtVars, poolVars
<1> QED BY <1>2, <1>5, <1>6 DEF LedgerStep, Ledger

\* Refreshing one trove keeps the ledger.
LEMMA UpdateTroveKeepsLedger ==
  ASSUME Ledger, Books', NEW b \in Borrowers, UpdateTrove(b)
  PROVE  LedgerStep
<1>1. /\ ReInsertSorted(b, CurrentICR(b))
      /\ UNCHANGED <<status, TroveOwners, arrayIndex, stakeVars, snapshotVars,
                     systemSnapshotVars, rewardVars, debtVars, eToken, poolVars, surplus,
                     usdeVars, envVars>>
  BY DEF UpdateTrove
<1>2. /\ SnapshotsBehind' /\ Totals' /\ NoDustTroves' /\ CollPromisesKept'
      /\ ETokensHeld => ETokensHeld'
  BY <1>1, TrovesLeftAlone DEF poolVars
<1>3. CurrentICR(b) \in Nat
  BY PricesArePrices, TroveTypes, ValueIsNat, RatioIsNat, ConstantTypes DEF Ledger, CurrentICR
<1>4. recorded' \in [Borrowers -> Nat]
  BY <1>1, <1>3 DEF Ledger, TypeOK, ReInsertSorted
<1>5. list' \in Seq(Borrowers)
  BY BooksTypes
<1>6. TypeOK'
  BY <1>1, <1>4, <1>5 DEF Ledger, TypeOK, stakeVars, snapshotVars,
             systemSnapshotVars, rewardVars, debtVars, poolVars, usdeVars, envVars
<1>7. ActiveDebtExact' /\ DebtCoversUSDE' /\ (USDEBacked => USDEBacked')
  BY <1>1 DEF Ledger, ActiveDebtExact, DebtCoversUSDE, USDEBacked, debtVars, poolVars, usdeVars
<1> QED BY <1>2, <1>6, <1>7 DEF LedgerStep, Ledger

\* Prices, deposits and gas compensations keep the ledger.
LEMMA EnvironmentKeepsLedger ==
  ASSUME Books, Ledger, Environment
  PROVE  LedgerStep
<1>1. ASSUME NEW amount \in StabilityAmounts, ProvideToSP(amount)
      PROVE  LedgerStep
  <2>1. amount \in Int /\ amount <= wallets /\ amount > 0 /\ MoveToStabilityPool(amount)
        /\ totalUSDEDeposits \in Nat
    BY <1>1, ERDAssumption DEF ProvideToSP, Ledger, TypeOK
  <2>2. -amount <= totalUSDEDeposits
    BY <2>1
  <2> QED BY <2>1, <2>2, MoveToStabilityPoolKeepsLedger
<1>2. ASSUME NEW amount \in StabilityAmounts, WithdrawFromSP(amount)
      PROVE  LedgerStep
  <2>1. amount \in Int /\ amount <= totalUSDEDeposits /\ amount > 0 /\ MoveToStabilityPool(-amount)
        /\ totalUSDEDeposits \in Nat /\ wallets \in Nat
    BY <1>2, ERDAssumption DEF WithdrawFromSP, Ledger, TypeOK
  <2> DEFINE m == -amount
  <2>2. m \in Int /\ m <= wallets /\ -m <= totalUSDEDeposits /\ MoveToStabilityPool(m)
    BY <2>1
  <2> HIDE DEF m
  <2> QED BY <2>2, MoveToStabilityPoolKeepsLedger
<1> QED BY <1>1, <1>2, SetPriceKeepsLedger, SetGasCompensationKeepsLedger DEF Environment

\* Every call of a borrower keeps the ledger.
LEMMA BorrowerCallKeepsLedger ==
  ASSUME Books, Ledger, Books', NEW b \in Borrowers, BorrowerCall(b)
  PROVE  LedgerStep
<1>1. ASSUME NEW coll \in Deposits, NEW amount \in Loans, NEW rate \in BorrowingRates,
             OpenTrove(b, coll, amount, rate)
      PROVE  LedgerStep
  <2>1. coll \in Amounts /\ amount \in Nat /\ rate \in 0..DECIMAL_PRECISION
    BY ERDAssumption, BorrowerOperationsAssumption
  <2> QED BY <1>1, <2>1, OpenTroveKeepsLedger
<1>2. ASSUME NEW in \in TopUps \cup {Zeros}, NEW out \in TopUps \cup {Zeros},
             NEW change \in Changes \cup {0}, NEW isIncrease \in BOOLEAN,
             NEW rate \in BorrowingRates \cup {0},
             AdjustTrove(b, in, out, change, isIncrease, rate)
      PROVE  LedgerStep
  <2>1. in \in Amounts /\ out \in Amounts /\ change \in Nat /\ rate \in 0..DECIMAL_PRECISION
    BY ERDAssumption, BorrowerOperationsAssumption, PlusMinusTypes, ConstantTypes
  <2> QED BY <1>2, <2>1, AdjustTroveKeepsLedger
<1>3. CASE CloseTrove(b)
  BY <1>3, CloseTroveKeepsLedger
<1>4. CASE ClaimCollateral(b)
  BY <1>4, ClaimCollateralKeepsLedger
<1> QED BY <1>1, <1>2, <1>3, <1>4 DEF BorrowerCall

-----------------------------------------------------------------------------
(* Liquidations: what a closed trove leaves behind, and the totals of it.  *)

\* All of the debt is offset or redistributed, all of the collateral goes
\* somewhere.
Leaves(b, v) ==
  /\ v.debt = EntireDebt(b)
  /\ v.offset \in Nat /\ v.redist \in Nat /\ v.offset + v.redist = v.debt
  /\ v.gas = USDE_GAS_COMPENSATION
  /\ v.pendDebt = PendingUSDEDebtReward(b)
  /\ v.pendColl = PendingCollReward(b)
  /\ v.stakes = stakes[b]
  /\ v.toSP \in Amounts /\ v.redColl \in Amounts /\ v.gasColl \in Amounts /\ v.surplus \in Amounts
  /\ \A c \in Collaterals :
       v.toSP[c] + v.redColl[c] + v.gasColl[c] + v.surplus[c] = EntireColl(b)[c]

\* The smaller of two numbers.
LEMMA MinOfIs ==
  ASSUME NEW x \in Nat, NEW y \in Nat
  PROVE  MinOf(x, y) \in Nat /\ MinOf(x, y) <= x /\ MinOf(x, y) <= y
BY DEF MinOf

\* The liquidator's share of collateral is a part of it.
LEMMA GasShareIsPart ==
  ASSUME NEW f \in Amounts
  PROVE  CollGasCompensation(f) \in Amounts /\ Covers(f, CollGasCompensation(f))
<1>1. ASSUME NEW c \in Collaterals
      PROVE  f[c] \div PERCENT_DIVISOR \in Nat /\ f[c] \div PERCENT_DIVISOR <= f[c]
  <2> DEFINE q == f[c] \div PERCENT_DIVISOR
  <2>1. f[c] \in Nat /\ PERCENT_DIVISOR \in Nat \ {0}
    BY ConstantTypes DEF Amounts
  <2>2. q \in Nat /\ PERCENT_DIVISOR * q <= f[c]
    BY <2>1, Division
  <2> HIDE DEF q
  <2>3. q <= PERCENT_DIVISOR * q
    BY <2>1, <2>2, Z3
  <2>4. PERCENT_DIVISOR * q \in Nat
    BY <2>1, <2>2
  <2>5. q \in Nat /\ q <= f[c]
    BY <2>1, <2>2, <2>3, <2>4
  <2> QED BY <2>5 DEF q
<1>2. CollGasCompensation(f) \in Amounts
  BY <1>1 DEF CollGasCompensation, Amounts
<1>3. Covers(f, CollGasCompensation(f))
  BY <1>1 DEF CollGasCompensation, Covers, Amounts
<1> QED BY <1>2, <1>3

\* What goes to the StabilityPool for an offset is a part of the collateral.
LEMMA CollToSPIsPart ==
  ASSUME Priced, NEW coll \in Amounts, NEW debt \in Nat, NEW offset \in Nat, offset <= debt
  PROVE  CollToSP(coll, debt, offset) \in Amounts /\ Covers(coll, CollToSP(coll, debt, offset))
<1>1. CASE offset = 0
  <2>1. CollToSP(coll, debt, offset) = Zeros
    BY <1>1 DEF CollToSP
  <2>2. Covers(coll, Zeros)
    BY DEF Covers, Amounts, Zeros
  <2> QED BY <2>1, <2>2, PlusMinusTypes
<1>2. CASE offset # 0
  <2> DEFINE value == (ValueOf(coll) * offset) \div debt
  <2>1. debt \in Nat \ {0} /\ ValueOf(coll) * offset \in Nat
    BY <1>2, ValueIsNat
  <2>2. value \in Int
    BY <2>1, Division
  <2>3. CollToSP(coll, debt, offset) = Drawn(coll, value)
    BY <1>2 DEF CollToSP
  <2> HIDE DEF value
  <2> QED BY <2>2, <2>3, DrawnIsPart
<1> QED BY <1>1, <1>2

\* A liquidation in full distributes exactly the trove.
LEMMA FullValsLeave ==
  ASSUME TypeOK, SnapshotsBehind, NEW b \in Borrowers, NEW left \in Nat
  PROVE  /\ Leaves(b, FullVals(b, left))
         /\ FullVals(b, left).offset <= left
         /\ FullVals(b, left).surplus = Zeros
<1> DEFINE entire == EntireColl(b)
           debt == EntireDebt(b)
           gasColl == CollGasCompensation(entire)
           coll == Minus(entire, gasColl)
           offset == MinOf(debt, left)
           toSP == CollToSP(coll, debt, offset)
           redColl == Minus(coll, toSP)
           v == FullVals(b, left)
<1>1. /\ v.debt = debt /\ v.offset = offset /\ v.redist = debt - offset
      /\ v.gas = USDE_GAS_COMPENSATION /\ v.pendDebt = PendingUSDEDebtReward(b)
      /\ v.toSP = toSP /\ v.redColl = redColl /\ v.gasColl = gasColl /\ v.surplus = Zeros
      /\ v.pendColl = PendingCollReward(b) /\ v.stakes = stakes[b]
  BY DEF FullVals
<1>2. entire \in Amounts /\ debt \in Nat
  BY TroveTypes
<1> HIDE DEF v, entire, debt
<1>3. gasColl \in Amounts /\ Covers(entire, gasColl)
  BY <1>2, GasShareIsPart
<1> HIDE DEF gasColl
<1>4. coll \in Amounts /\ \A c \in Collaterals : coll[c] = entire[c] - gasColl[c]
  BY <1>2, <1>3, PlusMinusTypes
<1>5. offset \in Nat /\ offset <= debt /\ offset <= left
  BY <1>2, MinOfIs
<1> HIDE DEF coll, offset
<1>6. toSP \in Amounts /\ Covers(coll, toSP)
  BY <1>2, <1>4, <1>5, PricesArePrices, CollToSPIsPart
<1> HIDE DEF toSP
<1>7. redColl \in Amounts /\ \A c \in Collaterals : redColl[c] = coll[c] - toSP[c]
  BY <1>4, <1>6, PlusMinusTypes
<1> HIDE DEF redColl
<1>8. Zeros \in Amounts /\ \A c \in Collaterals : Zeros[c] = 0
  BY PlusMinusTypes
<1>9. \A c \in Collaterals : v.toSP[c] + v.redColl[c] + v.gasColl[c] + v.surplus[c] = entire[c]
  <2> TAKE c \in Collaterals
  <2>1. /\ toSP[c] \in Nat /\ redColl[c] \in Nat /\ gasColl[c] \in Nat /\ entire[c] \in Nat
        /\ coll[c] \in Nat /\ Zeros[c] = 0
    BY <1>2, <1>3, <1>4, <1>6, <1>7, <1>8 DEF Amounts
  <2>2. coll[c] = entire[c] - gasColl[c] /\ redColl[c] = coll[c] - toSP[c]
    BY <1>4, <1>7
  <2>3. toSP[c] + redColl[c] + gasColl[c] + 0 = entire[c]
    BY <2>1, <2>2
  <2> QED BY <1>1, <2>1, <2>3
<1>10. v.redist \in Nat /\ v.offset + v.redist = v.debt
  BY <1>1, <1>2, <1>5
<1>11. Leaves(b, v)
  BY <1>1, <1>3, <1>5, <1>6, <1>7, <1>8, <1>9, <1>10 DEF Leaves, entire, debt
<1> QED BY <1>1, <1>5, <1>11 DEF v

\* The claim of an owner who only lost what makes up the value.
ClaimBut(b, value) == Minus(EntireColl(b), Drawn(EntireColl(b), value))

\* MCR times the debt, rounded down.
CapOf(b) == (EntireDebt(b) * MCR) \div DECIMAL_PRECISION

\* A capped liquidation distributes exactly the trove, and leaves a surplus but the cap.
LEMMA CappedValsLeave ==
  ASSUME TypeOK, SnapshotsBehind, NEW b \in Borrowers
  PROVE  /\ Leaves(b, CappedVals(b))
         /\ CappedVals(b).offset = EntireDebt(b)
         /\ CappedVals(b).surplus = ClaimBut(b, CapOf(b))
         /\ CapOf(b) \in Nat
<1> DEFINE entire == EntireColl(b)
           debt == EntireDebt(b)
           cap == CapOf(b)
           capped == Drawn(entire, cap)
           gasColl == CollGasCompensation(capped)
           toSP == Minus(capped, gasColl)
           rest == Minus(entire, capped)
           v == CappedVals(b)
<1>1. /\ v.debt = debt /\ v.offset = debt /\ v.redist = 0
      /\ v.gas = USDE_GAS_COMPENSATION /\ v.pendDebt = PendingUSDEDebtReward(b)
      /\ v.toSP = toSP /\ v.redColl = Zeros /\ v.gasColl = gasColl /\ v.surplus = rest
      /\ v.pendColl = PendingCollReward(b) /\ v.stakes = stakes[b]
  BY DEF CappedVals, CapOf
<1>2. rest = ClaimBut(b, CapOf(b))
  BY DEF ClaimBut
<1>3. entire \in Amounts /\ debt \in Nat
  BY TroveTypes
<1>4. cap \in Nat
  <2>1. debt * MCR \in Nat
    BY <1>3, ConstantTypes
  <2> QED BY <2>1, ConstantTypes, Division DEF CapOf
<1> HIDE DEF v, entire, debt, cap
<1>5. capped \in Amounts /\ Covers(entire, capped)
  BY <1>3, <1>4, PricesArePrices, DrawnIsPart
<1> HIDE DEF capped
<1>6. gasColl \in Amounts /\ Covers(capped, gasColl)
  BY <1>5, GasShareIsPart
<1> HIDE DEF gasColl
<1>7. toSP \in Amounts /\ \A c \in Collaterals : toSP[c] = capped[c] - gasColl[c]
  BY <1>5, <1>6, PlusMinusTypes
<1>8. rest \in Amounts /\ \A c \in Collaterals : rest[c] = entire[c] - capped[c]
  BY <1>3, <1>5, PlusMinusTypes
<1> HIDE DEF toSP, rest
<1>9. Zeros \in Amounts /\ \A c \in Collaterals : Zeros[c] = 0
  BY PlusMinusTypes
<1>10. \A c \in Collaterals : v.toSP[c] + v.redColl[c] + v.gasColl[c] + v.surplus[c] = entire[c]
  <2> TAKE c \in Collaterals
  <2>1. /\ toSP[c] \in Nat /\ rest[c] \in Nat /\ gasColl[c] \in Nat /\ entire[c] \in Nat
        /\ capped[c] \in Nat /\ Zeros[c] = 0
    BY <1>3, <1>5, <1>6, <1>7, <1>8, <1>9 DEF Amounts
  <2>2. toSP[c] = capped[c] - gasColl[c] /\ rest[c] = entire[c] - capped[c]
    BY <1>7, <1>8
  <2>3. toSP[c] + 0 + gasColl[c] + rest[c] = entire[c]
    BY <2>1, <2>2
  <2> QED BY <1>1, <2>1, <2>3
<1>11. v.redist \in Nat /\ v.offset + v.redist = v.debt
  BY <1>1, <1>3
<1>12. Leaves(b, v)
  BY <1>1, <1>3, <1>6, <1>7, <1>8, <1>9, <1>10, <1>11 DEF Leaves, entire, debt
<1> QED BY <1>1, <1>2, <1>4, <1>12 DEF v, debt, cap

\* The totals of the troves in C.
TotalsOf(C, t) ==
  /\ t.offset \in Nat /\ t.redist \in Nat /\ t.debt = t.offset + t.redist
  /\ t.gas \in Nat /\ t.pendDebt \in Nat
  /\ t.toSP \in Amounts /\ t.redColl \in Amounts /\ t.gasColl \in Amounts
  /\ t.surplus \in Amounts /\ t.pendColl \in Amounts /\ t.stakes \in Amounts
  /\ t.pendDebt = SumFunctionOnSet(PendingDebts, C)
  /\ t.debt = SumFunctionOnSet(troveDebt, C) + t.pendDebt + t.gas
  /\ \A c \in Collaterals :
       /\ t.stakes[c] = SumFunctionOnSet(Col(stakes, c), C)
       /\ t.pendColl[c] = SumFunctionOnSet(PendingColls(c), C)
       /\ t.toSP[c] + t.redColl[c] + t.gasColl[c] + t.surplus[c]
            = SumFunctionOnSet(Col(eToken, c), C) + t.pendColl[c]

\* A liquidation that closed nobody has nothing to distribute.
LEMMA NoTotals ==
  TotalsOf({}, ZeroVals)
<1>1. /\ ZeroVals.debt = 0 /\ ZeroVals.offset = 0 /\ ZeroVals.redist = 0 /\ ZeroVals.gas = 0
      /\ ZeroVals.pendDebt = 0 /\ ZeroVals.toSP = Zeros /\ ZeroVals.redColl = Zeros
      /\ ZeroVals.gasColl = Zeros /\ ZeroVals.surplus = Zeros /\ ZeroVals.pendColl = Zeros
      /\ ZeroVals.stakes = Zeros
  BY DEF ZeroVals
<1>2. Zeros \in Amounts /\ \A c \in Collaterals : Zeros[c] = 0
  BY PlusMinusTypes
<1>3. /\ SumFunctionOnSet(PendingDebts, {}) = 0 /\ SumFunctionOnSet(troveDebt, {}) = 0
  BY SumOfNone
<1>4. \A c \in Collaterals : /\ SumFunctionOnSet(Col(stakes, c), {}) = 0
                             /\ SumFunctionOnSet(PendingColls(c), {}) = 0
                             /\ SumFunctionOnSet(Col(eToken, c), {}) = 0
  BY SumOfNone
<1> QED BY <1>1, <1>2, <1>3, <1>4 DEF TotalsOf

\* A sum over one owner more.
LEMMA SumOneMore ==
  ASSUME NEW f, \A x \in Borrowers : f[x] \in Nat, NEW C \in SUBSET Borrowers,
         NEW b \in Borrowers, b \notin C
  PROVE  /\ SumFunctionOnSet(f, C \cup {b}) = f[b] + SumFunctionOnSet(f, C)
         /\ SumFunctionOnSet(f, C) \in Nat
<1>1. \A x \in Borrowers : f[x] \in Int
  OBVIOUS
<1>2. SumFunctionOnSet(f, C \cup {b}) = f[b] + SumFunctionOnSet(f, C)
  BY <1>1, ConstantTypes, SumWith
<1>3. SumFunctionOnSet(f, C) \in Nat
  BY ConstantTypes, SumOfNaturals
<1> QED BY <1>2, <1>3

\* Types of the functions that are summed over the owners a walk closes.
LEMMA PendingSumTypes ==
  ASSUME TypeOK, SnapshotsBehind
  PROVE  /\ \A x \in Borrowers : PendingDebts[x] = PendingUSDEDebtReward(x) /\ PendingDebts[x] \in Nat
         /\ \A x \in Borrowers : troveDebt[x] \in Nat
         /\ \A c \in Collaterals, x \in Borrowers :
              /\ PendingColls(c)[x] = PendingCollReward(x)[c] /\ PendingColls(c)[x] \in Nat
              /\ Col(stakes, c)[x] = stakes[x][c] /\ Col(stakes, c)[x] \in Nat
              /\ Col(eToken, c)[x] = eToken[x][c] /\ Col(eToken, c)[x] \in Nat
<1>1. \A x \in Borrowers : PendingDebts[x] = PendingUSDEDebtReward(x) /\ PendingDebts[x] \in Nat
  BY PendingTypes DEF PendingDebts
<1>2. \A x \in Borrowers : troveDebt[x] \in Nat
  BY DEF TypeOK
<1>3. ASSUME NEW c \in Collaterals, NEW x \in Borrowers
      PROVE  PendingColls(c)[x] = PendingCollReward(x)[c] /\ PendingColls(c)[x] \in Nat
  <2>1. PendingColls(c)[x] = PendingCollReward(x)[c]
    BY DEF PendingColls
  <2>2. PendingCollReward(x) \in Amounts
    BY PendingTypes
  <2> QED BY <2>1, <2>2 DEF Amounts
<1>4. \A c \in Collaterals, x \in Borrowers :
              /\ Col(stakes, c)[x] = stakes[x][c] /\ Col(stakes, c)[x] \in Nat
              /\ Col(eToken, c)[x] = eToken[x][c] /\ Col(eToken, c)[x] \in Nat
  <2>1. stakes \in [Borrowers -> Amounts] /\ eToken \in [Borrowers -> Amounts]
    BY DEF TypeOK
  <2> QED BY <2>1, ColIsAt
<1> QED BY <1>1, <1>2, <1>3, <1>4

\* Two splits of a debt or of a collateral add up to one.
LEMMA EquationsAdd ==
  ASSUME NEW a1 \in Nat, NEW a2 \in Nat, NEW a3 \in Nat, NEW a4 \in Nat, NEW a \in Nat, NEW p \in Nat,
         NEW b1 \in Nat, NEW b2 \in Nat, NEW b3 \in Nat, NEW b4 \in Nat, NEW b \in Nat, NEW q \in Nat,
         a1 + a2 + a3 + a4 = a + p, b1 + b2 + b3 + b4 = b + q
  PROVE  (a1 + b1) + (a2 + b2) + (a3 + b3) + (a4 + b4) = (b + a) + (p + q)
OBVIOUS

\* The totals of a walk stay those of the owners it closed, with one more of them.
LEMMA TotalsOfOneMore ==
  ASSUME TypeOK, SnapshotsBehind, NEW C \in SUBSET Borrowers, NEW b \in Borrowers, b \notin C,
         NEW t, TotalsOf(C, t), NEW v, Leaves(b, v)
  PROVE  TotalsOf(C \cup {b}, AddVals(t, v))
<1> DEFINE w == AddVals(t, v)
           D == C \cup {b}
<1>1. /\ w.debt = t.debt + v.debt /\ w.offset = t.offset + v.offset
      /\ w.redist = t.redist + v.redist /\ w.gas = t.gas + v.gas
      /\ w.pendDebt = t.pendDebt + v.pendDebt
      /\ w.toSP = Plus(t.toSP, v.toSP) /\ w.redColl = Plus(t.redColl, v.redColl)
      /\ w.gasColl = Plus(t.gasColl, v.gasColl) /\ w.surplus = Plus(t.surplus, v.surplus)
      /\ w.pendColl = Plus(t.pendColl, v.pendColl) /\ w.stakes = Plus(t.stakes, v.stakes)
  BY DEF AddVals
<1> HIDE DEF w
<1>2. /\ v.offset \in Nat /\ v.redist \in Nat /\ v.debt = v.offset + v.redist
      /\ v.gas \in Nat /\ v.pendDebt \in Nat /\ troveDebt[b] \in Nat
      /\ v.pendDebt = PendingDebts[b]
      /\ v.debt = troveDebt[b] + v.gas + v.pendDebt
  BY TroveTypes, PendingTypes, GasTypes, PendingSumTypes DEF Leaves
<1>3. /\ t.offset \in Nat /\ t.redist \in Nat /\ t.debt = t.offset + t.redist
      /\ t.gas \in Nat /\ t.pendDebt \in Nat
      /\ t.pendDebt = SumFunctionOnSet(PendingDebts, C)
      /\ t.debt = SumFunctionOnSet(troveDebt, C) + t.pendDebt + t.gas
  BY DEF TotalsOf
<1>4. /\ SumFunctionOnSet(PendingDebts, D) = PendingDebts[b] + SumFunctionOnSet(PendingDebts, C)
      /\ SumFunctionOnSet(PendingDebts, C) \in Nat
  BY PendingSumTypes, SumOneMore
<1>5. /\ SumFunctionOnSet(troveDebt, D) = troveDebt[b] + SumFunctionOnSet(troveDebt, C)
      /\ SumFunctionOnSet(troveDebt, C) \in Nat
  BY PendingSumTypes, SumOneMore
<1>6. /\ w.offset \in Nat /\ w.redist \in Nat /\ w.debt = w.offset + w.redist
      /\ w.gas \in Nat /\ w.pendDebt \in Nat
      /\ w.pendDebt = SumFunctionOnSet(PendingDebts, D)
      /\ w.debt = SumFunctionOnSet(troveDebt, D) + w.pendDebt + w.gas
  <2>1. /\ w.offset \in Nat /\ w.redist \in Nat /\ w.debt = w.offset + w.redist
        /\ w.gas \in Nat /\ w.pendDebt \in Nat
    BY <1>1, <1>2, <1>3
  <2>2. w.pendDebt = SumFunctionOnSet(PendingDebts, D)
    BY <1>1, <1>2, <1>3, <1>4
  <2>3. t.debt + v.debt = (troveDebt[b] + SumFunctionOnSet(troveDebt, C))
                             + (t.pendDebt + v.pendDebt) + (t.gas + v.gas)
    BY <1>2, <1>3, <1>5
  <2> QED BY <1>1, <1>5, <2>1, <2>2, <2>3
<1>7. /\ t.toSP \in Amounts /\ t.redColl \in Amounts /\ t.gasColl \in Amounts
      /\ t.surplus \in Amounts /\ t.pendColl \in Amounts /\ t.stakes \in Amounts
      /\ v.toSP \in Amounts /\ v.redColl \in Amounts /\ v.gasColl \in Amounts
      /\ v.surplus \in Amounts /\ v.pendColl \in Amounts /\ v.stakes \in Amounts
  BY TroveTypes, PendingTypes DEF TotalsOf, Leaves
<1>8. /\ w.toSP \in Amounts /\ w.redColl \in Amounts /\ w.gasColl \in Amounts
      /\ w.surplus \in Amounts /\ w.pendColl \in Amounts /\ w.stakes \in Amounts
  BY <1>1, <1>7, PlusMinusTypes
<1>9. ASSUME NEW c \in Collaterals
      PROVE  /\ w.stakes[c] = SumFunctionOnSet(Col(stakes, c), D)
             /\ w.pendColl[c] = SumFunctionOnSet(PendingColls(c), D)
             /\ w.toSP[c] + w.redColl[c] + w.gasColl[c] + w.surplus[c]
                  = SumFunctionOnSet(Col(eToken, c), D) + w.pendColl[c]
  <2>1. /\ w.toSP[c] = t.toSP[c] + v.toSP[c] /\ w.redColl[c] = t.redColl[c] + v.redColl[c]
        /\ w.gasColl[c] = t.gasColl[c] + v.gasColl[c] /\ w.surplus[c] = t.surplus[c] + v.surplus[c]
        /\ w.pendColl[c] = t.pendColl[c] + v.pendColl[c] /\ w.stakes[c] = t.stakes[c] + v.stakes[c]
    BY <1>1, <1>7, PlusMinusTypes
  <2>2. /\ t.toSP[c] \in Nat /\ t.redColl[c] \in Nat /\ t.gasColl[c] \in Nat
        /\ t.surplus[c] \in Nat /\ t.pendColl[c] \in Nat /\ t.stakes[c] \in Nat
        /\ v.toSP[c] \in Nat /\ v.redColl[c] \in Nat /\ v.gasColl[c] \in Nat
        /\ v.surplus[c] \in Nat /\ v.pendColl[c] \in Nat /\ v.stakes[c] \in Nat
    BY <1>7 DEF Amounts
  <2>3. /\ t.stakes[c] = SumFunctionOnSet(Col(stakes, c), C)
        /\ t.pendColl[c] = SumFunctionOnSet(PendingColls(c), C)
        /\ t.toSP[c] + t.redColl[c] + t.gasColl[c] + t.surplus[c]
             = SumFunctionOnSet(Col(eToken, c), C) + t.pendColl[c]
    BY DEF TotalsOf
  <2>4. /\ v.stakes[c] = Col(stakes, c)[b] /\ v.pendColl[c] = PendingColls(c)[b]
        /\ Col(eToken, c)[b] \in Nat
        /\ v.toSP[c] + v.redColl[c] + v.gasColl[c] + v.surplus[c] = Col(eToken, c)[b] + v.pendColl[c]
    <3>1. EntireColl(b)[c] = eToken[b][c] + PendingCollReward(b)[c]
      BY TroveTypes, PendingTypes, PlusMinusTypes DEF EntireColl
    <3>2. /\ PendingColls(c)[b] = PendingCollReward(b)[c] /\ Col(stakes, c)[b] = stakes[b][c]
          /\ Col(eToken, c)[b] = eToken[b][c] /\ Col(eToken, c)[b] \in Nat
      BY PendingSumTypes
    <3> QED BY <3>1, <3>2 DEF Leaves
  <2>5. SumFunctionOnSet(Col(stakes, c), D) = Col(stakes, c)[b] + SumFunctionOnSet(Col(stakes, c), C)
    <3> DEFINE f == Col(stakes, c)
    <3>1. \A x \in Borrowers : f[x] \in Nat
      BY PendingSumTypes
    <3> HIDE DEF f
    <3>2. SumFunctionOnSet(f, D) = f[b] + SumFunctionOnSet(f, C)
      BY <3>1, SumOneMore
    <3> QED BY <3>2 DEF f
  <2>6. SumFunctionOnSet(PendingColls(c), D) = PendingColls(c)[b] + SumFunctionOnSet(PendingColls(c), C)
    <3> DEFINE f == PendingColls(c)
    <3>1. \A x \in Borrowers : f[x] \in Nat
      BY PendingSumTypes
    <3> HIDE DEF f
    <3>2. SumFunctionOnSet(f, D) = f[b] + SumFunctionOnSet(f, C)
      BY <3>1, SumOneMore
    <3> QED BY <3>2 DEF f
  <2>7. /\ SumFunctionOnSet(Col(eToken, c), D) = Col(eToken, c)[b] + SumFunctionOnSet(Col(eToken, c), C)
        /\ SumFunctionOnSet(Col(eToken, c), C) \in Nat
    <3> DEFINE f == Col(eToken, c)
    <3>1. \A x \in Borrowers : f[x] \in Nat
      BY PendingSumTypes
    <3> HIDE DEF f
    <3>2. SumFunctionOnSet(f, D) = f[b] + SumFunctionOnSet(f, C) /\ SumFunctionOnSet(f, C) \in Nat
      BY <3>1, SumOneMore
    <3> QED BY <3>2 DEF f
  <2>8. w.stakes[c] = SumFunctionOnSet(Col(stakes, c), D)
    BY <2>1, <2>2, <2>3, <2>4, <2>5
  <2>9. w.pendColl[c] = SumFunctionOnSet(PendingColls(c), D)
    BY <2>1, <2>2, <2>3, <2>4, <2>6
  <2>10. w.toSP[c] + w.redColl[c] + w.gasColl[c] + w.surplus[c]
                  = SumFunctionOnSet(Col(eToken, c), D) + w.pendColl[c]
    <3>1. (t.toSP[c] + v.toSP[c]) + (t.redColl[c] + v.redColl[c]) + (t.gasColl[c] + v.gasColl[c])
            + (t.surplus[c] + v.surplus[c])
          = (Col(eToken, c)[b] + SumFunctionOnSet(Col(eToken, c), C)) + (t.pendColl[c] + v.pendColl[c])
      <4> DEFINE a == SumFunctionOnSet(Col(eToken, c), C)
                 x == Col(eToken, c)[b]
      <4>1. a \in Nat /\ x \in Nat
        BY <2>4, <2>7
      <4>2. /\ t.toSP[c] + t.redColl[c] + t.gasColl[c] + t.surplus[c] = a + t.pendColl[c]
            /\ v.toSP[c] + v.redColl[c] + v.gasColl[c] + v.surplus[c] = x + v.pendColl[c]
        BY <2>3, <2>4
      <4> HIDE DEF a, x
      <4>3. (t.toSP[c] + v.toSP[c]) + (t.redColl[c] + v.redColl[c]) + (t.gasColl[c] + v.gasColl[c])
              + (t.surplus[c] + v.surplus[c]) = (x + a) + (t.pendColl[c] + v.pendColl[c])
        BY <2>2, <4>1, <4>2, EquationsAdd
      <4> QED BY <4>3 DEF a, x
    <3> QED BY <2>1, <2>7, <3>1
  <2> QED BY <2>8, <2>9, <2>10
<1> HIDE DEF D
<1>10. TotalsOf(D, w)
  BY <1>6, <1>8, <1>9 DEF TotalsOf
<1> QED BY <1>10 DEF w, D

-----------------------------------------------------------------------------
(* The walk of a liquidation.                                              *)

\* How much b may claim once it is liquidated: nothing below the MCR (or at
\* or below 100%), else what is left when the StabilityPool took its cap.
LiquidatedClaim(b, s) ==
  \/ s = Zeros /\ (CurrentICR(b) < MCR \/ CurrentICR(b) <= DECIMAL_PRECISION)
  \/ s = ClaimBut(b, CapOf(b)) /\ RecoveryMode /\ totalUSDEDeposits >= EntireDebt(b)

LiquidationLedger(acc) ==
  /\ acc.left \in Nat /\ acc.left + acc.totals.offset = totalUSDEDeposits
  /\ acc.index \in [Borrowers -> Nat]
  /\ acc.surplus \in [Borrowers -> Amounts]
  /\ TotalsOf(acc.closed, acc.totals)
  /\ ~acc.normal => RecoveryMode
  /\ \A x \in Borrowers \ acc.closed : acc.surplus[x] = surplus[x]
  /\ \A x \in acc.closed : \E s \in Amounts :
       acc.surplus[x] = Plus(surplus[x], s) /\ LiquidatedClaim(x, s)

\* A liquidation starts with its invariant.
LEMMA StartsWithLedger ==
  ASSUME TypeOK
  PROVE  LiquidationLedger(Start)
<1>1. /\ Start.left = totalUSDEDeposits /\ Start.totals = ZeroVals /\ Start.index = arrayIndex
      /\ Start.surplus = surplus /\ Start.closed = {} /\ Start.normal = ~RecoveryMode
  BY DEF Start
<1>2. totalUSDEDeposits \in Nat /\ arrayIndex \in [Borrowers -> Nat] /\ surplus \in [Borrowers -> Amounts]
  BY DEF TypeOK
<1>3. ZeroVals.offset = 0
  BY DEF ZeroVals
<1>4. /\ Start.left \in Nat /\ Start.left + Start.totals.offset = totalUSDEDeposits
  BY <1>1, <1>2, <1>3
<1>5. TotalsOf(Start.closed, Start.totals)
  BY <1>1, NoTotals
<1> QED BY <1>1, <1>2, <1>4, <1>5 DEF LiquidationLedger

\* Closing one trove more keeps the invariant of the walk.
LEMMA ClosingKeepsLedger ==
  ASSUME TypeOK, SnapshotsBehind, NEW acc, LiquidationWalk(acc), LiquidationLedger(acc),
         NEW b \in Borrowers, b \notin acc.closed,
         NEW v, v # ZeroVals => /\ Leaves(b, v) /\ v.offset <= acc.left
                                /\ LiquidatedClaim(b, v.surplus)
  PROVE  LiquidationLedger(Closing(acc, b, v))
<1> DEFINE next == [acc EXCEPT !.left = @ - v.offset,
                               !.closed = @ \cup {b},
                               !.owners = OwnersWithout(acc.owners, acc.index, b),
                               !.index = IndexWithout(acc.owners, acc.index, b),
                               !.list = Without(@, b),
                               !.surplus[b] = Plus(@, v.surplus),
                               !.totals = AddVals(@, v)]
<1>1. CASE v = ZeroVals
  BY <1>1 DEF Closing
<1>2. CASE v # ZeroVals /\ ~MayClose(acc.owners, acc.list)
  <2>1. Closing(acc, b, v) = [acc EXCEPT !.reverted = TRUE]
    BY <1>2 DEF Closing
  <2>2. /\ Closing(acc, b, v).left = acc.left /\ Closing(acc, b, v).totals = acc.totals
        /\ Closing(acc, b, v).index = acc.index /\ Closing(acc, b, v).surplus = acc.surplus
        /\ Closing(acc, b, v).closed = acc.closed /\ Closing(acc, b, v).normal = acc.normal
    BY <2>1 DEF LiquidationWalk
  <2> QED BY <2>2 DEF LiquidationLedger
<1>3. CASE v # ZeroVals /\ MayClose(acc.owners, acc.list)
  <2>1. Closing(acc, b, v) = next
    BY <1>3 DEF Closing
  <2>2. /\ next.left = acc.left - v.offset
        /\ next.closed = acc.closed \cup {b}
        /\ next.index = IndexWithout(acc.owners, acc.index, b)
        /\ next.surplus = [acc.surplus EXCEPT ![b] = Plus(acc.surplus[b], v.surplus)]
        /\ next.totals = AddVals(acc.totals, v)
        /\ next.normal = acc.normal
    BY DEF LiquidationWalk
  <2> HIDE DEF next
  <2>3. Leaves(b, v) /\ v.offset <= acc.left /\ LiquidatedClaim(b, v.surplus)
    BY <1>3
  <2>4. acc.closed \in SUBSET Borrowers
    BY DEF LiquidationWalk, BooksOf, ActiveTroves
  <2>5. TotalsOf(next.closed, next.totals)
    <3>1. TotalsOf(acc.closed, acc.totals)
      BY DEF LiquidationLedger
    <3>2. TotalsOf(acc.closed \cup {b}, AddVals(acc.totals, v))
      BY <2>3, <2>4, <3>1, TotalsOfOneMore
    <3> QED BY <2>2, <3>2
  <2>6. next.left \in Nat /\ next.left + next.totals.offset = totalUSDEDeposits
    <3>1. v.offset \in Nat /\ acc.left \in Nat /\ acc.totals.offset \in Nat
          /\ acc.left + acc.totals.offset = totalUSDEDeposits
      BY <2>3 DEF Leaves, LiquidationLedger, TotalsOf
    <3>2. next.totals.offset = acc.totals.offset + v.offset
      BY <2>2 DEF AddVals
    <3> QED BY <2>2, <2>3, <3>1, <3>2
  <2>7. next.index \in [Borrowers -> Nat]
    BY <2>2, IndexWithoutType DEF LiquidationLedger
  <2>8. /\ next.surplus \in [Borrowers -> Amounts]
        /\ next.surplus[b] = Plus(surplus[b], v.surplus)
        /\ \A x \in Borrowers \ {b} : next.surplus[x] = acc.surplus[x]
    <3>1. acc.surplus \in [Borrowers -> Amounts] /\ acc.surplus[b] = surplus[b]
      BY DEF LiquidationLedger
    <3>2. v.surplus \in Amounts /\ surplus[b] \in Amounts
      BY <2>3, TroveTypes DEF Leaves
    <3>3. Plus(surplus[b], v.surplus) \in Amounts
      BY <3>2, PlusMinusTypes
    <3> QED BY <2>2, <3>1, <3>3
  <2>9. \A x \in Borrowers \ next.closed : next.surplus[x] = surplus[x]
    BY <2>2, <2>8 DEF LiquidationLedger
  <2>10. ASSUME NEW x \in next.closed
         PROVE  \E s \in Amounts : next.surplus[x] = Plus(surplus[x], s) /\ LiquidatedClaim(x, s)
    <3>1. CASE x = b
      BY <2>3, <2>8, <3>1 DEF Leaves
    <3>2. CASE x # b
      <4>1. x \in acc.closed /\ x \in Borrowers
        BY <2>2, <2>4, <3>2
      <4>2. PICK s \in Amounts : acc.surplus[x] = Plus(surplus[x], s) /\ LiquidatedClaim(x, s)
        BY <4>1 DEF LiquidationLedger
      <4> QED BY <2>8, <3>2, <4>1, <4>2
    <3> QED BY <3>1, <3>2
  <2>11. ~next.normal => RecoveryMode
    BY <2>2 DEF LiquidationLedger
  <2>12. LiquidationLedger(next)
    BY <2>5, <2>6, <2>7, <2>8, <2>9, <2>10, <2>11 DEF LiquidationLedger
  <2> QED BY <2>1, <2>12
<1> QED BY <1>1, <1>2, <1>3

\* In recovery mode, too, a liquidation distributes exactly the trove.
LEMMA RecoveryValsLeave ==
  ASSUME TypeOK, SnapshotsBehind, NEW acc, LiquidationLedger(acc), ~acc.normal,
         NEW b \in Borrowers, RecoveryVals(acc, b) # ZeroVals
  PROVE  /\ Leaves(b, RecoveryVals(acc, b)) /\ RecoveryVals(acc, b).offset <= acc.left
         /\ LiquidatedClaim(b, RecoveryVals(acc, b).surplus)
<1> DEFINE v == RecoveryVals(acc, b)
<1>1. acc.left \in Nat /\ RecoveryMode /\ acc.left <= totalUSDEDeposits /\ totalUSDEDeposits \in Nat
  <2>1. /\ acc.left \in Nat /\ acc.left + acc.totals.offset = totalUSDEDeposits
        /\ acc.totals.offset \in Nat /\ RecoveryMode
    BY DEF LiquidationLedger, TotalsOf
  <2> QED BY <2>1
<1>2. \/ v = FullVals(b, 0) /\ CurrentICR(b) <= DECIMAL_PRECISION
      \/ v = FullVals(b, acc.left) /\ CurrentICR(b) < MCR
      \/ v = CappedVals(b) /\ EntireDebt(b) <= acc.left
  BY DEF RecoveryVals
<1> HIDE DEF v
<1>3. CASE v = FullVals(b, 0) /\ CurrentICR(b) <= DECIMAL_PRECISION
  <2>1. 0 \in Nat /\ Leaves(b, v) /\ v.offset <= 0 /\ v.surplus = Zeros
    BY <1>3, FullValsLeave
  <2>2. v.offset <= acc.left
    BY <1>1, <2>1 DEF Leaves
  <2> QED BY <1>3, <2>1, <2>2 DEF LiquidatedClaim, v
<1>4. CASE v = FullVals(b, acc.left) /\ CurrentICR(b) < MCR
  <2>1. Leaves(b, v) /\ v.offset <= acc.left /\ v.surplus = Zeros
    BY <1>1, <1>4, FullValsLeave
  <2> QED BY <1>4, <2>1 DEF LiquidatedClaim, v
<1>5. CASE v = CappedVals(b) /\ EntireDebt(b) <= acc.left
  <2>1. Leaves(b, v) /\ v.offset = EntireDebt(b) /\ v.surplus = ClaimBut(b, CapOf(b))
    BY <1>5, CappedValsLeave
  <2>2. totalUSDEDeposits >= EntireDebt(b)
    BY <1>1, <1>5, TroveTypes
  <2> QED BY <1>1, <1>5, <2>1, <2>2 DEF LiquidatedClaim, v
<1> QED BY <1>2, <1>3, <1>4, <1>5

\* Whatever a liquidation does with the next trove keeps its invariant.
LEMMA ProcessKeepsLedger ==
  ASSUME Books, TypeOK, SnapshotsBehind, NEW acc, LiquidationWalk(acc), LiquidationLedger(acc),
         NEW b \in Borrowers, NEW stop
  PROVE  LiquidationLedger(Process(acc, b, stop))
<1>1. CASE acc.reverted \/ acc.stopped
  BY <1>1 DEF Process
<1>2. CASE ~(acc.reverted \/ acc.stopped) /\ Spared(acc, b)
  <2> DEFINE next == Process(acc, b, stop)
  <2>1. next = [acc EXCEPT !.stopped = stop]
    BY <1>2 DEF Process
  <2> HIDE DEF next
  <2>2. /\ next.left = acc.left /\ next.totals = acc.totals
        /\ next.index = acc.index /\ next.surplus = acc.surplus
        /\ next.closed = acc.closed /\ next.normal = acc.normal
    BY <2>1 DEF LiquidationWalk
  <2>3. LiquidationLedger(next)
    BY <2>2 DEF LiquidationLedger
  <2> QED BY <2>3 DEF next
<1>3. CASE ~(acc.reverted \/ acc.stopped) /\ ~Spared(acc, b)
  <2>1. b \in ActiveTroves /\ b \notin acc.closed
    BY <1>3 DEF Spared, ActiveTroves
  <2>2. CASE acc.normal
    <3>1. CurrentICR(b) < MCR
      <4>1. CurrentICR(b) \in Nat /\ MCR \in Nat
        BY PricesArePrices, TroveTypes, ValueIsNat, RatioIsNat, ConstantTypes DEF CurrentICR
      <4> QED BY <1>3, <2>2, <4>1 DEF Spared
    <3> DEFINE v == FullVals(b, acc.left)
    <3>2. Leaves(b, v) /\ v.offset <= acc.left /\ v.surplus = Zeros
      <4>1. acc.left \in Nat
        BY DEF LiquidationLedger
      <4> QED BY <4>1, FullValsLeave
    <3>3. LiquidatedClaim(b, v.surplus)
      BY <3>1, <3>2 DEF LiquidatedClaim
    <3>4. Process(acc, b, stop) = Closing(acc, b, v)
      BY <1>3, <2>2 DEF Process
    <3> HIDE DEF v
    <3> QED BY <2>1, <3>2, <3>3, <3>4, ClosingKeepsLedger
  <2>3. CASE ~acc.normal
    <3> DEFINE v == RecoveryVals(acc, b)
               next == Closing(acc, b, v)
               last == Tracked(next, v)
    <3>1. v # ZeroVals => /\ Leaves(b, v) /\ v.offset <= acc.left
                          /\ LiquidatedClaim(b, v.surplus)
      BY <2>3, RecoveryValsLeave
    <3>2. v # ZeroVals => v.gas = USDE_GAS_COMPENSATION
      BY ValsTakeReserve
    <3>3. Process(acc, b, stop) = last
      BY <1>3, <2>3 DEF Process
    <3> HIDE DEF v
    <3>4. LiquidationWalk(next) /\ LiquidationLedger(next)
      BY <2>1, <3>1, <3>2, ClosingKeepsWalk, ClosingKeepsLedger
    <3>5. RecoveryMode
      BY <2>3 DEF LiquidationLedger
    <3> HIDE DEF next
    <3>6. /\ last.left = next.left /\ last.totals = next.totals
          /\ last.index = next.index /\ last.surplus = next.surplus
          /\ last.closed = next.closed
      BY <3>4 DEF Tracked, LiquidationWalk
    <3> HIDE DEF last
    <3>7. LiquidationLedger(last)
      BY <3>4, <3>5, <3>6 DEF LiquidationLedger
    <3> QED BY <3>3, <3>7
  <2> QED BY <2>2, <2>3
<1> QED BY <1>1, <1>2, <1>3

\* A liquidation keeps its invariant along any sequence of owners.
LEMMA RunOverKeepsLedger ==
  ASSUME Books, TypeOK, SnapshotsBehind, NEW owners, Len(owners) \in Nat,
         \A i \in 1..Len(owners) : owners[i] \in Borrowers, NEW stop
  PROVE  LiquidationWalk(RunOver(owners, stop)) /\ LiquidationLedger(RunOver(owners, stop))
<1> DEFINE n == Len(owners)
<1>1. PICK run : /\ run = [i \in 0..n |-> IF i = 0 THEN Start
                                          ELSE Process(run[i - 1], owners[i], stop)]
                 /\ RunOver(owners, stop) = run[n]
  BY RunOverStep
<1> HIDE DEF n
<1> DEFINE T == {i \in 0..n : LiquidationWalk(run[i]) /\ LiquidationLedger(run[i])}
<1>2. n \in Nat /\ \A i \in 1..n : owners[i] \in Borrowers
  BY DEF n
<1>3. 0 \in T
  <2>1. run[0] = Start
    BY <1>1, <1>2
  <2> QED BY <1>2, <2>1, StartsAsLiquidationWalk, StartsWithLedger
<1>4. ASSUME NEW i \in 0..(n - 1), i \in T
      PROVE  i + 1 \in T
  <2>1. i + 1 \in 1..n /\ i + 1 \in 0..n /\ (i + 1) - 1 = i /\ i + 1 # 0
    BY <1>2
  <2>2. run[i + 1] = Process(run[i], owners[i + 1], stop)
    BY <1>1, <2>1
  <2>3. LiquidationWalk(run[i]) /\ LiquidationLedger(run[i]) /\ owners[i + 1] \in Borrowers
    BY <1>2, <1>4, <2>1
  <2> QED BY <2>1, <2>2, <2>3, ProcessKeepsWalk, ProcessKeepsLedger
<1> HIDE DEF T
<1>5. 0..n \subseteq T
  BY <1>2, <1>3, <1>4, SetInduction
<1> QED BY <1>1, <1>2, <1>5 DEF T

-----------------------------------------------------------------------------
(* Promises, once some troves are closed and the sums per unit raised.     *)

\* What a sum per unit staked promises to an owner.
LEMMA PromisesAreNat ==
  ASSUME NEW stk \in [Borrowers -> Amounts], NEW sums \in Amounts, NEW snaps \in [Borrowers -> Amounts],
         NEW c \in Collaterals, \A x \in Borrowers : snaps[x][c] <= sums[c]
  PROVE  \A x \in Borrowers :
           /\ PromisedTo(stk, sums, snaps, c)[x] = stk[x][c] * (sums[c] - snaps[x][c])
           /\ PromisedTo(stk, sums, snaps, c)[x] \in Nat
<1> TAKE x \in Borrowers
<1>1. stk[x][c] \in Nat /\ sums[c] \in Nat /\ snaps[x][c] \in Nat /\ snaps[x][c] <= sums[c]
  BY DEF Amounts
<1>2. stk[x][c] * (sums[c] - snaps[x][c]) \in Nat
  BY <1>1, RewardIsPart
<1> QED BY <1>2 DEF PromisedTo

\* The rewards the owners in C had coming are a part of what they were promised.
LEMMA PendingIsPartOfPromised ==
  ASSUME TypeOK, SnapshotsBehind, NEW C \in SUBSET Borrowers, NEW c \in Collaterals
  PROVE  /\ DECIMAL_PRECISION * SumFunctionOnSet(PendingColls(c), C)
              <= SumFunctionOnSet(PromisedTo(stakes, E_Coll, snapshotColl, c), C)
         /\ SumFunctionOnSet(PendingColls(c), C) \in Nat
<1> DEFINE f == PendingColls(c)
           g == PromisedTo(stakes, E_Coll, snapshotColl, c)
           h == [x \in Borrowers |-> DECIMAL_PRECISION * f[x]]
           P == DECIMAL_PRECISION
<1>1. \A x \in Borrowers : f[x] \in Nat /\ f[x] = PendingCollReward(x)[c]
  BY PendingSumTypes
<1>2. \A x \in Borrowers : /\ g[x] = stakes[x][c] * (E_Coll[c] - snapshotColl[x][c]) /\ g[x] \in Nat
                           /\ P * f[x] <= g[x]
  BY <1>1, AppliedIsPart DEF PromisedTo
<1>3. P \in Nat
  BY ConstantTypes
<1> HIDE DEF f, g, P
<1>4. \A x \in Borrowers : P * f[x] \in Nat
  BY <1>1, <1>3
<1>5. IsFiniteSet(C)
  BY ConstantTypes, FS_Subset
<1>6. \A x \in C : f[x] \in Int /\ h[x] = P * f[x] /\ h[x] \in Int /\ g[x] \in Int /\ h[x] <= g[x]
  BY <1>1, <1>2, <1>4 DEF P
<1> HIDE DEF h
<1>7. SumFunctionOnSet(h, C) <= SumFunctionOnSet(g, C)
  BY <1>5, <1>6, SumMonotone
<1>8. SumFunctionOnSet(h, C) = P * SumFunctionOnSet(f, C)
  BY <1>3, <1>5, <1>6, SumScaled
<1>9. SumFunctionOnSet(f, C) \in Nat
  BY <1>1, ConstantTypes, SumOfNaturals
<1> QED BY <1>7, <1>8, <1>9 DEF f, g, P

\* Nothing is promised to closed troves, and the others keep their promises.
LEMMA ClearedPromises ==
  ASSUME TypeOK, SnapshotsBehind, CollPromisesKept, NEW C \in SUBSET Borrowers, NEW c \in Collaterals,
         NEW stk \in [Borrowers -> Amounts], NEW snaps \in [Borrowers -> Amounts],
         \A x \in Borrowers \ C : stk[x] = stakes[x] /\ snaps[x] = snapshotColl[x],
         \A x \in C : stk[x] = Zeros /\ snaps[x] = Zeros
  PROVE  /\ Total(PromisedTo(stk, E_Coll, snaps, c)) \in Nat
         /\ Total(PromisedTo(stk, E_Coll, snaps, c)) + lastCollError[c]
              <= DECIMAL_PRECISION * (defaultColl[c] - SumFunctionOnSet(PendingColls(c), C))
<1> DEFINE f == PromisedTo(stakes, E_Coll, snapshotColl, c)
           g == PromisedTo(stk, E_Coll, snaps, c)
           a == SumFunctionOnSet(PendingColls(c), C)
           P == DECIMAL_PRECISION
<1>1. /\ stakes \in [Borrowers -> Amounts] /\ snapshotColl \in [Borrowers -> Amounts]
      /\ E_Coll \in Amounts /\ E_Coll[c] \in Nat /\ lastCollError[c] \in Nat /\ defaultColl[c] \in Nat
      /\ \A x \in Borrowers : snapshotColl[x][c] <= E_Coll[c]
      /\ Zeros[c] = 0
  BY PlusMinusTypes DEF TypeOK, SnapshotsBehind, Amounts
<1>2. \A x \in Borrowers : snaps[x][c] <= E_Coll[c]
  BY <1>1
<1>3. \A x \in Borrowers : /\ f[x] = stakes[x][c] * (E_Coll[c] - snapshotColl[x][c]) /\ f[x] \in Nat
                           /\ g[x] = stk[x][c] * (E_Coll[c] - snaps[x][c]) /\ g[x] \in Nat
  <2>1. \A x \in Borrowers : f[x] = stakes[x][c] * (E_Coll[c] - snapshotColl[x][c]) /\ f[x] \in Nat
    BY <1>1, PromisesAreNat
  <2>2. \A x \in Borrowers : g[x] = stk[x][c] * (E_Coll[c] - snaps[x][c]) /\ g[x] \in Nat
    BY <1>1, <1>2, PromisesAreNat
  <2> HIDE DEF f, g
  <2> QED BY <2>1, <2>2
<1>4. \A x \in Borrowers \ C : g[x] = f[x]
  BY <1>3
<1>5. \A x \in C : g[x] = 0
  BY <1>1, <1>3
<1>6. P * a <= SumFunctionOnSet(f, C) /\ a \in Nat
  BY PendingIsPartOfPromised
<1>7. Total(f) + lastCollError[c] <= P * defaultColl[c]
  BY DEF CollPromisesKept
<1>8. P \in Nat
  BY ConstantTypes
<1> HIDE DEF f, g, a, P
<1>9. Total(g) = Total(f) - SumFunctionOnSet(f, C)
  BY <1>3, <1>4, <1>5, TotalCleared
<1>10. Total(f) \in Nat /\ Total(g) \in Nat /\ SumFunctionOnSet(f, C) \in Nat
  BY <1>3, TotalIsNat, ConstantTypes, SumOfNaturals
<1>11. P * (defaultColl[c] - a) = P * defaultColl[c] - P * a
  BY <1>1, <1>6, <1>8, Z3
<1>12. P * defaultColl[c] \in Int /\ P * a \in Int
  BY <1>1, <1>6, <1>8
<1>13. Total(g) + lastCollError[c] <= P * (defaultColl[c] - a)
  BY <1>1, <1>6, <1>7, <1>9, <1>10, <1>11, <1>12
<1> QED BY <1>10, <1>13 DEF g, a, P

\* When a sum per unit grows by q, each unit staked is promised q more.
LEMMA RaisedPromises ==
  ASSUME NEW stk \in [Borrowers -> Amounts], NEW snaps \in [Borrowers -> Amounts],
         NEW old \in Amounts, NEW new \in Amounts, NEW c \in Collaterals, NEW q \in Nat,
         new[c] = old[c] + q, \A x \in Borrowers : snaps[x][c] <= old[c]
  PROVE  Total(PromisedTo(stk, new, snaps, c))
           = Total(PromisedTo(stk, old, snaps, c)) + q * Total(Col(stk, c))
<1> DEFINE f == PromisedTo(stk, old, snaps, c)
           g == PromisedTo(stk, new, snaps, c)
           s == Col(stk, c)
           h == [x \in Borrowers |-> q * s[x]]
<1>1. old[c] \in Nat /\ new[c] \in Nat /\ \A x \in Borrowers : snaps[x][c] \in Nat /\ stk[x][c] \in Nat
  BY DEF Amounts
<1>2. \A x \in Borrowers : snaps[x][c] <= new[c]
  BY <1>1
<1>3. \A x \in Borrowers : /\ f[x] = stk[x][c] * (old[c] - snaps[x][c]) /\ f[x] \in Nat
                           /\ g[x] = stk[x][c] * (new[c] - snaps[x][c]) /\ g[x] \in Nat
  BY <1>2, PromisesAreNat
<1>4. \A x \in Borrowers : s[x] = stk[x][c] /\ s[x] \in Nat
  BY ColIsAt
<1> HIDE DEF f, g, s
<1>5. \A x \in Borrowers : h[x] = q * s[x] /\ h[x] \in Int
  BY <1>4
<1>6. ASSUME NEW x \in Borrowers
      PROVE  g[x] = f[x] + h[x]
  <2> DEFINE k == stk[x][c]
             m == snaps[x][c]
             o == old[c]
  <2>1. k \in Nat /\ m \in Nat /\ o \in Nat
    BY <1>1
  <2>2. g[x] = k * ((o + q) - m) /\ f[x] = k * (o - m) /\ h[x] = q * k
    BY <1>3, <1>4, <1>5
  <2> HIDE DEF k, m, o, h
  <2>3. k * ((o + q) - m) = k * (o - m) + q * k
    BY <2>1, Z3
  <2> QED BY <2>2, <2>3
<1> HIDE DEF h
<1>7. SumFunctionOnSet(g, Borrowers) = SumFunctionOnSet(f, Borrowers) + SumFunctionOnSet(h, Borrowers)
  <2>1. \A x \in Borrowers : f[x] \in Int /\ h[x] \in Int /\ g[x] = f[x] + h[x]
    BY <1>3, <1>5, <1>6
  <2> QED BY <2>1, ConstantTypes, SumOfSums
<1>8. SumFunctionOnSet(h, Borrowers) = q * SumFunctionOnSet(s, Borrowers)
  <2>1. \A x \in Borrowers : s[x] \in Int /\ h[x] = q * s[x]
    BY <1>4, <1>5
  <2> QED BY <2>1, ConstantTypes, SumScaled
<1>9. Total(g) = Total(f) + q * Total(s)
  BY <1>7, <1>8 DEF Total
<1> QED BY <1>9 DEF f, g, s

\* What is added to a sum per unit, times the units, and the new error are
\* what there was to spread and the old error.
LEMMA SpreadExactly ==
  ASSUME NEW n \in Nat, NEW shared \in Nat \ {0}
  PROVE  /\ n \div shared \in Nat /\ n % shared \in Nat
         /\ (n \div shared) * shared + (n % shared) = n
<1> DEFINE q == n \div shared
           r == n % shared
<1>1. q \in Nat /\ r \in Nat /\ n = shared * q + r
  BY Division
<1> HIDE DEF q, r
<1>2. q * shared = shared * q
  BY <1>1, Z3
<1>3. q * shared \in Nat
  BY <1>1, Z3
<1>4. q * shared + r = n
  BY <1>1, <1>2, <1>3
<1> QED BY <1>1, <1>4 DEF q, r

\* The redistributed debt is shared among the collaterals by value.
LEMMA ProratedTypes ==
  ASSUME Priced, NEW t, t.redColl \in Amounts, t.redist \in Nat
  PROVE  Prorated(t) \in Amounts
<1> DEFINE value == Values(t.redColl)
           total == ValueOf(t.redColl)
<1>1. value \in Amounts /\ total \in Nat
  BY ValueIsNat
<1> HIDE DEF value, total
<1>2. ASSUME NEW c \in Collaterals
      PROVE  (IF total > 0 THEN (value[c] * t.redist) \div total ELSE 0) \in Nat
  <2>1. value[c] \in Nat
    BY <1>1 DEF Amounts
  <2>2. value[c] * t.redist \in Nat
    BY <2>1
  <2>3. total > 0 => (value[c] * t.redist) \div total \in Nat
    BY <1>1, <2>2, Division
  <2> QED BY <2>3
<1>3. Prorated(t) = [c \in Collaterals |-> IF total > 0 THEN (value[c] * t.redist) \div total ELSE 0]
  BY DEF Prorated, value, total
<1> QED BY <1>2, <1>3 DEF Amounts

\* A redistribution raises each sum per unit staked by a quotient and keeps the remainder.
LEMMA RedistributeSpreads ==
  ASSUME TypeOK, NEW t, t.redColl \in Amounts, t.redist \in Nat, t.stakes \in Amounts,
         Covers(totalStakes, t.stakes), Redistribute(t)
  PROVE  /\ E_Coll' \in Amounts /\ E_USDEDebt' \in Amounts
         /\ lastCollError' \in Amounts /\ lastUSDEDebtError' \in Amounts
         /\ \A c \in Collaterals :
              /\ E_USDEDebt[c] <= E_USDEDebt'[c]
              /\ \E q \in Nat :
                   /\ E_Coll'[c] = E_Coll[c] + q
                   /\ \/ lastCollError'[c] = lastCollError[c] /\ q = 0
                      \/ /\ t.redist # 0
                         /\ q * (totalStakes[c] - t.stakes[c]) + lastCollError'[c]
                              = t.redColl[c] * DECIMAL_PRECISION + lastCollError[c]
<1>1. CASE t.redist = 0
  <2>1. UNCHANGED <<E_Coll, E_USDEDebt, lastCollError, lastUSDEDebtError>>
    BY <1>1 DEF Redistribute, rewardVars
  <2>2. /\ E_Coll \in Amounts /\ E_USDEDebt \in Amounts
        /\ lastCollError \in Amounts /\ lastUSDEDebtError \in Amounts
    BY DEF TypeOK
  <2>3. ASSUME NEW c \in Collaterals
        PROVE  /\ E_USDEDebt[c] <= E_USDEDebt'[c]
               /\ 0 \in Nat /\ E_Coll'[c] = E_Coll[c] + 0 /\ lastCollError'[c] = lastCollError[c]
    BY <2>1, <2>2 DEF Amounts
  <2> QED BY <2>1, <2>2, <2>3
<1>2. CASE t.redist # 0
  <2> DEFINE shared == Minus(totalStakes, t.stakes)
             collN(c) == t.redColl[c] * DECIMAL_PRECISION + lastCollError[c]
             debtN(c) == Prorated(t)[c] * DECIMAL_PRECISION + lastUSDEDebtError[c]
  <2>1. /\ E_Coll' = [c \in Collaterals |-> IF shared[c] = 0 THEN E_Coll[c]
                                            ELSE E_Coll[c] + collN(c) \div shared[c]]
        /\ E_USDEDebt' = [c \in Collaterals |-> IF shared[c] = 0 THEN E_USDEDebt[c]
                                                ELSE E_USDEDebt[c] + debtN(c) \div shared[c]]
        /\ lastCollError' = [c \in Collaterals |-> IF shared[c] = 0 THEN lastCollError[c]
                                                   ELSE collN(c) % shared[c]]
        /\ lastUSDEDebtError' = [c \in Collaterals |-> IF shared[c] = 0 THEN lastUSDEDebtError[c]
                                                       ELSE debtN(c) % shared[c]]
    BY <1>2 DEF Redistribute
  <2>2. shared \in Amounts /\ \A c \in Collaterals : shared[c] = totalStakes[c] - t.stakes[c]
    BY PlusMinusTypes DEF TypeOK
  <2>3. Prorated(t) \in Amounts
    BY PricesArePrices, ProratedTypes
  <2>4. ASSUME NEW c \in Collaterals
        PROVE  /\ shared[c] \in Nat /\ E_Coll[c] \in Nat /\ E_USDEDebt[c] \in Nat
               /\ lastCollError[c] \in Nat /\ lastUSDEDebtError[c] \in Nat
               /\ collN(c) \in Nat /\ debtN(c) \in Nat
    <3>1. /\ shared[c] \in Nat /\ E_Coll[c] \in Nat /\ E_USDEDebt[c] \in Nat
          /\ lastCollError[c] \in Nat /\ lastUSDEDebtError[c] \in Nat
          /\ t.redColl[c] \in Nat /\ Prorated(t)[c] \in Nat
      BY <2>2, <2>3 DEF TypeOK, Amounts
    <3>2. t.redColl[c] * DECIMAL_PRECISION \in Nat /\ Prorated(t)[c] * DECIMAL_PRECISION \in Nat
      BY <3>1, ConstantTypes
    <3> QED BY <3>1, <3>2
  <2> HIDE DEF shared, collN, debtN
  <2>5. ASSUME NEW c \in Collaterals
        PROVE  /\ E_Coll'[c] \in Nat /\ E_USDEDebt'[c] \in Nat
               /\ lastCollError'[c] \in Nat /\ lastUSDEDebtError'[c] \in Nat
               /\ E_USDEDebt[c] <= E_USDEDebt'[c]
               /\ \E q \in Nat :
                    /\ E_Coll'[c] = E_Coll[c] + q
                    /\ \/ lastCollError'[c] = lastCollError[c] /\ q = 0
                       \/ q * shared[c] + lastCollError'[c] = collN(c)
    <3>1. CASE shared[c] = 0
      <4>1. /\ E_Coll'[c] = E_Coll[c] /\ E_USDEDebt'[c] = E_USDEDebt[c]
            /\ lastCollError'[c] = lastCollError[c] /\ lastUSDEDebtError'[c] = lastUSDEDebtError[c]
        BY <2>1, <3>1
      <4>2. 0 \in Nat /\ E_Coll'[c] = E_Coll[c] + 0
        BY <2>4, <4>1
      <4> QED BY <2>4, <4>1, <4>2
    <3>2. CASE shared[c] # 0
      <4> DEFINE q == collN(c) \div shared[c]
                 p == debtN(c) \div shared[c]
      <4>1. /\ E_Coll'[c] = E_Coll[c] + q /\ E_USDEDebt'[c] = E_USDEDebt[c] + p
            /\ lastCollError'[c] = collN(c) % shared[c] /\ lastUSDEDebtError'[c] = debtN(c) % shared[c]
        BY <2>1, <3>2
      <4>2. /\ q \in Nat /\ collN(c) % shared[c] \in Nat
            /\ q * shared[c] + (collN(c) % shared[c]) = collN(c)
        BY <2>4, <3>2, SpreadExactly
      <4>3. p \in Nat /\ debtN(c) % shared[c] \in Nat
        BY <2>4, <3>2, SpreadExactly
      <4> HIDE DEF p, q
      <4> QED BY <2>4, <4>1, <4>2, <4>3
    <3> QED BY <3>1, <3>2
  <2>6. /\ E_Coll' \in Amounts /\ E_USDEDebt' \in Amounts
        /\ lastCollError' \in Amounts /\ lastUSDEDebtError' \in Amounts
    BY <2>1, <2>5 DEF Amounts
  <2> QED BY <1>2, <2>2, <2>5, <2>6 DEF collN
<1> QED BY <1>1, <1>2

-----------------------------------------------------------------------------
(* The end of a liquidation.                                               *)

\* What the owners in C held is gone.
Cleared(f, C, none) == [b \in Borrowers |-> IF b \in C THEN none ELSE f[b]]

\* The total of a collateral over the owners, once those in C hold nothing.
LEMMA ColCleared ==
  ASSUME NEW f \in [Borrowers -> Amounts], NEW C \in SUBSET Borrowers, NEW c \in Collaterals
  PROVE  /\ Total(Col(Cleared(f, C, Zeros), c)) = Total(Col(f, c)) - SumFunctionOnSet(Col(f, c), C)
         /\ Total(Col(f, c)) \in Nat /\ Total(Col(Cleared(f, C, Zeros), c)) \in Nat
         /\ SumFunctionOnSet(Col(f, c), C) \in Nat
<1> DEFINE g == Cleared(f, C, Zeros)
           p == Col(f, c)
           q == Col(g, c)
<1>1. /\ g \in [Borrowers -> Amounts] /\ \A x \in C : g[x] = Zeros
      /\ \A x \in Borrowers \ C : g[x] = f[x]
  BY PlusMinusTypes DEF Cleared
<1> HIDE DEF g
<1>2. \A x \in Borrowers : p[x] = f[x][c] /\ p[x] \in Nat
  BY ColIsAt
<1>3. \A x \in Borrowers : q[x] = g[x][c] /\ q[x] \in Nat
  BY <1>1, ColIsAt
<1> HIDE DEF p, q
<1>4. \A x \in Borrowers \ C : q[x] = p[x]
  BY <1>1, <1>2, <1>3
<1>5. \A x \in C : q[x] = 0
  BY <1>1, <1>3, PlusMinusTypes
<1>6. Total(q) = Total(p) - SumFunctionOnSet(p, C)
  BY <1>2, <1>3, <1>4, <1>5, TotalCleared
<1>7. Total(p) \in Nat /\ Total(q) \in Nat /\ SumFunctionOnSet(p, C) \in Nat
  BY <1>2, <1>3, TotalIsNat, ConstantTypes, SumOfNaturals
<1> QED BY <1>6, <1>7 DEF p, q, g

\* The totals still add up when troves and totals lose the same.
LEMMA ClearedTotals ==
  ASSUME TypeOK, Totals, NEW C \in SUBSET Borrowers, NEW s \in Amounts,
         stakes' = Cleared(stakes, C, Zeros), troveDebt' = Cleared(troveDebt, C, 0),
         eToken' = Cleared(eToken, C, Zeros),
         \A x \in Borrowers \ C : IsActive(x)' = IsActive(x),
         \A c \in Collaterals : s[c] = SumFunctionOnSet(Col(stakes, c), C),
         totalStakes' = Minus(totalStakes, s),
         troveDebtSupply' = troveDebtSupply - SumFunctionOnSet(troveDebt, C)
  PROVE  /\ Totals'
         /\ stakes' \in [Borrowers -> Amounts] /\ totalStakes' \in Amounts
         /\ troveDebt' \in [Borrowers -> Nat] /\ troveDebtSupply' \in Nat
         /\ eToken' \in [Borrowers -> Amounts]
<1>1. /\ stakes \in [Borrowers -> Amounts] /\ totalStakes \in Amounts
      /\ troveDebt \in [Borrowers -> Nat] /\ troveDebtSupply \in Nat
      /\ eToken \in [Borrowers -> Amounts]
  BY DEF TypeOK
<1>2. Zeros \in Amounts /\ 0 \in Nat
  BY PlusMinusTypes
<1>3. /\ stakes' \in [Borrowers -> Amounts] /\ \A x \in C : stakes'[x] = Zeros
      /\ \A x \in Borrowers \ C : stakes'[x] = stakes[x]
  BY <1>1, <1>2 DEF Cleared
<1>4. /\ eToken' \in [Borrowers -> Amounts] /\ \A x \in C : eToken'[x] = Zeros
      /\ \A x \in Borrowers \ C : eToken'[x] = eToken[x]
  BY <1>1, <1>2 DEF Cleared
<1>5. /\ troveDebt' \in [Borrowers -> Nat] /\ \A x \in C : troveDebt'[x] = 0
      /\ \A x \in Borrowers \ C : troveDebt'[x] = troveDebt[x]
  BY <1>1, <1>2 DEF Cleared
<1>6. ASSUME NEW c \in Collaterals
      PROVE  totalStakes'[c] = Total(Col(stakes', c)) /\ totalStakes'[c] \in Nat
  <2>1. totalStakes'[c] = totalStakes[c] - s[c]
    BY <1>1, PlusMinusTypes
  <2>2. totalStakes[c] = Total(Col(stakes, c))
    BY DEF Totals
  <2>3. /\ Total(Col(stakes', c)) = Total(Col(stakes, c)) - SumFunctionOnSet(Col(stakes, c), C)
        /\ Total(Col(stakes', c)) \in Nat
    BY <1>1, ColCleared
  <2>4. s[c] = SumFunctionOnSet(Col(stakes, c), C)
    OBVIOUS
  <2> QED BY <2>1, <2>2, <2>3, <2>4
<1>7. totalStakes' \in Amounts
  <2>1. totalStakes' = [c \in Collaterals |-> totalStakes[c] - s[c]]
    BY DEF Minus
  <2> QED BY <1>6, <2>1 DEF Amounts
<1>8. troveDebtSupply' = Total(troveDebt') /\ troveDebtSupply' \in Nat
  <2> DEFINE f == troveDebt
             g == troveDebt'
  <2>1. \A x \in Borrowers : f[x] \in Nat /\ g[x] \in Nat
    BY <1>1, <1>5
  <2>2. \A x \in Borrowers \ C : g[x] = f[x]
    BY <1>5
  <2>3. \A x \in C : g[x] = 0
    BY <1>5
  <2>4. troveDebtSupply = Total(f) /\ troveDebtSupply' = troveDebtSupply - SumFunctionOnSet(f, C)
    BY DEF Totals
  <2> HIDE DEF f, g
  <2>5. Total(g) = Total(f) - SumFunctionOnSet(f, C) /\ Total(g) \in Nat
    BY <2>1, <2>2, <2>3, TotalCleared, TotalIsNat
  <2>6. troveDebtSupply' = Total(g) /\ troveDebtSupply' \in Nat
    BY <2>4, <2>5
  <2> QED BY <2>6 DEF g
<1>9. ASSUME NEW x \in Borrowers, ~IsActive(x)'
      PROVE  stakes'[x] = Zeros /\ eToken'[x] = Zeros /\ troveDebt'[x] = 0
  <2>1. CASE x \in C
    BY <1>3, <1>4, <1>5, <2>1
  <2>2. CASE x \notin C
    <3>1. ~IsActive(x)
      BY <1>9, <2>2
    <3> QED BY <1>3, <1>4, <1>5, <2>2, <3>1 DEF Totals
  <2> QED BY <2>1, <2>2
<1>10. Totals'
  BY <1>6, <1>8, <1>9 DEF Totals, Zeros
<1> QED BY <1>3, <1>4, <1>5, <1>7, <1>8, <1>10

\* The ActivePool paid no more than what the closed troves held.
LEMMA ClearedETokens ==
  ASSUME TypeOK, ETokensHeld, NEW C \in SUBSET Borrowers, eToken' = Cleared(eToken, C, Zeros),
         \A c \in Collaterals :
           activeColl'[c] \in Nat /\ activeColl'[c] >= activeColl[c] - SumFunctionOnSet(Col(eToken, c), C)
  PROVE  ETokensHeld'
<1>1. eToken \in [Borrowers -> Amounts] /\ activeColl \in Amounts
  BY DEF TypeOK
<1>2. ASSUME NEW c \in Collaterals
      PROVE  Total(Col(eToken', c)) <= activeColl'[c]
  <2>1. /\ Total(Col(eToken', c)) = Total(Col(eToken, c)) - SumFunctionOnSet(Col(eToken, c), C)
        /\ Total(Col(eToken, c)) \in Nat /\ Total(Col(eToken', c)) \in Nat
        /\ SumFunctionOnSet(Col(eToken, c), C) \in Nat
    BY <1>1, ColCleared
  <2>2. Total(Col(eToken, c)) <= activeColl[c] /\ activeColl[c] \in Nat
    BY <1>1 DEF ETokensHeld, Amounts
  <2>3. activeColl'[c] \in Nat /\ activeColl'[c] >= activeColl[c] - SumFunctionOnSet(Col(eToken, c), C)
    OBVIOUS
  <2> QED BY <2>1, <2>2, <2>3
<1> QED BY <1>2 DEF ETokensHeld

\* What the sums promise once C is closed and the rest shared out.
LEMMA SharedPromises ==
  ASSUME TypeOK, Totals, SnapshotsBehind, CollPromisesKept, NEW C \in SUBSET Borrowers,
         NEW t, TotalsOf(C, t), Covers(totalStakes, t.stakes), Redistribute(t),
         NEW toDefault, toDefault = (IF t.redist = 0 THEN Zeros ELSE t.redColl),
         defaultColl' = Plus(Minus(defaultColl, t.pendColl), toDefault),
         Covers(defaultColl, t.pendColl),
         stakes' = Cleared(stakes, C, Zeros), totalStakes' = Minus(totalStakes, t.stakes), Totals',
         snapshotColl' = Cleared(snapshotColl, C, Zeros), snapshotDebt' = Cleared(snapshotDebt, C, Zeros)
  PROVE  /\ SnapshotsBehind' /\ CollPromisesKept'
         /\ snapshotColl' \in [Borrowers -> Amounts] /\ snapshotDebt' \in [Borrowers -> Amounts]
         /\ E_Coll' \in Amounts /\ E_USDEDebt' \in Amounts /\ defaultColl' \in Amounts
         /\ lastCollError' \in Amounts /\ lastUSDEDebtError' \in Amounts
<1>1. /\ stakes \in [Borrowers -> Amounts] /\ totalStakes \in Amounts
      /\ snapshotColl \in [Borrowers -> Amounts] /\ snapshotDebt \in [Borrowers -> Amounts]
      /\ E_Coll \in Amounts /\ E_USDEDebt \in Amounts /\ defaultColl \in Amounts
      /\ lastCollError \in Amounts
  BY DEF TypeOK
<1>2. /\ t.redColl \in Amounts /\ t.redist \in Nat /\ t.stakes \in Amounts /\ t.pendColl \in Amounts
      /\ \A c \in Collaterals : t.pendColl[c] = SumFunctionOnSet(PendingColls(c), C)
  BY DEF TotalsOf
<1>3. Zeros \in Amounts /\ \A c \in Collaterals : Zeros[c] = 0
  BY PlusMinusTypes
<1>4. /\ stakes' \in [Borrowers -> Amounts] /\ \A x \in C : stakes'[x] = Zeros
      /\ \A x \in Borrowers \ C : stakes'[x] = stakes[x]
  BY <1>1, <1>3 DEF Cleared
<1>5. /\ snapshotColl' \in [Borrowers -> Amounts] /\ \A x \in C : snapshotColl'[x] = Zeros
      /\ \A x \in Borrowers \ C : snapshotColl'[x] = snapshotColl[x]
  BY <1>1, <1>3 DEF Cleared
<1>6. /\ snapshotDebt' \in [Borrowers -> Amounts] /\ \A x \in C : snapshotDebt'[x] = Zeros
      /\ \A x \in Borrowers \ C : snapshotDebt'[x] = snapshotDebt[x]
  BY <1>1, <1>3 DEF Cleared
<1>7. /\ E_Coll' \in Amounts /\ E_USDEDebt' \in Amounts
      /\ lastCollError' \in Amounts /\ lastUSDEDebtError' \in Amounts
      /\ \A c \in Collaterals :
              /\ E_USDEDebt[c] <= E_USDEDebt'[c]
              /\ \E q \in Nat :
                   /\ E_Coll'[c] = E_Coll[c] + q
                   /\ \/ lastCollError'[c] = lastCollError[c] /\ q = 0
                      \/ /\ t.redist # 0
                         /\ q * (totalStakes[c] - t.stakes[c]) + lastCollError'[c]
                              = t.redColl[c] * DECIMAL_PRECISION + lastCollError[c]
  BY <1>2, RedistributeSpreads
<1>8. ASSUME NEW x \in Borrowers, NEW c \in Collaterals
      PROVE  /\ snapshotColl'[x][c] <= E_Coll[c] /\ snapshotColl'[x][c] <= E_Coll'[c]
             /\ snapshotDebt'[x][c] <= E_USDEDebt'[c]
  <2>1. /\ snapshotColl[x][c] \in Nat /\ snapshotDebt[x][c] \in Nat
        /\ E_Coll[c] \in Nat /\ E_USDEDebt[c] \in Nat /\ E_Coll'[c] \in Nat /\ E_USDEDebt'[c] \in Nat
        /\ snapshotColl[x][c] <= E_Coll[c] /\ snapshotDebt[x][c] <= E_USDEDebt[c]
    BY <1>1, <1>7 DEF Amounts, SnapshotsBehind
  <2>2. E_Coll[c] <= E_Coll'[c] /\ E_USDEDebt[c] <= E_USDEDebt'[c]
    <3>1. PICK q \in Nat : E_Coll'[c] = E_Coll[c] + q
      BY <1>7
    <3> QED BY <1>7, <2>1, <3>1
  <2>3. snapshotColl'[x] \in {Zeros, snapshotColl[x]} /\ snapshotDebt'[x] \in {Zeros, snapshotDebt[x]}
    BY <1>5, <1>6
  <2> QED BY <1>3, <2>1, <2>2, <2>3
<1>9. SnapshotsBehind'
  BY <1>8 DEF SnapshotsBehind
<1>10. toDefault \in Amounts
  BY <1>2, <1>3
<1>11. Minus(defaultColl, t.pendColl) \in Amounts
  BY <1>1, <1>2, PlusMinusTypes
<1>12. defaultColl' \in Amounts
  BY <1>10, <1>11, PlusMinusTypes
<1>13. ASSUME NEW c \in Collaterals
       PROVE  Total(PromisedTo(stakes', E_Coll', snapshotColl', c)) + lastCollError'[c]
                <= DECIMAL_PRECISION * defaultColl'[c]
  <2> DEFINE g == Total(PromisedTo(stakes', E_Coll, snapshotColl', c))
             h == Total(PromisedTo(stakes', E_Coll', snapshotColl', c))
             left == defaultColl[c] - t.pendColl[c]
             shared == totalStakes[c] - t.stakes[c]
             P == DECIMAL_PRECISION
             k == lastCollError[c]
             m == lastCollError'[c]
             r == toDefault[c]
  <2>1. g \in Nat /\ g + k <= P * left
    <3>1. \A x \in Borrowers \ C : stakes'[x] = stakes[x] /\ snapshotColl'[x] = snapshotColl[x]
      BY <1>4, <1>5
    <3>2. \A x \in C : stakes'[x] = Zeros /\ snapshotColl'[x] = Zeros
      BY <1>4, <1>5
    <3>3. t.pendColl[c] = SumFunctionOnSet(PendingColls(c), C)
      BY <1>2
    <3> DEFINE stk == stakes'
               snaps == snapshotColl'
    <3>4. stk \in [Borrowers -> Amounts] /\ snaps \in [Borrowers -> Amounts]
      BY <1>4, <1>5
    <3>5. /\ \A x \in Borrowers \ C : stk[x] = stakes[x] /\ snaps[x] = snapshotColl[x]
          /\ \A x \in C : stk[x] = Zeros /\ snaps[x] = Zeros
      BY <3>1, <3>2
    <3> HIDE DEF stk, snaps
    <3>6. /\ Total(PromisedTo(stk, E_Coll, snaps, c)) \in Nat
          /\ Total(PromisedTo(stk, E_Coll, snaps, c)) + lastCollError[c]
               <= DECIMAL_PRECISION * (defaultColl[c] - SumFunctionOnSet(PendingColls(c), C))
      BY <3>4, <3>5, ClearedPromises
    <3> QED BY <3>3, <3>6 DEF stk, snaps
  <2>2. PICK q \in Nat :
          /\ E_Coll'[c] = E_Coll[c] + q
          /\ \/ m = k /\ q = 0
             \/ /\ t.redist # 0
                /\ q * shared + m = t.redColl[c] * P + k
    BY <1>7
  <2>3. h = g + q * shared
    <3>1. Total(PromisedTo(stakes', E_Coll', snapshotColl', c))
            = Total(PromisedTo(stakes', E_Coll, snapshotColl', c)) + q * Total(Col(stakes', c))
      <4> DEFINE stk == stakes'
                 snaps == snapshotColl'
                 new == E_Coll'
                 old == E_Coll
      <4>1. /\ stk \in [Borrowers -> Amounts] /\ snaps \in [Borrowers -> Amounts]
            /\ old \in Amounts /\ new \in Amounts /\ new[c] = old[c] + q
            /\ \A x \in Borrowers : snaps[x][c] <= old[c]
        BY <1>1, <1>4, <1>5, <1>7, <1>8, <2>2
      <4> HIDE DEF stk, snaps, new, old
      <4>2. Total(PromisedTo(stk, new, snaps, c))
              = Total(PromisedTo(stk, old, snaps, c)) + q * Total(Col(stk, c))
        BY <4>1, RaisedPromises
      <4> QED BY <4>2 DEF stk, snaps, new, old
    <3>2. totalStakes'[c] = Total(Col(stakes', c))
      BY DEF Totals
    <3>3. totalStakes'[c] = totalStakes[c] - t.stakes[c]
      BY <1>1, <1>2, PlusMinusTypes
    <3> QED BY <3>1, <3>2, <3>3
  <2>4. /\ left \in Nat /\ shared \in Nat /\ P \in Nat /\ k \in Nat /\ m \in Nat /\ r \in Nat
        /\ t.redColl[c] \in Nat
    BY <1>1, <1>2, <1>7, <1>10, ConstantTypes DEF Amounts, Covers
  <2>5. defaultColl'[c] = left + r
    <3>1. Minus(defaultColl, t.pendColl)[c] = left
      BY <1>1, <1>2, PlusMinusTypes
    <3> QED BY <1>10, <1>11, <3>1, PlusMinusTypes
  <2>6. r = IF t.redist = 0 THEN 0 ELSE t.redColl[c]
    BY <1>3
  <2> HIDE DEF g, h, left, shared, P, k, m, r
  <2>7. P * (left + r) = P * left + r * P
    BY <2>4, Z3
  <2>8. q * shared \in Nat /\ P * left \in Nat /\ r * P \in Nat
    BY <2>4
  <2>9. q * shared + m <= r * P + k
    <3>1. CASE m = k /\ q = 0
      <4>1. q * shared = 0
        BY <2>4, <3>1
      <4> QED BY <2>4, <2>8, <3>1, <4>1
    <3>2. CASE t.redist # 0 /\ q * shared + m = t.redColl[c] * P + k
      <4>1. r = t.redColl[c]
        BY <2>6, <3>2
      <4>2. r * P = t.redColl[c] * P
        BY <4>1
      <4> QED BY <2>4, <2>8, <3>2, <4>2
    <3> QED BY <2>2, <3>1, <3>2
  <2>10. h + m <= P * (left + r)
    BY <2>1, <2>3, <2>4, <2>7, <2>8, <2>9
  <2> QED BY <2>5, <2>10 DEF h, m, P
<1>14. CollPromisesKept'
  BY <1>13 DEF CollPromisesKept
<1> QED BY <1>5, <1>6, <1>7, <1>9, <1>12, <1>14

\* A pool that can pay in every collateral holds what is paid.
LEMMA PayableIsCovered ==
  ASSUME NEW f \in Amounts, NEW g \in Amounts, PayableToPools(f, g) \/ PayableToUsers(f, g)
  PROVE  Minus(g, f) \in Amounts /\ \A c \in Collaterals : Minus(g, f)[c] = g[c] - f[c]
<1>1. ASSUME NEW c \in Collaterals
      PROVE  g[c] >= f[c]
  <2>1. f[c] \in Nat /\ g[c] \in Nat
    BY DEF Amounts
  <2>2. f[c] # 0 => g[c] >= f[c]
    BY <2>1 DEF PayableToPools, PayableToUsers
  <2> QED BY <2>1, <2>2
<1>2. Covers(g, f)
  BY <1>1 DEF Covers
<1> QED BY <1>2, PlusMinusTypes

\* The end of a liquidation keeps the ledger.
LEMMA SettleKeepsLedger ==
  ASSUME Books, Ledger, Books', NEW acc, LiquidationWalk(acc), LiquidationLedger(acc), Settle(acc)
  PROVE  LedgerStep
<1> DEFINE t == acc.totals
           C == acc.closed
           toDefault == IF t.redist = 0 THEN Zeros ELSE t.redColl
           pooled == Plus(activeColl, t.pendColl)
           afterSP == Minus(pooled, t.toSP)
           afterDefault == Minus(afterSP, toDefault)
           afterSurplus == Minus(afterDefault, t.surplus)
<1>1. /\ Covers(totalStakes, t.stakes) /\ Covers(defaultColl, t.pendColl)
      /\ PayableToPools(t.toSP, pooled) /\ PayableToPools(toDefault, afterSP)
      /\ PayableToPools(t.surplus, afterDefault) /\ PayableToUsers(t.gasColl, afterSurplus)
      /\ totalUSDEDeposits >= t.offset /\ gasPool >= t.gas
      /\ activeColl' = Minus(afterSurplus, t.gasColl)
  BY DEF Settle
<1>2. /\ status' = [b \in Borrowers |-> IF b \in C THEN "closedByLiquidation" ELSE status[b]]
      /\ recorded' = [b \in Borrowers |-> IF b \in C THEN 0 ELSE recorded[b]]
      /\ stakes' = Cleared(stakes, C, Zeros)
      /\ snapshotColl' = Cleared(snapshotColl, C, Zeros)
      /\ snapshotDebt' = Cleared(snapshotDebt, C, Zeros)
      /\ troveDebt' = Cleared(troveDebt, C, 0)
      /\ eToken' = Cleared(eToken, C, Zeros)
      /\ totalStakes' = Minus(totalStakes, t.stakes)
      /\ arrayIndex' = acc.index /\ surplus' = acc.surplus
  BY DEF Settle, Cleared
<1>3. /\ troveDebtSupply' = troveDebtSupply - (t.debt - t.pendDebt - t.gas)
      /\ Redistribute(t)
      /\ defaultColl' = Plus(Minus(defaultColl, t.pendColl), toDefault)
      /\ defaultDebt' = Decreased(defaultDebt, t.pendDebt) + t.redist
      /\ activeDebt' = Decreased(Decreased(activeDebt + t.pendDebt, t.offset), t.redist)
      /\ totalUSDEDeposits' = totalUSDEDeposits - t.offset
      /\ wallets' = wallets + t.gas
      /\ gasPool' = gasPool - t.gas
      /\ TakeSystemSnapshots(t.gasColl)
      /\ price' = price /\ USDE_GAS_COMPENSATION' = USDE_GAS_COMPENSATION
  BY DEF Settle, envVars
<1>4. TotalsOf(C, t) /\ acc.index \in [Borrowers -> Nat] /\ acc.surplus \in [Borrowers -> Amounts]
  BY DEF LiquidationLedger
<1>5. C \in SUBSET Borrowers /\ \A x \in C : IsActive(x)
  BY DEF LiquidationWalk, BooksOf, ActiveTroves
<1> HIDE DEF C, t
<1>6. TypeOK /\ SnapshotsBehind /\ Totals /\ NoDustTroves /\ CollPromisesKept
  BY DEF Ledger
<1>7. /\ t.offset \in Nat /\ t.redist \in Nat /\ t.debt = t.offset + t.redist
      /\ t.gas \in Nat /\ t.pendDebt \in Nat
      /\ t.toSP \in Amounts /\ t.redColl \in Amounts /\ t.gasColl \in Amounts
      /\ t.surplus \in Amounts /\ t.pendColl \in Amounts /\ t.stakes \in Amounts
      /\ t.pendDebt = SumFunctionOnSet(PendingDebts, C)
      /\ t.debt = SumFunctionOnSet(troveDebt, C) + t.pendDebt + t.gas
      /\ \A c \in Collaterals :
           /\ t.stakes[c] = SumFunctionOnSet(Col(stakes, c), C)
           /\ t.toSP[c] + t.redColl[c] + t.gasColl[c] + t.surplus[c]
                = SumFunctionOnSet(Col(eToken, c), C) + t.pendColl[c]
  BY <1>4 DEF TotalsOf
\* The debts.
<1> DEFINE owed == SumFunctionOnSet(troveDebt, C)
<1>8. owed \in Nat /\ owed <= troveDebtSupply
  <2>1. \A x \in Borrowers : troveDebt[x] \in Nat
    BY <1>6 DEF TypeOK
  <2>2. troveDebtSupply = Total(troveDebt)
    BY <1>6 DEF Totals
  <2> QED BY <1>5, <2>1, <2>2, ConstantTypes, SumOfNaturals, SumOfPart DEF Total
<1>9. t.offset + t.redist = owed + t.pendDebt + t.gas /\ t.debt - t.pendDebt - t.gas = owed
  BY <1>7, <1>8
<1>10. /\ troveDebtSupply \in Nat /\ gasPool \in Nat /\ defaultDebt \in Nat
       /\ totalUSDEDeposits \in Nat /\ wallets \in Nat /\ activeDebt \in Nat
       /\ activeDebt = troveDebtSupply + gasPool
       /\ wallets + totalUSDEDeposits <= troveDebtSupply + defaultDebt
  BY DEF Ledger, TypeOK, ActiveDebtExact, DebtCoversUSDE
<1>11. troveDebtSupply' = troveDebtSupply - owed
  BY <1>3, <1>9
<1> HIDE DEF owed
<1>12. /\ activeDebt' \in Nat /\ activeDebt' = (troveDebtSupply - owed) + (gasPool - t.gas)
       /\ defaultDebt' \in Nat /\ troveDebtSupply - owed \in Nat /\ gasPool - t.gas \in Nat
       /\ (wallets + t.gas) + (totalUSDEDeposits - t.offset) <= (troveDebtSupply - owed) + defaultDebt'
       /\ wallets + totalUSDEDeposits = troveDebtSupply + defaultDebt /\ t.pendDebt <= defaultDebt =>
            (wallets + t.gas) + (totalUSDEDeposits - t.offset) = (troveDebtSupply - owed) + defaultDebt'
  <2> DEFINE offset == t.offset
             redist == t.redist
             gas == t.gas
             pend == t.pendDebt
             due == activeDebt + pend
             kept == Decreased(defaultDebt, pend)
  <2>1. /\ offset \in Nat /\ redist \in Nat /\ gas \in Nat /\ pend \in Nat
        /\ gas <= gasPool /\ offset <= totalUSDEDeposits
        /\ offset + redist = owed + pend + gas
    BY <1>1, <1>7, <1>9, <1>10
  <2>2. /\ activeDebt' = Decreased(Decreased(due, offset), redist)
        /\ defaultDebt' = kept + redist
    BY <1>3
  <2> HIDE DEF offset, redist, gas, pend
  <2>3. due \in Nat /\ due = (troveDebtSupply - owed) + (gasPool - gas) + (offset + redist)
    BY <1>8, <1>10, <2>1
  <2>4. kept \in Nat /\ kept >= defaultDebt - pend /\ (pend <= defaultDebt => kept = defaultDebt - pend)
    BY <1>10, <2>1, DecreasedIs
  <2>5. troveDebtSupply - owed \in Nat /\ gasPool - gas \in Nat
    BY <1>8, <1>10, <2>1
  <2> HIDE DEF due, kept
  <2>6. offset <= due /\ redist <= due - offset /\ due - offset \in Nat
    BY <2>1, <2>3, <2>5
  <2>7. activeDebt' = due - offset - redist
    BY <2>1, <2>2, <2>3, <2>6, DecreasedIs
  <2>8. activeDebt' \in Nat /\ activeDebt' = (troveDebtSupply - owed) + (gasPool - gas)
    BY <2>1, <2>3, <2>5, <2>6, <2>7
  <2>9. /\ defaultDebt' \in Nat
        /\ wallets + totalUSDEDeposits <= troveDebtSupply + defaultDebt =>
             (wallets + gas) + (totalUSDEDeposits - offset) <= (troveDebtSupply - owed) + defaultDebt'
    BY <1>8, <1>10, <2>1, <2>2, <2>4, <2>5
  <2>10. wallets + totalUSDEDeposits = troveDebtSupply + defaultDebt /\ pend <= defaultDebt =>
             (wallets + gas) + (totalUSDEDeposits - offset) = (troveDebtSupply - owed) + defaultDebt'
    BY <1>8, <1>10, <2>1, <2>2, <2>4, <2>5
  <2> QED BY <1>10, <2>5, <2>8, <2>9, <2>10 DEF offset, gas, pend
<1>13. ActiveDebtExact' /\ DebtCoversUSDE'
  BY <1>3, <1>11, <1>12 DEF ActiveDebtExact, DebtCoversUSDE
<1>14. USDEBacked /\ DebtRewardsCovered => USDEBacked'
  <2>1. DebtRewardsCovered => t.pendDebt <= defaultDebt
    <3> DEFINE f == PendingDebts
    <3>1. \A x \in Borrowers : f[x] \in Nat
      BY <1>6, PendingSumTypes
    <3>2. t.pendDebt = SumFunctionOnSet(f, C)
      BY <1>7
    <3>3. DebtRewardsCovered => SumFunctionOnSet(f, Borrowers) <= defaultDebt
      BY DebtRewardsAreTotalled DEF Total
    <3> HIDE DEF f
    <3>4. SumFunctionOnSet(f, C) <= SumFunctionOnSet(f, Borrowers) /\ SumFunctionOnSet(f, C) \in Nat
          /\ SumFunctionOnSet(f, Borrowers) \in Nat
      BY <1>5, <3>1, ConstantTypes, SumOfPart, SumOfNaturals
    <3> QED BY <1>10, <3>2, <3>3, <3>4
  <2> QED BY <1>3, <1>11, <1>12, <2>1 DEF USDEBacked
\* The totals and the promises.
<1>15. \A x \in Borrowers \ C : IsActive(x)' = IsActive(x)
  BY <1>2 DEF IsActive
<1>16. /\ Totals'
       /\ stakes' \in [Borrowers -> Amounts] /\ totalStakes' \in Amounts
       /\ troveDebt' \in [Borrowers -> Nat] /\ troveDebtSupply' \in Nat
       /\ eToken' \in [Borrowers -> Amounts]
  <2>1. troveDebtSupply' = troveDebtSupply - SumFunctionOnSet(troveDebt, C)
    BY <1>11 DEF owed
  <2>2. \A c \in Collaterals : t.stakes[c] = SumFunctionOnSet(Col(stakes, c), C)
    BY <1>7
  <2> QED BY <1>2, <1>5, <1>6, <1>7, <1>15, <2>1, <2>2, ClearedTotals
<1>17. /\ SnapshotsBehind' /\ CollPromisesKept'
       /\ snapshotColl' \in [Borrowers -> Amounts] /\ snapshotDebt' \in [Borrowers -> Amounts]
       /\ E_Coll' \in Amounts /\ E_USDEDebt' \in Amounts /\ defaultColl' \in Amounts
       /\ lastCollError' \in Amounts /\ lastUSDEDebtError' \in Amounts
  BY <1>1, <1>2, <1>3, <1>4, <1>5, <1>6, <1>16, SharedPromises
<1>18. NoDustTroves'
  <2>1. ASSUME NEW x \in Borrowers, IsActive(x)'
        PROVE  troveDebt'[x] >= MIN_NET_DEBT
    <3>1. x \notin C /\ IsActive(x)
      <4>1. x \notin C
        BY <1>2, <2>1 DEF IsActive
      <4> QED BY <1>15, <2>1, <4>1
    <3>2. troveDebt'[x] = troveDebt[x]
      BY <1>2, <3>1 DEF Cleared
    <3>3. x \in ActiveTroves
      BY <3>1 DEF ActiveTroves
    <3> QED BY <1>6, <3>2, <3>3 DEF NoDustTroves
  <2> QED BY <2>1 DEF NoDustTroves, ActiveTroves
\* The ActivePool.
<1>19. /\ activeColl' \in Amounts
       /\ \A c \in Collaterals : activeColl'[c] = activeColl[c] + t.pendColl[c] - t.toSP[c] - toDefault[c]
                                                    - t.surplus[c] - t.gasColl[c]
       /\ toDefault \in Amounts
       /\ \A c \in Collaterals : toDefault[c] <= t.redColl[c]
  <2>1. activeColl \in Amounts
    BY <1>6 DEF TypeOK
  <2>2. pooled \in Amounts /\ \A c \in Collaterals : pooled[c] = activeColl[c] + t.pendColl[c]
    BY <1>7, <2>1, PlusMinusTypes
  <2>3. toDefault \in Amounts /\ \A c \in Collaterals : toDefault[c] <= t.redColl[c]
    <3>1. \A c \in Collaterals : t.redColl[c] \in Nat
      BY <1>7 DEF Amounts
    <3> QED BY <1>7, <3>1, PlusMinusTypes
  <2> HIDE DEF pooled, toDefault
  <2>4. afterSP \in Amounts /\ \A c \in Collaterals : afterSP[c] = pooled[c] - t.toSP[c]
    BY <1>1, <1>7, <2>2, PayableIsCovered
  <2> HIDE DEF afterSP
  <2>5. afterDefault \in Amounts /\ \A c \in Collaterals : afterDefault[c] = afterSP[c] - toDefault[c]
    BY <1>1, <2>3, <2>4, PayableIsCovered
  <2> HIDE DEF afterDefault
  <2>6. afterSurplus \in Amounts /\ \A c \in Collaterals : afterSurplus[c] = afterDefault[c] - t.surplus[c]
    BY <1>1, <1>7, <2>5, PayableIsCovered
  <2> HIDE DEF afterSurplus
  <2>7. activeColl' \in Amounts /\ \A c \in Collaterals : activeColl'[c] = afterSurplus[c] - t.gasColl[c]
    BY <1>1, <1>7, <2>6, PayableIsCovered
  <2>8. ASSUME NEW c \in Collaterals
        PROVE  activeColl'[c] = activeColl[c] + t.pendColl[c] - t.toSP[c] - toDefault[c]
                                                    - t.surplus[c] - t.gasColl[c]
    <3>1. /\ activeColl[c] \in Int /\ t.pendColl[c] \in Int /\ t.toSP[c] \in Int /\ toDefault[c] \in Int
          /\ t.surplus[c] \in Int /\ t.gasColl[c] \in Int
      BY <1>7, <2>1, <2>3 DEF Amounts
    <3>2. /\ pooled[c] = activeColl[c] + t.pendColl[c] /\ afterSP[c] = pooled[c] - t.toSP[c]
          /\ afterDefault[c] = afterSP[c] - toDefault[c]
          /\ afterSurplus[c] = afterDefault[c] - t.surplus[c]
          /\ activeColl'[c] = afterSurplus[c] - t.gasColl[c]
      BY <2>2, <2>4, <2>5, <2>6, <2>7
    <3> QED BY <3>1, <3>2
  <2> QED BY <2>3, <2>7, <2>8
<1> HIDE DEF toDefault, pooled, afterSP, afterDefault, afterSurplus
<1>20. ETokensHeld => ETokensHeld'
  <2>1. ASSUME NEW c \in Collaterals
        PROVE  activeColl'[c] \in Nat /\ activeColl'[c] >= activeColl[c] - SumFunctionOnSet(Col(eToken, c), C)
    <3> DEFINE a == SumFunctionOnSet(Col(eToken, c), C)
    <3>1. a \in Nat
      <4>1. eToken \in [Borrowers -> Amounts]
        BY <1>6 DEF TypeOK
      <4> QED BY <1>5, <4>1, ColCleared
    <3>2. t.toSP[c] + t.redColl[c] + t.gasColl[c] + t.surplus[c] = a + t.pendColl[c]
      BY <1>7
    <3> HIDE DEF a
    <3>3. /\ t.toSP[c] \in Nat /\ t.redColl[c] \in Nat /\ t.gasColl[c] \in Nat /\ t.surplus[c] \in Nat
          /\ t.pendColl[c] \in Nat /\ toDefault[c] \in Nat /\ activeColl[c] \in Nat /\ activeColl'[c] \in Nat
      BY <1>6, <1>7, <1>19 DEF TypeOK, Amounts
    <3>4. toDefault[c] <= t.redColl[c]
          /\ activeColl'[c] = activeColl[c] + t.pendColl[c] - t.toSP[c] - toDefault[c]
                                                    - t.surplus[c] - t.gasColl[c]
      BY <1>19
    <3>5. activeColl'[c] >= activeColl[c] - a
      BY <3>1, <3>2, <3>3, <3>4
    <3> QED BY <3>3, <3>5 DEF a
  <2> QED BY <1>2, <1>5, <1>6, <2>1, ClearedETokens
\* The types.
<1>21. totalStakesSnapshot' \in Amounts /\ totalCollateralSnapshot' \in Amounts
  <2>1. /\ totalStakesSnapshot \in Amounts /\ totalCollateralSnapshot \in Amounts
    BY <1>6 DEF TypeOK
  <2>2. \A c \in Collaterals : /\ totalStakesSnapshot[c] \in Nat /\ totalCollateralSnapshot[c] \in Nat
                               /\ totalStakes'[c] \in Nat /\ activeColl'[c] + defaultColl'[c] \in Nat
    BY <1>16, <1>17, <1>19, <2>1 DEF Amounts
  <2>3. /\ totalStakesSnapshot' = [c \in Collaterals |->
             IF t.gasColl[c] = 0 THEN totalStakesSnapshot[c] ELSE totalStakes'[c]]
        /\ totalCollateralSnapshot' = [c \in Collaterals |->
             IF t.gasColl[c] = 0 THEN totalCollateralSnapshot[c] ELSE activeColl'[c] + defaultColl'[c]]
    BY <1>3 DEF TakeSystemSnapshots
  <2> QED BY <2>2, <2>3 DEF Amounts
<1>22. status' \in [Borrowers -> Statuses] /\ recorded' \in [Borrowers -> Nat]
  BY <1>2, <1>6 DEF TypeOK, Statuses
<1>23. /\ wallets' \in Nat /\ totalUSDEDeposits' \in Nat /\ gasPool' \in Nat
  BY <1>1, <1>3, <1>7, <1>10, <1>12
<1>24. price' \in Prices /\ USDE_GAS_COMPENSATION' \in GasCompensations
  BY <1>3, <1>6 DEF TypeOK
<1>25. arrayIndex' \in [Borrowers -> Nat] /\ surplus' \in [Borrowers -> Amounts]
  BY <1>2, <1>4
<1>26. TypeOK'
  BY <1>12, <1>16, <1>17, <1>19, <1>21, <1>22, <1>23, <1>24, <1>25, BooksTypes DEF TypeOK
<1> QED BY <1>13, <1>14, <1>16, <1>17, <1>18, <1>20, <1>26 DEF Ledger, LedgerStep

\* A liquidation ends in the Settle of a walk that kept its invariants.
LEMMA BatchLiquidateWalks ==
  ASSUME Books, Ledger, NEW S \in SUBSET Borrowers, NEW owners \in SetToSeqs(S),
         BatchLiquidate(owners)
  PROVE  \E acc : LiquidationWalk(acc) /\ LiquidationLedger(acc) /\ Settle(acc)
<1>1. Cardinality(S) \in Nat
  BY TroveManagerAssumption, FS_Subset, FS_CardinalityType
<1>2. owners \in [1..Cardinality(S) -> S]
  BY DEF SetToSeqs
<1>3. owners \in Seq(S) /\ Len(owners) = Cardinality(S)
  BY <1>1, <1>2, SeqDef
<1>4. \A i \in 1..Len(owners) : owners[i] \in Borrowers
  BY <1>2, <1>3
<1>5. TypeOK /\ SnapshotsBehind
  BY DEF Ledger
<1>6. LiquidationWalk(RunOver(owners, FALSE)) /\ LiquidationLedger(RunOver(owners, FALSE))
  BY <1>1, <1>3, <1>4, <1>5, RunOverKeepsLedger
<1> QED BY <1>6 DEF BatchLiquidate

\* liquidateTroves ends in the Settle of a walk that kept its invariants.
LEMMA LiquidateTrovesWalks ==
  ASSUME Books, Ledger, NEW n \in Nat, LiquidateTroves(n)
  PROVE  \E acc : LiquidationWalk(acc) /\ LiquidationLedger(acc) /\ Settle(acc)
<1> DEFINE met == IF RecoveryMode THEN Tail(list) ELSE list
           upwards == Reverse(met)
           m == MinOf(n, Len(upwards))
           owners == SubSeq(upwards, 1, m)
<1>1. list \in Seq(Borrowers) /\ list # <<>>
  BY DEF Books, OrderedList, OrderedBy, Borrowers, LiquidateTroves
<1>2. met \in Seq(Borrowers)
  BY <1>1, HeadTailProperties
<1> HIDE DEF met
<1>3. Len(met) \in Nat /\ \A i \in 1..Len(met) : met[i] \in Borrowers
  BY <1>2, LenProperties
<1>4. upwards \in [1..Len(met) -> Borrowers]
  BY <1>3 DEF Reverse
<1>5. Len(upwards) = Len(met) /\ \A i \in 1..Len(met) : upwards[i] \in Borrowers
  <2>1. upwards \in Seq(Borrowers)
    BY <1>3, <1>4, SeqDef
  <2> QED BY <1>3, <1>4, <2>1, LenProperties
<1> HIDE DEF upwards
<1>6. m \in Nat /\ m <= Len(met)
  BY <1>3, <1>5 DEF MinOf
<1> HIDE DEF m
<1>7. owners \in Seq(Borrowers)
  BY <1>3, <1>5, <1>6, SubSeqProperties
<1> HIDE DEF owners
<1>8. Len(owners) \in Nat /\ \A i \in 1..Len(owners) : owners[i] \in Borrowers
  BY <1>7, LenProperties
<1>9. TypeOK /\ SnapshotsBehind
  BY DEF Ledger
<1>10. LiquidationWalk(RunOver(owners, TRUE)) /\ LiquidationLedger(RunOver(owners, TRUE))
  BY <1>8, <1>9, RunOverKeepsLedger
<1>11. Settle(RunOver(owners, TRUE))
  BY DEF LiquidateTroves, owners, m, upwards, met
<1> QED BY <1>10, <1>11

\* Every liquidation ends in the Settle of a walk that kept its invariants.
LEMMA LiquidationWalks ==
  ASSUME Books, Ledger, Liquidation
  PROVE  \E acc : LiquidationWalk(acc) /\ LiquidationLedger(acc) /\ Settle(acc)
<1>1. Cardinality(Borrowers) \in Nat
  BY TroveManagerAssumption, FS_CardinalityType
<1> QED BY <1>1, BatchLiquidateWalks, LiquidateTrovesWalks DEF Liquidation

-----------------------------------------------------------------------------
(* The walk of a redemption.                                               *)

\* The owner of a trove closed by a redemption lost only what makes up a lot
\* no larger than the trove's debt without the reserve.
RedeemedClaim(b, s) ==
  \E lot \in Nat : s = ClaimBut(b, lot) /\ lot <= EntireDebt(b) - USDE_GAS_COMPENSATION

\* The ActivePool, as the walk sees it, holds the ETokens and what was drawn.
ETokensPooled(acc) ==
  \A c \in Collaterals : Total(Col(acc.eToken, c)) + acc.drawn[c] <= acc.pooled[c]

RedemptionTypes(acc, amount) ==
  /\ acc.left \in Nat /\ acc.redeemed \in Nat /\ acc.left + acc.redeemed = amount
  /\ acc.gas \in Nat /\ acc.newICR \in Nat /\ acc.index \in [Borrowers -> Nat]
  /\ acc.drawn \in Amounts /\ acc.pooled \in Amounts
  /\ acc.troveDebt \in [Borrowers -> Nat] /\ acc.eToken \in [Borrowers -> Amounts]
  /\ acc.stakes \in [Borrowers -> Amounts] /\ acc.surplus \in [Borrowers -> Amounts]

\* The rewards of the troves that were touched.
RewardsTaken(acc, met) ==
  /\ acc.touched \subseteq met
  /\ \A x \in met \ acc.touched : ~HasPendingRewards(x)
  /\ acc.pendDebt = SumFunctionOnSet(PendingDebts, acc.touched)
  /\ acc.pendColl \in Amounts
  /\ \A c \in Collaterals : acc.pendColl[c] = SumFunctionOnSet(PendingColls(c), acc.touched)

RedemptionLedger(acc, met, amount) ==
  ~acc.reverted =>
    /\ RedemptionTypes(acc, amount)
    /\ RewardsTaken(acc, met)
    /\ acc.partial # {} => acc.left = 0
    /\ Total(acc.troveDebt) + acc.redeemed = troveDebtSupply + acc.pendDebt
    /\ \A x \in Borrowers \ met : acc.troveDebt[x] = troveDebt[x] /\ acc.eToken[x] = eToken[x]
    /\ \A x \in Borrowers \ (acc.closed \cup acc.partial) : acc.stakes[x] = stakes[x]
    /\ \A x \in acc.closed :
         /\ acc.stakes[x] = Zeros /\ acc.eToken[x] = Zeros /\ acc.troveDebt[x] = 0
         /\ \E s \in Amounts : acc.surplus[x] = Plus(surplus[x], s) /\ RedeemedClaim(x, s)
    /\ \A x \in Borrowers \ acc.closed : acc.surplus[x] = surplus[x]
    /\ \A x \in ActiveTroves \ acc.closed : acc.troveDebt[x] >= MIN_NET_DEBT
    /\ OneCollateral /\ ETokensHeld => ETokensPooled(acc)

\* The total of a collateral after the amounts of one owner were replaced.
LEMMA ColReplacedAt ==
  ASSUME NEW f \in [Borrowers -> Amounts], NEW b \in Borrowers, NEW e \in Amounts, NEW c \in Collaterals
  PROVE  /\ Total(Col([f EXCEPT ![b] = e], c)) = Total(Col(f, c)) - f[b][c] + e[c]
         /\ Total(Col(f, c)) \in Nat /\ Total(Col([f EXCEPT ![b] = e], c)) \in Nat
         /\ f[b][c] \in Nat /\ e[c] \in Nat /\ f[b][c] <= Total(Col(f, c))
<1> DEFINE g == [f EXCEPT ![b] = e]
           p == Col(f, c)
           q == Col(g, c)
<1>1. g \in [Borrowers -> Amounts] /\ g[b] = e /\ \A x \in Borrowers \ {b} : g[x] = f[x]
  OBVIOUS
<1> HIDE DEF g
<1>2. \A x \in Borrowers : p[x] = f[x][c] /\ p[x] \in Nat
  BY ColIsAt
<1>3. \A x \in Borrowers : q[x] = g[x][c] /\ q[x] \in Nat
  BY <1>1, ColIsAt
<1> HIDE DEF p, q
<1>4. \A x \in Borrowers \ {b} : q[x] = p[x]
  BY <1>1, <1>2, <1>3
<1>5. Total(q) = Total(p) - p[b] + q[b]
  BY <1>2, <1>3, <1>4, TotalReplacedAt
<1>6. Total(p) \in Nat /\ Total(q) \in Nat /\ p[b] <= Total(p)
  BY <1>2, <1>3, TotalIsNat
<1> QED BY <1>1, <1>2, <1>3, <1>5, <1>6 DEF p, q, g

\* The total of debts after that of one owner was replaced.
LEMMA DebtReplacedAt ==
  ASSUME NEW f \in [Borrowers -> Nat], NEW b \in Borrowers, NEW d \in Nat
  PROVE  /\ Total([f EXCEPT ![b] = d]) = Total(f) - f[b] + d
         /\ Total(f) \in Nat /\ Total([f EXCEPT ![b] = d]) \in Nat
         /\ f[b] \in Nat /\ f[b] <= Total(f)
<1> DEFINE g == [f EXCEPT ![b] = d]
<1>1. g \in [Borrowers -> Nat] /\ g[b] = d /\ \A x \in Borrowers \ {b} : g[x] = f[x]
  OBVIOUS
<1> HIDE DEF g
<1>2. \A x \in Borrowers : f[x] \in Nat /\ g[x] \in Nat
  BY <1>1
<1>3. Total(g) = Total(f) - f[b] + g[b]
  BY <1>1, <1>2, TotalReplacedAt
<1>4. Total(f) \in Nat /\ Total(g) \in Nat /\ f[b] <= Total(f)
  BY <1>2, TotalIsNat
<1> QED BY <1>1, <1>3, <1>4 DEF g

\* A redemption starts with its invariant.
LEMMA StartsRedemptionLedger ==
  ASSUME Ledger, NEW amount \in Nat
  PROVE  RedemptionLedger(NothingRedeemed(amount), {}, amount)
<1> DEFINE acc == NothingRedeemed(amount)
<1>1. /\ acc.left = amount /\ acc.redeemed = 0 /\ acc.drawn = Zeros /\ acc.gas = 0
      /\ acc.pendDebt = 0 /\ acc.pendColl = Zeros /\ acc.touched = {} /\ acc.closed = {}
      /\ acc.partial = {} /\ acc.newICR = 0 /\ acc.index = arrayIndex
      /\ acc.troveDebt = troveDebt /\ acc.eToken = eToken /\ acc.surplus = surplus
      /\ acc.stakes = stakes /\ acc.pooled = activeColl
  BY DEF NothingRedeemed
<1> HIDE DEF acc
<1>2. TypeOK /\ Totals /\ NoDustTroves
  BY DEF Ledger
<1>3. Zeros \in Amounts /\ \A c \in Collaterals : Zeros[c] = 0
  BY PlusMinusTypes
<1>4. RedemptionTypes(acc, amount)
  BY <1>1, <1>2, <1>3 DEF RedemptionTypes, TypeOK
<1>5. RewardsTaken(acc, {})
  <2>1. SumFunctionOnSet(PendingDebts, {}) = 0
    BY SumOfNone
  <2>2. \A c \in Collaterals : SumFunctionOnSet(PendingColls(c), {}) = 0
    BY SumOfNone
  <2> QED BY <1>1, <1>3, <2>1, <2>2 DEF RewardsTaken
<1>6. Total(acc.troveDebt) + acc.redeemed = troveDebtSupply + acc.pendDebt
  BY <1>1, <1>2 DEF Totals, TypeOK
<1>7. ETokensHeld => ETokensPooled(acc)
  <2>1. ASSUME NEW c \in Collaterals, ETokensHeld
        PROVE  Total(Col(acc.eToken, c)) + acc.drawn[c] <= acc.pooled[c]
    <3>1. Total(Col(eToken, c)) <= activeColl[c]
      BY <2>1 DEF ETokensHeld
    <3>2. eToken \in [Borrowers -> Amounts]
      BY <1>2 DEF TypeOK
    <3>3. \A x \in Borrowers : Col(eToken, c)[x] \in Nat
      BY <3>2, ColIsAt
    <3>4. Total(Col(eToken, c)) \in Nat
      BY <3>3, TotalIsNat
    <3> QED BY <1>1, <1>3, <3>1, <3>4
  <2> QED BY <2>1 DEF ETokensPooled
<1>8. \A x \in ActiveTroves : acc.troveDebt[x] >= MIN_NET_DEBT
  BY <1>1, <1>2 DEF NoDustTroves
<1>9. RedemptionLedger(acc, {}, amount)
  BY <1>1, <1>4, <1>5, <1>6, <1>7, <1>8 DEF RedemptionLedger
<1> QED BY <1>9 DEF acc

\* Once met, a trove that may be redeemed from holds its rewards too.
LEMMA MetHolds ==
  ASSUME Ledger, NEW b \in ActiveTroves
  PROVE  /\ Plus(eToken[b], AppliedColl(b)) = EntireColl(b)
         /\ AppliedDebt(b) \in Nat
         /\ troveDebt[b] + AppliedDebt(b) \in Nat
         /\ troveDebt[b] + AppliedDebt(b) <= EntireDebt(b) - USDE_GAS_COMPENSATION
         /\ troveDebt[b] + AppliedDebt(b) >= MIN_NET_DEBT
<1>1. TypeOK /\ SnapshotsBehind /\ b \in Borrowers /\ IsActive(b) /\ troveDebt[b] >= MIN_NET_DEBT
  BY DEF Ledger, ActiveTroves, NoDustTroves
<1>2. PendingCollReward(b) \in Amounts /\ AppliedDebt(b) \in Nat /\ AppliedDebt(b) <= PendingUSDEDebtReward(b)
      /\ PendingUSDEDebtReward(b) \in Nat
  BY <1>1, PendingTypes
<1>3. AppliedColl(b) = PendingCollReward(b)
  <2>1. CASE HasPendingRewards(b)
    BY <2>1 DEF AppliedColl
  <2>2. CASE ~HasPendingRewards(b)
    <3>1. ASSUME NEW c \in Collaterals
          PROVE  PendingCollReward(b)[c] = Zeros[c]
      <4>1. snapshotColl[b][c] = E_Coll[c]
        BY <1>1, <2>2, AppliedIsPart
      <4>2. stakes[b][c] \in Nat /\ E_Coll[c] \in Nat
        BY <1>1 DEF TypeOK, Amounts
      <4>3. stakes[b][c] * (E_Coll[c] - snapshotColl[b][c]) = 0
        BY <4>1, <4>2
      <4>4. 0 \div DECIMAL_PRECISION = 0
        BY ConstantTypes, Z3
      <4>5. PendingCollReward(b)[c] = (stakes[b][c] * (E_Coll[c] - snapshotColl[b][c])) \div DECIMAL_PRECISION
        BY <1>1 DEF PendingCollReward
      <4> QED BY <4>3, <4>4, <4>5, PlusMinusTypes
    <3>2. PendingCollReward(b) = Zeros
      BY <1>2, <3>1, PlusMinusTypes, AmountsAreEqual
    <3> QED BY <2>2, <3>2 DEF AppliedColl
  <2> QED BY <2>1, <2>2
<1>4. troveDebt[b] \in Nat /\ USDE_GAS_COMPENSATION \in Nat /\ MIN_NET_DEBT \in Nat
      /\ EntireDebt(b) = troveDebt[b] + USDE_GAS_COMPENSATION + PendingUSDEDebtReward(b)
  BY <1>1, TroveTypes, GasTypes, ConstantTypes
<1> QED BY <1>1, <1>2, <1>3, <1>4 DEF EntireColl

\* The rewards of the trove met are added to those taken before.
LEMMA MeetingTakesRewards ==
  ASSUME Ledger, NEW met \in SUBSET Borrowers, NEW acc, RewardsTaken(acc, met),
         NEW b \in Borrowers, b \notin met, NEW next,
         next.touched = (IF HasPendingRewards(b) THEN acc.touched \cup {b} ELSE acc.touched),
         next.pendDebt = acc.pendDebt + AppliedDebt(b),
         next.pendColl = Plus(acc.pendColl, AppliedColl(b))
  PROVE  RewardsTaken(next, met \cup {b})
<1>1. /\ acc.touched \subseteq met /\ acc.touched \in SUBSET Borrowers /\ b \notin acc.touched
      /\ \A x \in met \ acc.touched : ~HasPendingRewards(x)
      /\ acc.pendDebt = SumFunctionOnSet(PendingDebts, acc.touched)
      /\ acc.pendColl \in Amounts
      /\ \A c \in Collaterals : acc.pendColl[c] = SumFunctionOnSet(PendingColls(c), acc.touched)
  BY DEF RewardsTaken
<1>2. TypeOK /\ SnapshotsBehind
  BY DEF Ledger
<1>3. AppliedColl(b) \in Amounts
  BY <1>2, PendingTypes
<1>4. next.pendColl \in Amounts /\ \A c \in Collaterals : next.pendColl[c] = acc.pendColl[c] + AppliedColl(b)[c]
  BY <1>1, <1>3, PlusMinusTypes
<1>5. next.pendDebt = SumFunctionOnSet(PendingDebts, next.touched)
  <2> DEFINE f == PendingDebts
  <2>1. \A x \in Borrowers : f[x] = PendingUSDEDebtReward(x) /\ f[x] \in Nat
    BY <1>2, PendingSumTypes
  <2>2. acc.pendDebt = SumFunctionOnSet(f, acc.touched)
    BY <1>1
  <2> HIDE DEF f
  <2>3. /\ SumFunctionOnSet(f, acc.touched \cup {b}) = f[b] + SumFunctionOnSet(f, acc.touched)
        /\ SumFunctionOnSet(f, acc.touched) \in Nat
    BY <1>1, <2>1, SumOneMore
  <2>4. next.pendDebt = SumFunctionOnSet(f, next.touched)
    BY <2>1, <2>2, <2>3 DEF AppliedDebt
  <2> QED BY <2>4 DEF f
<1>6. ASSUME NEW c \in Collaterals
      PROVE  next.pendColl[c] = SumFunctionOnSet(PendingColls(c), next.touched)
  <2> DEFINE f == PendingColls(c)
  <2>1. \A x \in Borrowers : f[x] = PendingCollReward(x)[c] /\ f[x] \in Nat
    BY <1>2, PendingSumTypes
  <2>2. acc.pendColl[c] = SumFunctionOnSet(f, acc.touched)
    BY <1>1
  <2> HIDE DEF f
  <2>3. /\ SumFunctionOnSet(f, acc.touched \cup {b}) = f[b] + SumFunctionOnSet(f, acc.touched)
        /\ SumFunctionOnSet(f, acc.touched) \in Nat
    BY <1>1, <2>1, SumOneMore
  <2>4. AppliedColl(b)[c] = IF HasPendingRewards(b) THEN PendingCollReward(b)[c] ELSE 0
    BY PlusMinusTypes DEF AppliedColl
  <2>5. next.pendColl[c] = SumFunctionOnSet(f, next.touched)
    BY <1>4, <2>1, <2>2, <2>3, <2>4
  <2> QED BY <2>5 DEF f
<1>7. next.touched \subseteq met \cup {b}
  BY <1>1
<1>8. \A x \in (met \cup {b}) \ next.touched : ~HasPendingRewards(x)
  BY <1>1
<1> QED BY <1>4, <1>5, <1>6, <1>7, <1>8 DEF RewardsTaken

\* Applying the rewards of the next trove keeps the invariant of the redemption.
LEMMA MeetingKeepsLedger ==
  ASSUME Ledger, NEW met, NEW acc, RedemptionWalk(acc, met), NEW amount, RedemptionLedger(acc, met, amount),
         ~acc.reverted, NEW b \in ActiveTroves, b \notin met
  PROVE  /\ RedemptionLedger(Met(acc, b), met \cup {b}, amount)
         /\ ~Met(acc, b).reverted /\ Met(acc, b).left = acc.left
         /\ Met(acc, b).closed = acc.closed /\ Met(acc, b).partial = acc.partial
         /\ Met(acc, b).eToken[b] = EntireColl(b)
         /\ Met(acc, b).troveDebt[b] <= EntireDebt(b) - USDE_GAS_COMPENSATION
<1> DEFINE next == Met(acc, b)
           D == troveDebt[b] + AppliedDebt(b)
           E == EntireColl(b)
<1>1. /\ next.touched = (IF HasPendingRewards(b) THEN acc.touched \cup {b} ELSE acc.touched)
      /\ next.pendDebt = acc.pendDebt + AppliedDebt(b)
      /\ next.pendColl = Plus(acc.pendColl, AppliedColl(b))
      /\ next.troveDebt = [acc.troveDebt EXCEPT ![b] = acc.troveDebt[b] + AppliedDebt(b)]
      /\ next.eToken = [acc.eToken EXCEPT ![b] = Plus(acc.eToken[b], AppliedColl(b))]
      /\ next.pooled = Plus(acc.pooled, AppliedColl(b))
      /\ next.left = acc.left /\ next.redeemed = acc.redeemed /\ next.drawn = acc.drawn
      /\ next.gas = acc.gas /\ next.closed = acc.closed /\ next.partial = acc.partial
      /\ next.newICR = acc.newICR /\ next.reverted = acc.reverted /\ next.index = acc.index
      /\ next.surplus = acc.surplus /\ next.stakes = acc.stakes
  BY DEF Met, RedemptionWalk
<1> HIDE DEF next
<1>2. /\ RedemptionTypes(acc, amount) /\ RewardsTaken(acc, met)
      /\ acc.partial # {} => acc.left = 0
      /\ Total(acc.troveDebt) + acc.redeemed = troveDebtSupply + acc.pendDebt
      /\ \A x \in Borrowers \ met : acc.troveDebt[x] = troveDebt[x] /\ acc.eToken[x] = eToken[x]
      /\ \A x \in Borrowers \ (acc.closed \cup acc.partial) : acc.stakes[x] = stakes[x]
      /\ \A x \in acc.closed :
           /\ acc.stakes[x] = Zeros /\ acc.eToken[x] = Zeros /\ acc.troveDebt[x] = 0
           /\ \E s \in Amounts : acc.surplus[x] = Plus(surplus[x], s) /\ RedeemedClaim(x, s)
      /\ \A x \in Borrowers \ acc.closed : acc.surplus[x] = surplus[x]
      /\ \A x \in ActiveTroves \ acc.closed : acc.troveDebt[x] >= MIN_NET_DEBT
      /\ OneCollateral /\ ETokensHeld => ETokensPooled(acc)
  BY DEF RedemptionLedger
<1>3. /\ met \in SUBSET Borrowers /\ b \in Borrowers /\ acc.closed \subseteq met /\ b \notin acc.closed
      /\ ActiveTroves \subseteq Borrowers
  BY DEF RedemptionWalk, ActiveTroves
<1>4. TypeOK /\ SnapshotsBehind
  BY DEF Ledger
<1>5. /\ acc.troveDebt[b] = troveDebt[b] /\ acc.eToken[b] = eToken[b]
      /\ AppliedDebt(b) \in Nat /\ AppliedColl(b) \in Amounts /\ E \in Amounts /\ D \in Nat
      /\ Plus(acc.eToken[b], AppliedColl(b)) = E /\ acc.troveDebt[b] + AppliedDebt(b) = D
      /\ D <= EntireDebt(b) - USDE_GAS_COMPENSATION /\ D >= MIN_NET_DEBT
  BY <1>2, <1>3, <1>4, MetHolds, PendingTypes, TroveTypes
<1> HIDE DEF D, E
<1>6. /\ next.troveDebt = [acc.troveDebt EXCEPT ![b] = D]
      /\ next.eToken = [acc.eToken EXCEPT ![b] = E]
  BY <1>1, <1>5
<1>7. /\ next.troveDebt \in [Borrowers -> Nat] /\ next.eToken \in [Borrowers -> Amounts]
      /\ next.troveDebt[b] = D /\ next.eToken[b] = E
      /\ \A x \in Borrowers \ {b} : next.troveDebt[x] = acc.troveDebt[x] /\ next.eToken[x] = acc.eToken[x]
  BY <1>2, <1>3, <1>5, <1>6 DEF RedemptionTypes
<1>8. next.pooled \in Amounts /\ \A c \in Collaterals : next.pooled[c] = acc.pooled[c] + AppliedColl(b)[c]
  BY <1>1, <1>2, <1>5, PlusMinusTypes DEF RedemptionTypes
<1>9. RedemptionTypes(next, amount)
  BY <1>1, <1>2, <1>7, <1>8 DEF RedemptionTypes
<1>10. RewardsTaken(next, met \cup {b})
  BY <1>1, <1>2, <1>3, MeetingTakesRewards
<1>11. Total(next.troveDebt) + next.redeemed = troveDebtSupply + next.pendDebt
  <2>1. /\ Total(next.troveDebt) = Total(acc.troveDebt) - acc.troveDebt[b] + D
        /\ Total(acc.troveDebt) \in Nat /\ acc.troveDebt[b] \in Nat
    <3> DEFINE f == acc.troveDebt
    <3>1. f \in [Borrowers -> Nat]
      BY <1>2 DEF RedemptionTypes
    <3> HIDE DEF f
    <3>2. /\ Total([f EXCEPT ![b] = D]) = Total(f) - f[b] + D
          /\ Total(f) \in Nat /\ f[b] \in Nat
      BY <1>3, <1>5, <3>1, DebtReplacedAt
    <3> QED BY <1>6, <3>2 DEF f
  <2>2. acc.redeemed \in Nat /\ troveDebtSupply \in Nat
    BY <1>2, <1>4 DEF RedemptionTypes, TypeOK
  <2>3. acc.pendDebt \in Int
    <3>1. \A x \in Borrowers : PendingDebts[x] \in Nat
      BY <1>4, PendingSumTypes
    <3>2. acc.touched \in SUBSET Borrowers
      BY <1>2, <1>3 DEF RewardsTaken
    <3>3. SumFunctionOnSet(PendingDebts, acc.touched) \in Nat
      BY <3>1, <3>2, ConstantTypes, SumOfNaturals
    <3> QED BY <1>2, <3>3 DEF RewardsTaken
  <2> QED BY <1>1, <1>2, <1>5, <2>1, <2>2, <2>3
<1>12. OneCollateral /\ ETokensHeld => ETokensPooled(next)
  <2>1. ASSUME NEW c \in Collaterals, ETokensPooled(acc)
        PROVE  Total(Col(next.eToken, c)) + next.drawn[c] <= next.pooled[c]
    <3> DEFINE f == acc.eToken
    <3>1. f \in [Borrowers -> Amounts]
      BY <1>2 DEF RedemptionTypes
    <3>2. Total(Col(f, c)) + acc.drawn[c] <= acc.pooled[c]
      BY <2>1 DEF ETokensPooled
    <3>3. Plus(f[b], AppliedColl(b)) = E
      BY <1>5
    <3> HIDE DEF f
    <3>4. /\ Total(Col([f EXCEPT ![b] = E], c)) = Total(Col(f, c)) - f[b][c] + E[c]
          /\ Total(Col(f, c)) \in Nat /\ f[b][c] \in Nat /\ E[c] \in Nat
      BY <1>3, <1>5, <3>1, ColReplacedAt
    <3>5. f[b] \in Amounts
      BY <1>3, <3>1
    <3>6. E[c] = f[b][c] + AppliedColl(b)[c] /\ AppliedColl(b)[c] \in Nat
      BY <1>5, <3>3, <3>5, PlusMinusTypes DEF Amounts
    <3>7. acc.drawn[c] \in Nat /\ acc.pooled[c] \in Nat
      BY <1>2 DEF RedemptionTypes, Amounts
    <3>8. next.pooled[c] = acc.pooled[c] + AppliedColl(b)[c] /\ next.drawn[c] = acc.drawn[c]
      BY <1>1, <1>8
    <3>9. next.eToken = [f EXCEPT ![b] = E]
      BY <1>6 DEF f
    <3> QED BY <3>2, <3>4, <3>6, <3>7, <3>8, <3>9
  <2> QED BY <1>2, <2>1 DEF ETokensPooled
<1>13. \A x \in Borrowers \ (met \cup {b}) : next.troveDebt[x] = troveDebt[x] /\ next.eToken[x] = eToken[x]
  BY <1>2, <1>7
<1>14. ASSUME NEW x \in next.closed
       PROVE  /\ next.stakes[x] = Zeros /\ next.eToken[x] = Zeros /\ next.troveDebt[x] = 0
              /\ \E s \in Amounts : next.surplus[x] = Plus(surplus[x], s) /\ RedeemedClaim(x, s)
  <2>1. x \in acc.closed /\ x \in Borrowers \ {b}
    BY <1>1, <1>3
  <2> QED BY <1>1, <1>2, <1>7, <2>1
<1>15. \A x \in ActiveTroves \ next.closed : next.troveDebt[x] >= MIN_NET_DEBT
  BY <1>1, <1>2, <1>3, <1>5, <1>7
<1>16. RedemptionLedger(next, met \cup {b}, amount)
  BY <1>1, <1>2, <1>9, <1>10, <1>11, <1>12, <1>13, <1>14, <1>15 DEF RedemptionLedger
<1> QED BY <1>1, <1>5, <1>7, <1>16 DEF next, E

\* What holds of a trove that was just met.
JustMet(acc, met, b, amount) ==
  /\ RedemptionWalk(acc, met) /\ RedemptionLedger(acc, met \cup {b}, amount) /\ ~acc.reverted
  /\ b \in ActiveTroves /\ b \notin acc.closed /\ acc.partial = {} /\ acc.left # 0
  /\ acc.eToken[b] = EntireColl(b)
  /\ acc.troveDebt[b] <= EntireDebt(b) - USDE_GAS_COMPENSATION

\* What the exchange of USDE for collateral changes in the accumulator.
LEMMA ExchangedIs ==
  ASSUME NEW acc, NEW met, RedemptionWalk(acc, met), NEW lot, NEW drawn, NEW next,
         next = Exchanged(acc, lot, drawn)
  PROVE  /\ next.left = acc.left - lot /\ next.redeemed = acc.redeemed + lot
         /\ next.drawn = Plus(acc.drawn, drawn)
         /\ next.touched = acc.touched /\ next.pendDebt = acc.pendDebt /\ next.pendColl = acc.pendColl
         /\ next.troveDebt = acc.troveDebt /\ next.eToken = acc.eToken /\ next.pooled = acc.pooled
         /\ next.gas = acc.gas /\ next.closed = acc.closed /\ next.partial = acc.partial
         /\ next.newICR = acc.newICR /\ next.reverted = acc.reverted /\ next.index = acc.index
         /\ next.surplus = acc.surplus /\ next.stakes = acc.stakes /\ next.owners = acc.owners
         /\ next.list = acc.list /\ DOMAIN next = DOMAIN acc
BY DEF Exchanged, RedemptionWalk

\* An exchange takes no rewards.
LEMMA SameRewards ==
  ASSUME NEW acc, NEW met, RewardsTaken(acc, met), NEW next,
         next.touched = acc.touched, next.pendDebt = acc.pendDebt, next.pendColl = acc.pendColl
  PROVE  RewardsTaken(next, met)
BY DEF RewardsTaken

\* What is known between applying a trove's rewards and redeeming from it.
LEMMA JustMetIs ==
  ASSUME Ledger, NEW met, NEW acc, NEW b, NEW amount, JustMet(acc, met, b, amount)
  PROVE  /\ RedemptionTypes(acc, amount) /\ RewardsTaken(acc, met \cup {b})
         /\ Total(acc.troveDebt) + acc.redeemed = troveDebtSupply + acc.pendDebt
         /\ acc.pendDebt \in Nat /\ troveDebtSupply \in Nat
         /\ \A x \in Borrowers \ (met \cup {b}) : acc.troveDebt[x] = troveDebt[x] /\ acc.eToken[x] = eToken[x]
         /\ \A x \in Borrowers \ acc.closed : acc.stakes[x] = stakes[x]
         /\ \A x \in acc.closed :
              /\ acc.stakes[x] = Zeros /\ acc.eToken[x] = Zeros /\ acc.troveDebt[x] = 0
              /\ \E s \in Amounts : acc.surplus[x] = Plus(surplus[x], s) /\ RedeemedClaim(x, s)
         /\ \A x \in Borrowers \ acc.closed : acc.surplus[x] = surplus[x]
         /\ \A x \in ActiveTroves \ acc.closed : acc.troveDebt[x] >= MIN_NET_DEBT
         /\ OneCollateral /\ ETokensHeld => ETokensPooled(acc)
         /\ met \in SUBSET Borrowers /\ b \in Borrowers /\ ActiveTroves \subseteq Borrowers
         /\ acc.closed \subseteq met
<1>1. TypeOK /\ SnapshotsBehind
  BY DEF Ledger
<1>2. met \in SUBSET Borrowers /\ b \in Borrowers /\ ActiveTroves \subseteq Borrowers /\ acc.closed \subseteq met
  BY DEF JustMet, RedemptionWalk, ActiveTroves
<1>3. RewardsTaken(acc, met \cup {b})
  BY DEF JustMet, RedemptionLedger
<1>4. acc.pendDebt \in Nat
  <2>1. \A x \in Borrowers : PendingDebts[x] \in Nat
    BY <1>1, PendingSumTypes
  <2>2. acc.touched \in SUBSET Borrowers
    BY <1>2, <1>3 DEF RewardsTaken
  <2>3. SumFunctionOnSet(PendingDebts, acc.touched) \in Nat
    BY <2>1, <2>2, ConstantTypes, SumOfNaturals
  <2> QED BY <1>3, <2>3 DEF RewardsTaken
<1>5. troveDebtSupply \in Nat
  BY <1>1 DEF TypeOK
<1> QED BY <1>2, <1>3, <1>4, <1>5 DEF JustMet, RedemptionLedger

\* Redeeming a whole trove keeps the invariant of the redemption.
LEMMA FullRedemptionKeepsLedger ==
  ASSUME Ledger, NEW met, NEW acc, NEW b, NEW amount, JustMet(acc, met, b, amount),
         NEW lot, lot = acc.troveDebt[b], lot <= acc.left,
         NEW drawn, drawn = Drawn(acc.eToken[b], lot),
         NEW remains, remains = Minus(acc.eToken[b], drawn)
  PROVE  RedemptionLedger(RedeemedInFull(Exchanged(acc, lot, drawn), b, remains), met \cup {b}, amount)
<1> DEFINE x1 == Exchanged(acc, lot, drawn)
           next == RedeemedInFull(x1, b, remains)
<1> SUFFICES ASSUME ~next.reverted
             PROVE  RedemptionLedger(next, met \cup {b}, amount)
  BY DEF RedemptionLedger
<1>1. /\ x1.left = acc.left - lot /\ x1.redeemed = acc.redeemed + lot
      /\ x1.drawn = Plus(acc.drawn, drawn)
      /\ x1.touched = acc.touched /\ x1.pendDebt = acc.pendDebt /\ x1.pendColl = acc.pendColl
      /\ x1.troveDebt = acc.troveDebt /\ x1.eToken = acc.eToken /\ x1.pooled = acc.pooled
      /\ x1.gas = acc.gas /\ x1.closed = acc.closed /\ x1.partial = acc.partial
      /\ x1.newICR = acc.newICR /\ x1.reverted = acc.reverted /\ x1.index = acc.index
      /\ x1.surplus = acc.surplus /\ x1.stakes = acc.stakes /\ x1.owners = acc.owners
      /\ x1.list = acc.list /\ DOMAIN x1 = DOMAIN acc
  BY ExchangedIs DEF JustMet
<1> HIDE DEF x1
<1>2. MayClose(x1.owners, x1.list) /\ PayableToPools(remains, x1.pooled)
  <2>1. SUFFICES ASSUME ~(MayClose(x1.owners, x1.list) /\ PayableToPools(remains, x1.pooled))
                 PROVE  FALSE
    OBVIOUS
  <2>2. next = [x1 EXCEPT !.reverted = TRUE]
    BY <2>1 DEF RedeemedInFull
  <2> QED BY <1>1, <2>2 DEF JustMet, RedemptionWalk
<1>3. next = [x1 EXCEPT !.closed = @ \cup {b},
                     !.gas = @ + USDE_GAS_COMPENSATION,
                     !.owners = OwnersWithout(x1.owners, x1.index, b),
                     !.index = IndexWithout(x1.owners, x1.index, b),
                     !.list = Without(@, b),
                     !.troveDebt[b] = 0,
                     !.eToken[b] = Zeros,
                     !.stakes[b] = Zeros,
                     !.surplus[b] = Plus(@, remains),
                     !.pooled = Minus(@, remains)]
  BY <1>2 DEF RedeemedInFull
<1>4. /\ next.left = acc.left - lot /\ next.redeemed = acc.redeemed + lot
      /\ next.drawn = Plus(acc.drawn, drawn)
      /\ next.touched = acc.touched /\ next.pendDebt = acc.pendDebt /\ next.pendColl = acc.pendColl
      /\ next.troveDebt = [acc.troveDebt EXCEPT ![b] = 0]
      /\ next.eToken = [acc.eToken EXCEPT ![b] = Zeros]
      /\ next.stakes = [acc.stakes EXCEPT ![b] = Zeros]
      /\ next.surplus = [acc.surplus EXCEPT ![b] = Plus(acc.surplus[b], remains)]
      /\ next.pooled = Minus(acc.pooled, remains)
      /\ next.gas = acc.gas + USDE_GAS_COMPENSATION /\ next.closed = acc.closed \cup {b}
      /\ next.partial = acc.partial /\ next.newICR = acc.newICR
      /\ next.index = IndexWithout(acc.owners, acc.index, b)
  BY <1>1, <1>3 DEF JustMet, RedemptionWalk
<1> HIDE DEF next
<1>5. /\ RedemptionTypes(acc, amount) /\ RewardsTaken(acc, met \cup {b})
      /\ Total(acc.troveDebt) + acc.redeemed = troveDebtSupply + acc.pendDebt
      /\ acc.pendDebt \in Nat /\ troveDebtSupply \in Nat
      /\ \A x \in Borrowers \ (met \cup {b}) : acc.troveDebt[x] = troveDebt[x] /\ acc.eToken[x] = eToken[x]
      /\ \A x \in Borrowers \ acc.closed : acc.stakes[x] = stakes[x]
      /\ \A x \in acc.closed :
              /\ acc.stakes[x] = Zeros /\ acc.eToken[x] = Zeros /\ acc.troveDebt[x] = 0
              /\ \E s \in Amounts : acc.surplus[x] = Plus(surplus[x], s) /\ RedeemedClaim(x, s)
      /\ \A x \in Borrowers \ acc.closed : acc.surplus[x] = surplus[x]
      /\ \A x \in ActiveTroves \ acc.closed : acc.troveDebt[x] >= MIN_NET_DEBT
      /\ OneCollateral /\ ETokensHeld => ETokensPooled(acc)
      /\ met \in SUBSET Borrowers /\ b \in Borrowers /\ ActiveTroves \subseteq Borrowers
      /\ acc.closed \subseteq met
  BY JustMetIs
<1>6. /\ b \notin acc.closed /\ acc.partial = {} /\ acc.eToken[b] = EntireColl(b)
      /\ lot <= EntireDebt(b) - USDE_GAS_COMPENSATION
  BY DEF JustMet
<1>7. TypeOK /\ USDE_GAS_COMPENSATION \in Nat /\ surplus[b] \in Amounts
  BY <1>5, GasTypes DEF Ledger, TypeOK
<1>8. /\ lot \in Nat /\ acc.left \in Nat /\ acc.redeemed \in Nat
      /\ acc.eToken[b] \in Amounts /\ acc.drawn \in Amounts /\ acc.pooled \in Amounts
  BY <1>5 DEF RedemptionTypes
<1>9. /\ drawn \in Amounts /\ remains \in Amounts /\ Covers(acc.eToken[b], drawn)
      /\ \A c \in Collaterals : remains[c] = acc.eToken[b][c] - drawn[c]
  <2>1. drawn \in Amounts /\ Covers(acc.eToken[b], drawn)
    BY <1>7, <1>8, PricesArePrices, DrawnIsPart
  <2> QED BY <1>8, <2>1, PlusMinusTypes
<1>10. next.pooled \in Amounts /\ \A c \in Collaterals : next.pooled[c] = acc.pooled[c] - remains[c]
  BY <1>1, <1>2, <1>4, <1>8, <1>9, PayableIsCovered
<1>11. next.drawn \in Amounts /\ \A c \in Collaterals : next.drawn[c] = acc.drawn[c] + drawn[c]
  BY <1>4, <1>8, <1>9, PlusMinusTypes
<1>12. /\ next.troveDebt \in [Borrowers -> Nat] /\ next.troveDebt[b] = 0
       /\ \A x \in Borrowers \ {b} : next.troveDebt[x] = acc.troveDebt[x]
  BY <1>4, <1>5 DEF RedemptionTypes
<1>13. /\ next.eToken \in [Borrowers -> Amounts] /\ next.eToken[b] = Zeros
       /\ \A x \in Borrowers \ {b} : next.eToken[x] = acc.eToken[x]
  BY <1>4, <1>5, PlusMinusTypes DEF RedemptionTypes
<1>14. /\ next.stakes \in [Borrowers -> Amounts] /\ next.stakes[b] = Zeros
       /\ \A x \in Borrowers \ {b} : next.stakes[x] = acc.stakes[x]
  BY <1>4, <1>5, PlusMinusTypes DEF RedemptionTypes
<1>15. /\ next.surplus \in [Borrowers -> Amounts] /\ next.surplus[b] = Plus(surplus[b], remains)
       /\ \A x \in Borrowers \ {b} : next.surplus[x] = acc.surplus[x]
  <2>1. acc.surplus \in [Borrowers -> Amounts] /\ acc.surplus[b] = surplus[b]
    BY <1>5, <1>6 DEF RedemptionTypes
  <2>2. Plus(surplus[b], remains) \in Amounts
    BY <1>7, <1>9, PlusMinusTypes
  <2> QED BY <1>4, <1>5, <2>1, <2>2
<1>16. next.index \in [Borrowers -> Nat]
  BY <1>4, <1>5, IndexWithoutType DEF RedemptionTypes
<1>17. next.left \in Nat /\ next.redeemed \in Nat /\ next.left + next.redeemed = amount /\ next.gas \in Nat
  <2>1. acc.left + acc.redeemed = amount /\ acc.gas \in Nat
    BY <1>5 DEF RedemptionTypes
  <2> QED BY <1>4, <1>7, <1>8, <2>1
<1>18. RedemptionTypes(next, amount)
  <2>1. next.newICR \in Nat
    BY <1>4, <1>5 DEF RedemptionTypes
  <2> QED BY <1>10, <1>11, <1>12, <1>13, <1>14, <1>15, <1>16, <1>17, <2>1 DEF RedemptionTypes
<1>19. RewardsTaken(next, met \cup {b})
  BY <1>4, <1>5, SameRewards
<1>20. Total(next.troveDebt) + next.redeemed = troveDebtSupply + next.pendDebt
  <2> DEFINE f == acc.troveDebt
  <2>1. f \in [Borrowers -> Nat] /\ f[b] = lot
    BY <1>5 DEF RedemptionTypes
  <2>2. next.troveDebt = [f EXCEPT ![b] = 0] /\ Total(f) + acc.redeemed = troveDebtSupply + acc.pendDebt
    BY <1>4, <1>5
  <2> HIDE DEF f
  <2>3. Total([f EXCEPT ![b] = 0]) = Total(f) - f[b] + 0 /\ Total(f) \in Nat
    BY <1>5, <2>1, DebtReplacedAt
  <2> QED BY <1>4, <1>5, <1>8, <2>1, <2>2, <2>3
<1>21. \A x \in Borrowers \ (met \cup {b}) : next.troveDebt[x] = troveDebt[x] /\ next.eToken[x] = eToken[x]
  BY <1>5, <1>12, <1>13
<1>22. \A x \in Borrowers \ (next.closed \cup next.partial) : next.stakes[x] = stakes[x]
  BY <1>4, <1>5, <1>6, <1>14
<1>23. ASSUME NEW x \in next.closed
       PROVE  /\ next.stakes[x] = Zeros /\ next.eToken[x] = Zeros /\ next.troveDebt[x] = 0
              /\ \E s \in Amounts : next.surplus[x] = Plus(surplus[x], s) /\ RedeemedClaim(x, s)
  <2>1. CASE x = b
    <3>1. RedeemedClaim(b, remains)
      BY <1>6, <1>8 DEF RedeemedClaim, ClaimBut
    <3> QED BY <1>9, <1>12, <1>13, <1>14, <1>15, <2>1, <3>1
  <2>2. CASE x # b
    <3>1. x \in acc.closed /\ x \in Borrowers \ {b}
      BY <1>4, <1>5, <2>2
    <3> QED BY <1>5, <1>12, <1>13, <1>14, <1>15, <3>1
  <2> QED BY <2>1, <2>2
<1>24. \A x \in Borrowers \ next.closed : next.surplus[x] = surplus[x]
  BY <1>4, <1>5, <1>15
<1>25. \A x \in ActiveTroves \ next.closed : next.troveDebt[x] >= MIN_NET_DEBT
  BY <1>4, <1>5, <1>12
<1>26. OneCollateral /\ ETokensHeld => ETokensPooled(next)
  <2>1. ASSUME NEW c \in Collaterals, ETokensPooled(acc)
        PROVE  Total(Col(next.eToken, c)) + next.drawn[c] <= next.pooled[c]
    <3> DEFINE f == acc.eToken
    <3>1. f \in [Borrowers -> Amounts]
      BY <1>5 DEF RedemptionTypes
    <3>2. Total(Col(f, c)) + acc.drawn[c] <= acc.pooled[c] /\ remains[c] = f[b][c] - drawn[c]
      BY <1>9, <2>1 DEF ETokensPooled
    <3>3. next.eToken = [f EXCEPT ![b] = Zeros] /\ Zeros \in Amounts /\ Zeros[c] = 0
      BY <1>4, PlusMinusTypes
    <3> HIDE DEF f
    <3>4. /\ Total(Col([f EXCEPT ![b] = Zeros], c)) = Total(Col(f, c)) - f[b][c] + Zeros[c]
          /\ Total(Col(f, c)) \in Nat /\ f[b][c] \in Nat
      <4> DEFINE z == Zeros
      <4>1. z \in Amounts
        BY <3>3
      <4> HIDE DEF z
      <4>2. /\ Total(Col([f EXCEPT ![b] = z], c)) = Total(Col(f, c)) - f[b][c] + z[c]
            /\ Total(Col(f, c)) \in Nat /\ f[b][c] \in Nat
        BY <1>5, <3>1, <4>1, ColReplacedAt
      <4> QED BY <4>2 DEF z
    <3>5. acc.drawn[c] \in Nat /\ acc.pooled[c] \in Nat /\ drawn[c] \in Nat /\ remains[c] \in Nat
      BY <1>8, <1>9 DEF Amounts
    <3>6. next.pooled[c] = acc.pooled[c] - remains[c] /\ next.drawn[c] = acc.drawn[c] + drawn[c]
      BY <1>10, <1>11
    <3> QED BY <3>2, <3>3, <3>4, <3>5, <3>6
  <2> QED BY <1>5, <2>1 DEF ETokensPooled
<1> QED BY <1>4, <1>6, <1>18, <1>19, <1>20, <1>21, <1>22, <1>23, <1>24, <1>25, <1>26 DEF RedemptionLedger

\* A collateral worth nothing has no ratio but zero.
LEMMA RatioOfNothing ==
  ASSUME Priced, NEW f \in Amounts, NEW debt \in Nat \ {0}, ComputeCR(ValueOf(f), debt) # 0
  PROVE  \E c \in Collaterals : f[c] # 0
<1> SUFFICES ASSUME \A c \in Collaterals : f[c] = 0
             PROVE  FALSE
  OBVIOUS
<1> DEFINE v == Values(f)
<1>1. \A c \in Collaterals : v[c] = 0
  <2> TAKE c \in Collaterals
  <2>1. v[c] = f[c] * price[c] /\ price[c] \in Nat
    BY DEF Values, Priced
  <2> QED BY <2>1
<1>2. v \in Amounts /\ ValueOf(f) = SumFunction(v)
  BY ValueIsNat DEF ValueOf
<1> HIDE DEF v
<1>3. SumFunctionOnSet(v, Collaterals) = 0
  BY <1>1, ConstantTypes, SumOfZeros
<1>4. ValueOf(f) = 0
  BY <1>2, <1>3, SumsOfAmounts
<1>5. (0 * DECIMAL_PRECISION) \div debt = 0
  <2>1. 0 * DECIMAL_PRECISION = 0
    BY ConstantTypes
  <2>2. 0 \div debt = 0
    BY Z3
  <2> QED BY <2>1, <2>2
<1> QED BY <1>4, <1>5 DEF ComputeCR

\* Redeeming a part of a trove keeps the invariant of the redemption.
LEMMA PartialRedemptionKeepsLedger ==
  ASSUME Ledger, NEW met, NEW acc, NEW b, NEW amount, JustMet(acc, met, b, amount),
         NEW lot, lot = acc.left, NEW newNet, newNet = acc.troveDebt[b] - lot,
         newNet \in Nat, newNet >= MIN_NET_DEBT,
         NEW drawn, drawn = Drawn(acc.eToken[b], lot),
         NEW remains, remains = Minus(acc.eToken[b], drawn),
         NEW newICR, newICR = ComputeCR(ValueOf(remains), newNet + USDE_GAS_COMPENSATION)
  PROVE  RedemptionLedger(RedeemedInPart(Exchanged(acc, lot, drawn), b, lot, remains, newICR),
                          met \cup {b}, amount)
<1> DEFINE x1 == Exchanged(acc, lot, drawn)
           next == RedeemedInPart(x1, b, lot, remains, newICR)
           coll == ResetEToken(acc.eToken[b], remains)
<1> SUFFICES ASSUME ~next.reverted
             PROVE  RedemptionLedger(next, met \cup {b}, amount)
  BY DEF RedemptionLedger
<1>1. /\ x1.left = acc.left - lot /\ x1.redeemed = acc.redeemed + lot
      /\ x1.drawn = Plus(acc.drawn, drawn)
      /\ x1.touched = acc.touched /\ x1.pendDebt = acc.pendDebt /\ x1.pendColl = acc.pendColl
      /\ x1.troveDebt = acc.troveDebt /\ x1.eToken = acc.eToken /\ x1.pooled = acc.pooled
      /\ x1.gas = acc.gas /\ x1.closed = acc.closed /\ x1.partial = acc.partial
      /\ x1.newICR = acc.newICR /\ x1.reverted = acc.reverted /\ x1.index = acc.index
      /\ x1.surplus = acc.surplus /\ x1.stakes = acc.stakes /\ x1.owners = acc.owners
      /\ x1.list = acc.list /\ DOMAIN x1 = DOMAIN acc
  BY ExchangedIs DEF JustMet
<1> HIDE DEF x1
<1>2. newICR # 0 /\ StakeComputable
  <2>1. SUFFICES ASSUME ~(newICR # 0 /\ StakeComputable)
                 PROVE  FALSE
    OBVIOUS
  <2>2. next = [x1 EXCEPT !.reverted = TRUE]
    BY <2>1 DEF RedeemedInPart
  <2> QED BY <1>1, <2>2 DEF JustMet, RedemptionWalk
<1>3. next = [x1 EXCEPT !.partial = {b},
                        !.newICR = newICR,
                        !.troveDebt[b] = @ - lot,
                        !.eToken[b] = coll,
                        !.stakes[b] = NewStakes(coll)]
  BY <1>1, <1>2 DEF RedeemedInPart
<1> HIDE DEF coll
<1>4. /\ next.left = acc.left - lot /\ next.redeemed = acc.redeemed + lot
      /\ next.drawn = Plus(acc.drawn, drawn)
      /\ next.touched = acc.touched /\ next.pendDebt = acc.pendDebt /\ next.pendColl = acc.pendColl
      /\ next.troveDebt = [acc.troveDebt EXCEPT ![b] = newNet]
      /\ next.eToken = [acc.eToken EXCEPT ![b] = coll]
      /\ next.stakes = [acc.stakes EXCEPT ![b] = NewStakes(coll)]
      /\ next.surplus = acc.surplus /\ next.pooled = acc.pooled
      /\ next.gas = acc.gas /\ next.closed = acc.closed
      /\ next.partial = {b} /\ next.newICR = newICR /\ next.index = acc.index
  <2>1. DOMAIN x1 = {"left", "redeemed", "drawn", "gas", "pendDebt", "pendColl", "touched",
                     "closed", "partial", "newICR", "cancelled", "reverted", "owners",
                     "index", "list", "troveDebt", "eToken", "surplus", "stakes", "pooled"}
    BY <1>1 DEF JustMet, RedemptionWalk
  <2>2. /\ next.troveDebt = [x1.troveDebt EXCEPT ![b] = x1.troveDebt[b] - lot]
        /\ next.eToken = [x1.eToken EXCEPT ![b] = coll]
        /\ next.stakes = [x1.stakes EXCEPT ![b] = NewStakes(coll)]
    BY <1>3, <2>1
  <2>3. x1.troveDebt[b] - lot = newNet
    BY <1>1
  <2>4. /\ next.left = x1.left /\ next.redeemed = x1.redeemed /\ next.drawn = x1.drawn
        /\ next.touched = x1.touched /\ next.pendDebt = x1.pendDebt /\ next.pendColl = x1.pendColl
        /\ next.surplus = x1.surplus /\ next.pooled = x1.pooled /\ next.gas = x1.gas
        /\ next.closed = x1.closed /\ next.partial = {b} /\ next.newICR = newICR
        /\ next.index = x1.index
    BY <1>3, <2>1
  <2> QED BY <1>1, <2>2, <2>3, <2>4
<1> HIDE DEF next
<1>5. /\ RedemptionTypes(acc, amount) /\ RewardsTaken(acc, met \cup {b})
      /\ Total(acc.troveDebt) + acc.redeemed = troveDebtSupply + acc.pendDebt
      /\ acc.pendDebt \in Nat /\ troveDebtSupply \in Nat
      /\ \A x \in Borrowers \ (met \cup {b}) : acc.troveDebt[x] = troveDebt[x] /\ acc.eToken[x] = eToken[x]
      /\ \A x \in Borrowers \ acc.closed : acc.stakes[x] = stakes[x]
      /\ \A x \in acc.closed :
              /\ acc.stakes[x] = Zeros /\ acc.eToken[x] = Zeros /\ acc.troveDebt[x] = 0
              /\ \E s \in Amounts : acc.surplus[x] = Plus(surplus[x], s) /\ RedeemedClaim(x, s)
      /\ \A x \in Borrowers \ acc.closed : acc.surplus[x] = surplus[x]
      /\ \A x \in ActiveTroves \ acc.closed : acc.troveDebt[x] >= MIN_NET_DEBT
      /\ OneCollateral /\ ETokensHeld => ETokensPooled(acc)
      /\ met \in SUBSET Borrowers /\ b \in Borrowers /\ ActiveTroves \subseteq Borrowers
      /\ acc.closed \subseteq met
  BY JustMetIs
<1>6. b \notin acc.closed
  BY DEF JustMet
<1>7. TypeOK /\ Priced /\ USDE_GAS_COMPENSATION \in Nat /\ USDE_GAS_COMPENSATION > 0
  BY GasTypes, PricesArePrices DEF Ledger
<1>8. /\ lot \in Nat /\ acc.left \in Nat /\ acc.redeemed \in Nat
      /\ acc.eToken[b] \in Amounts /\ acc.drawn \in Amounts /\ acc.pooled \in Amounts
  BY <1>5 DEF RedemptionTypes
<1>9. /\ drawn \in Amounts /\ remains \in Amounts
      /\ \A c \in Collaterals : remains[c] = acc.eToken[b][c] - drawn[c]
  <2>1. drawn \in Amounts /\ Covers(acc.eToken[b], drawn)
    BY <1>7, <1>8, DrawnIsPart
  <2> QED BY <1>8, <2>1, PlusMinusTypes
<1>10. coll \in Amounts /\ \A c \in Collaterals : remains[c] # 0 => coll[c] = remains[c]
  BY <1>8, <1>9 DEF coll, ResetEToken, Amounts
<1>11. newICR \in Nat
  <2>1. ValueOf(remains) \in Nat /\ newNet + USDE_GAS_COMPENSATION \in Nat
    BY <1>7, <1>9, ValueIsNat
  <2> QED BY <2>1, RatioIsNat
<1>12. next.drawn \in Amounts /\ \A c \in Collaterals : next.drawn[c] = acc.drawn[c] + drawn[c]
  BY <1>4, <1>8, <1>9, PlusMinusTypes
<1>13. /\ next.troveDebt \in [Borrowers -> Nat] /\ next.troveDebt[b] = newNet
       /\ \A x \in Borrowers \ {b} : next.troveDebt[x] = acc.troveDebt[x]
  BY <1>4, <1>5 DEF RedemptionTypes
<1>14. /\ next.eToken \in [Borrowers -> Amounts]
       /\ \A x \in Borrowers \ {b} : next.eToken[x] = acc.eToken[x]
  BY <1>4, <1>5, <1>10 DEF RedemptionTypes
<1>15. /\ next.stakes \in [Borrowers -> Amounts]
       /\ \A x \in Borrowers \ {b} : next.stakes[x] = acc.stakes[x]
  <2>1. NewStakes(coll) \in Amounts
    BY <1>2, <1>7, <1>10, NewStakesTypes
  <2> QED BY <1>4, <1>5, <2>1 DEF RedemptionTypes
<1>16. next.left = 0 /\ next.left \in Nat /\ next.redeemed \in Nat /\ next.left + next.redeemed = amount
  <2>1. acc.left + acc.redeemed = amount
    BY <1>5 DEF RedemptionTypes
  <2> QED BY <1>4, <1>8, <2>1
<1>17. RedemptionTypes(next, amount)
  BY <1>4, <1>5, <1>11, <1>12, <1>13, <1>14, <1>15, <1>16 DEF RedemptionTypes
<1>18. RewardsTaken(next, met \cup {b})
  BY <1>4, <1>5, SameRewards
<1>19. Total(next.troveDebt) + next.redeemed = troveDebtSupply + next.pendDebt
  <2> DEFINE f == acc.troveDebt
  <2>1. f \in [Borrowers -> Nat] /\ newNet = f[b] - lot
    BY <1>5 DEF RedemptionTypes
  <2>2. next.troveDebt = [f EXCEPT ![b] = newNet] /\ Total(f) + acc.redeemed = troveDebtSupply + acc.pendDebt
    BY <1>4, <1>5
  <2> HIDE DEF f
  <2>3. Total([f EXCEPT ![b] = newNet]) = Total(f) - f[b] + newNet /\ Total(f) \in Nat /\ f[b] \in Nat
    BY <1>5, <2>1, DebtReplacedAt
  <2> QED BY <1>4, <1>5, <1>8, <2>1, <2>2, <2>3
<1>20. \A x \in Borrowers \ (met \cup {b}) : next.troveDebt[x] = troveDebt[x] /\ next.eToken[x] = eToken[x]
  BY <1>5, <1>13, <1>14
<1>21. \A x \in Borrowers \ (next.closed \cup next.partial) : next.stakes[x] = stakes[x]
  BY <1>4, <1>5, <1>15
<1>22. ASSUME NEW x \in next.closed
       PROVE  /\ next.stakes[x] = Zeros /\ next.eToken[x] = Zeros /\ next.troveDebt[x] = 0
              /\ \E s \in Amounts : next.surplus[x] = Plus(surplus[x], s) /\ RedeemedClaim(x, s)
  <2>1. x \in acc.closed /\ x \in Borrowers \ {b}
    BY <1>4, <1>5, <1>6
  <2> QED BY <1>4, <1>5, <1>13, <1>14, <1>15, <2>1
<1>23. \A x \in Borrowers \ next.closed : next.surplus[x] = surplus[x]
  BY <1>4, <1>5
<1>24. \A x \in ActiveTroves \ next.closed : next.troveDebt[x] >= MIN_NET_DEBT
  BY <1>4, <1>5, <1>13
<1>25. OneCollateral /\ ETokensHeld => ETokensPooled(next)
  <2>1. ASSUME NEW c \in Collaterals, ETokensPooled(acc), OneCollateral
        PROVE  Total(Col(next.eToken, c)) + next.drawn[c] <= next.pooled[c]
    <3> DEFINE f == acc.eToken
    <3>1. f \in [Borrowers -> Amounts]
      BY <1>5 DEF RedemptionTypes
    <3>2. Total(Col(f, c)) + acc.drawn[c] <= acc.pooled[c] /\ remains[c] = f[b][c] - drawn[c]
      BY <1>9, <2>1 DEF ETokensPooled
    <3>3. next.eToken = [f EXCEPT ![b] = coll]
      BY <1>4
    <3>4. coll[c] = remains[c]
      <4>1. newNet + USDE_GAS_COMPENSATION \in Nat \ {0}
        BY <1>7
      <4>2. PICK x \in Collaterals : remains[x] # 0
        BY <1>2, <1>7, <1>9, <4>1, RatioOfNothing
      <4>3. x = c
        BY <2>1 DEF OneCollateral
      <4> QED BY <1>10, <4>2, <4>3
    <3> HIDE DEF f
    <3>5. /\ Total(Col([f EXCEPT ![b] = coll], c)) = Total(Col(f, c)) - f[b][c] + coll[c]
          /\ Total(Col(f, c)) \in Nat /\ f[b][c] \in Nat
      BY <1>5, <1>10, <3>1, ColReplacedAt
    <3>6. acc.drawn[c] \in Nat /\ acc.pooled[c] \in Nat /\ drawn[c] \in Nat /\ remains[c] \in Nat
      BY <1>8, <1>9 DEF Amounts
    <3>7. next.pooled[c] = acc.pooled[c] /\ next.drawn[c] = acc.drawn[c] + drawn[c]
      BY <1>4, <1>12
    <3> QED BY <3>2, <3>3, <3>4, <3>5, <3>6, <3>7
  <2> QED BY <1>5, <2>1 DEF ETokensPooled
<1> QED BY <1>16, <1>17, <1>18, <1>19, <1>20, <1>21, <1>22, <1>23, <1>24, <1>25 DEF RedemptionLedger

\* A cancelled last redemption keeps the invariant.
LEMMA CancelledKeepsLedger ==
  ASSUME NEW met, NEW w, NEW acc, RedemptionWalk(acc, w), NEW amount, RedemptionLedger(acc, met, amount)
  PROVE  RedemptionLedger([acc EXCEPT !.cancelled = TRUE], met, amount)
<1> DEFINE next == [acc EXCEPT !.cancelled = TRUE]
<1>1. /\ next.left = acc.left /\ next.redeemed = acc.redeemed /\ next.drawn = acc.drawn
      /\ next.touched = acc.touched /\ next.pendDebt = acc.pendDebt /\ next.pendColl = acc.pendColl
      /\ next.troveDebt = acc.troveDebt /\ next.eToken = acc.eToken /\ next.pooled = acc.pooled
      /\ next.gas = acc.gas /\ next.closed = acc.closed /\ next.partial = acc.partial
      /\ next.newICR = acc.newICR /\ next.reverted = acc.reverted /\ next.index = acc.index
      /\ next.surplus = acc.surplus /\ next.stakes = acc.stakes
  BY DEF RedemptionWalk
<1> HIDE DEF next
<1>2. RedemptionTypes(acc, amount) => RedemptionTypes(next, amount)
  BY <1>1 DEF RedemptionTypes
<1>3. RewardsTaken(acc, met) => RewardsTaken(next, met)
  BY <1>1 DEF RewardsTaken
<1>4. ETokensPooled(acc) => ETokensPooled(next)
  BY <1>1 DEF ETokensPooled
<1>5. RedemptionLedger(next, met, amount)
  BY <1>1, <1>2, <1>3, <1>4 DEF RedemptionLedger
<1> QED BY <1>5 DEF next

\* Whatever a redemption does with the next trove keeps its invariant.
LEMMA RedeemStepKeepsLedger ==
  ASSUME Books, Ledger, NEW met, NEW acc, RedemptionWalk(acc, met),
         NEW amount, RedemptionLedger(acc, met, amount),
         NEW b \in ActiveTroves, b \notin met, NEW hintFresh
  PROVE  \E m \in {met, met \cup {b}} :
           /\ RedemptionWalk(RedeemStep(acc, b, hintFresh), m)
           /\ RedemptionLedger(RedeemStep(acc, b, hintFresh), m, amount)
<1> DEFINE after == Met(acc, b)
           lot == MinOf(acc.left, after.troveDebt[b])
           drawn == Drawn(after.eToken[b], lot)
           remains == Minus(after.eToken[b], drawn)
           newNet == after.troveDebt[b] - lot
           newICR == ComputeCR(ValueOf(remains), newNet + USDE_GAS_COMPENSATION)
           exchanged == Exchanged(after, lot, drawn)
           next == RedeemStep(acc, b, hintFresh)
<1>1. CASE acc.left = 0 \/ acc.cancelled \/ acc.reverted
  <2>1. next = acc
    BY <1>1 DEF RedeemStep
  <2> HIDE DEF next
  <2> QED BY <2>1 DEF next
<1>2. CASE ~(acc.left = 0 \/ acc.cancelled \/ acc.reverted)
  <2>1. next =
          IF newNet = 0 THEN RedeemedInFull(exchanged, b, remains)
          ELSE IF ~hintFresh \/ newNet < MIN_NET_DEBT THEN [after EXCEPT !.cancelled = TRUE]
          ELSE RedeemedInPart(exchanged, b, lot, remains, newICR)
    BY <1>2 DEF RedeemStep, RedeemFrom
  <2>2. RedemptionWalk(next, met \cup {b})
    BY RedeemStepKeepsWalk
  <2>3. RedemptionWalk(after, met)
    BY MeetingKeepsWalk
  <2>4. /\ RedemptionLedger(after, met \cup {b}, amount)
        /\ ~after.reverted /\ after.left = acc.left /\ after.closed = acc.closed /\ after.partial = acc.partial
        /\ after.eToken[b] = EntireColl(b)
        /\ after.troveDebt[b] <= EntireDebt(b) - USDE_GAS_COMPENSATION
    BY <1>2, MeetingKeepsLedger
  <2> HIDE DEF next, after
  <2>5. JustMet(after, met, b, amount)
    <3>1. acc.partial = {}
      BY <1>2 DEF RedemptionLedger
    <3>2. b \notin acc.closed
      BY DEF RedemptionWalk
    <3> QED BY <1>2, <2>3, <2>4, <3>1, <3>2 DEF JustMet
  <2>6. after.left \in Nat /\ after.troveDebt[b] \in Nat
    <3>1. RedemptionTypes(after, amount) /\ b \in Borrowers
      BY <2>4 DEF RedemptionLedger, ActiveTroves
    <3> QED BY <3>1 DEF RedemptionTypes
  <2>7. /\ lot \in Nat /\ lot <= after.left /\ newNet \in Nat
        /\ newNet = 0 => lot = after.troveDebt[b]
        /\ newNet # 0 => lot = after.left
    BY <2>4, <2>6 DEF MinOf
  <2>8. CASE newNet = 0
    <3>1. next = RedeemedInFull(exchanged, b, remains) /\ lot = after.troveDebt[b] /\ lot <= after.left
      BY <2>1, <2>7, <2>8
    <3> HIDE DEF lot, newNet
    <3>2. RedemptionLedger(next, met \cup {b}, amount)
      BY <2>5, <3>1, FullRedemptionKeepsLedger
    <3> QED BY <2>2, <3>2 DEF next
  <2>9. CASE newNet # 0 /\ (~hintFresh \/ newNet < MIN_NET_DEBT)
    <3>1. next = [after EXCEPT !.cancelled = TRUE]
      BY <2>1, <2>9
    <3>2. RedemptionLedger(next, met \cup {b}, amount)
      BY <2>3, <2>4, <3>1, CancelledKeepsLedger
    <3> QED BY <2>2, <3>2 DEF next
  <2>10. CASE newNet # 0 /\ ~(~hintFresh \/ newNet < MIN_NET_DEBT)
    <3>1. next = RedeemedInPart(exchanged, b, lot, remains, newICR) /\ lot = after.left
      BY <2>1, <2>7, <2>10
    <3>2. newNet \in Nat /\ newNet >= MIN_NET_DEBT /\ newNet = after.troveDebt[b] - lot
      BY <2>7, <2>10, ConstantTypes
    <3> HIDE DEF lot, newNet, newICR
    <3>3. newICR = ComputeCR(ValueOf(remains), newNet + USDE_GAS_COMPENSATION)
      BY DEF newICR
    <3> HIDE DEF drawn, remains
    <3>4. drawn = Drawn(after.eToken[b], lot) /\ remains = Minus(after.eToken[b], drawn)
      BY DEF drawn, remains
    <3>5. RedemptionLedger(next, met \cup {b}, amount)
      BY <2>5, <3>1, <3>2, <3>3, <3>4, PartialRedemptionKeepsLedger
    <3> QED BY <2>2, <3>5 DEF next
  <2> QED BY <2>8, <2>9, <2>10
<1> QED BY <1>1, <1>2

\* A redemption keeps its invariant along any path of open troves.
LEMMA RedeemAlongKeepsLedger ==
  ASSUME Books, Ledger, NEW path, Len(path) \in Nat,
         \A i \in 1..Len(path) : path[i] \in ActiveTroves,
         \A i, j \in 1..Len(path) : path[i] = path[j] => i = j,
         NEW amount \in Nat, NEW hintFresh
  PROVE  \E met : /\ RedemptionWalk(RedeemAlong(path, amount, hintFresh), met)
                  /\ RedemptionLedger(RedeemAlong(path, amount, hintFresh), met, amount)
<1> DEFINE n == Len(path)
<1>1. PICK run : /\ run = [i \in 0..n |-> IF i = 0 THEN NothingRedeemed(amount)
                                          ELSE RedeemStep(run[i - 1], path[i], hintFresh)]
                 /\ RedeemAlong(path, amount, hintFresh) = run[n]
  BY RedeemAlongStep
<1> HIDE DEF n
<1> DEFINE before(i) == {path[j] : j \in 1..i}
           Kept(i) == \E m \in SUBSET before(i) :
                        RedemptionWalk(run[i], m) /\ RedemptionLedger(run[i], m, amount)
           T == {i \in 0..n : Kept(i)}
<1>2. /\ n \in Nat /\ \A i \in 1..n : path[i] \in ActiveTroves
      /\ \A i, j \in 1..n : path[i] = path[j] => i = j
  BY DEF n
<1>3. 0 \in T
  <2>1. run[0] = NothingRedeemed(amount) /\ {} \in SUBSET before(0)
    BY <1>1, <1>2
  <2> QED BY <1>2, <2>1, StartsAsRedemptionWalk, StartsRedemptionLedger
<1>4. ASSUME NEW i \in 0..(n - 1), i \in T
      PROVE  i + 1 \in T
  <2>1. i + 1 \in 1..n /\ i + 1 \in 0..n /\ (i + 1) - 1 = i /\ i + 1 # 0
    BY <1>2
  <2>2. run[i + 1] = RedeemStep(run[i], path[i + 1], hintFresh)
    BY <1>1, <2>1
  <2>3. before(i + 1) = before(i) \cup {path[i + 1]}
    BY <1>2, <2>1
  <2>4. path[i + 1] \in ActiveTroves /\ path[i + 1] \notin before(i)
    BY <1>2, <2>1
  <2>5. PICK m \in SUBSET before(i) : RedemptionWalk(run[i], m) /\ RedemptionLedger(run[i], m, amount)
    BY <1>4
  <2> HIDE DEF before
  <2>6. \E k \in {m, m \cup {path[i + 1]}} :
          RedemptionWalk(run[i + 1], k) /\ RedemptionLedger(run[i + 1], k, amount)
    BY <2>2, <2>4, <2>5, RedeemStepKeepsLedger
  <2>7. {m, m \cup {path[i + 1]}} \subseteq SUBSET before(i + 1)
    BY <2>3, <2>5
  <2>8. Kept(i + 1)
    BY <2>6, <2>7
  <2> QED BY <2>1, <2>8
<1> HIDE DEF before, Kept, T
<1>5. n \in T
  <2>1. 0..n \subseteq T
    BY <1>2, <1>3, <1>4, SetInduction
  <2> QED BY <1>2, <2>1
<1>6. \E m : RedemptionWalk(run[n], m) /\ RedemptionLedger(run[n], m, amount)
  BY <1>5 DEF T, Kept
<1> QED BY <1>1, <1>6

-----------------------------------------------------------------------------
(* The end of a redemption.                                                *)

\* The fees are a part of the collateral drawn.
LEMMA FeesArePart ==
  ASSUME NEW drawn \in Amounts, NEW rate \in 0..DECIMAL_PRECISION
  PROVE  CollFees(drawn, rate) \in Amounts /\ Covers(drawn, CollFees(drawn, rate))
<1>1. ASSUME NEW c \in Collaterals
      PROVE  (rate * drawn[c]) \div DECIMAL_PRECISION \in Nat /\ (rate * drawn[c]) \div DECIMAL_PRECISION <= drawn[c]
  <2>1. drawn[c] \in Nat /\ rate \in Nat /\ rate <= DECIMAL_PRECISION /\ DECIMAL_PRECISION \in Nat \ {0}
    BY ConstantTypes DEF Amounts
  <2>2. (drawn[c] * rate) \div DECIMAL_PRECISION \in Nat /\ (drawn[c] * rate) \div DECIMAL_PRECISION <= drawn[c]
    BY <2>1, ShareOfAmount
  <2>3. drawn[c] * rate = rate * drawn[c]
    BY <2>1, Z3
  <2> QED BY <2>2, <2>3
<1>2. CollFees(drawn, rate) \in Amounts
  BY <1>1 DEF CollFees, Amounts
<1>3. Covers(drawn, CollFees(drawn, rate))
  BY <1>1 DEF CollFees, Covers, Amounts
<1> QED BY <1>2, <1>3

\* Of the stakes only those of the troves in D were changed.
LEMMA TotalStakesCorrected ==
  ASSUME TypeOK, Totals, NEW D \in SUBSET Borrowers, stakes' \in [Borrowers -> Amounts],
         \A x \in Borrowers \ D : stakes'[x] = stakes[x],
         totalStakes' = [c \in Collaterals |->
           totalStakes[c] - SumFunctionOnSet(Col(stakes, c), D) + SumFunctionOnSet(Col(stakes', c), D)]
  PROVE  /\ totalStakes' \in Amounts
         /\ \A c \in Collaterals : totalStakes'[c] = Total(Col(stakes', c))
<1>1. ASSUME NEW c \in Collaterals
      PROVE  totalStakes'[c] = Total(Col(stakes', c)) /\ totalStakes'[c] \in Nat
  <2> DEFINE f == Col(stakes, c)
             g == Col(stakes', c)
  <2>1. \A x \in Borrowers : f[x] = stakes[x][c] /\ f[x] \in Nat
    <3>1. stakes \in [Borrowers -> Amounts]
      BY DEF TypeOK
    <3> QED BY <3>1, ColIsAt
  <2>2. \A x \in Borrowers : g[x] = stakes'[x][c] /\ g[x] \in Nat
    BY ColIsAt
  <2>3. totalStakes[c] = Total(f) /\ totalStakes'[c] = totalStakes[c] - SumFunctionOnSet(f, D) + SumFunctionOnSet(g, D)
    BY DEF Totals
  <2> HIDE DEF f, g
  <2>4. \A x \in Borrowers \ D : g[x] = f[x]
    BY <2>1, <2>2
  <2>5. \A x \in Borrowers : f[x] \in Int /\ g[x] \in Int
    BY <2>1, <2>2
  <2>6. SumFunctionOnSet(g, Borrowers) =
          SumFunctionOnSet(f, Borrowers) - SumFunctionOnSet(f, D) + SumFunctionOnSet(g, D)
    BY <2>4, <2>5, ConstantTypes, SumReplaced
  <2>7. Total(g) \in Nat
    BY <2>2, TotalIsNat
  <2>8. totalStakes'[c] = Total(g) /\ totalStakes'[c] \in Nat
    BY <2>3, <2>6, <2>7 DEF Total
  <2> QED BY <2>8 DEF g
<1>2. totalStakes' \in Amounts
  BY <1>1 DEF Amounts
<1> QED BY <1>1, <1>2

\* The owners touched were promised what they took.
LEMMA TouchedWerePromised ==
  ASSUME TypeOK, SnapshotsBehind, NEW D \in SUBSET Borrowers, NEW C \in SUBSET D, NEW c \in Collaterals
  PROVE  DECIMAL_PRECISION * SumFunctionOnSet(PendingColls(c), C)
           <= SumFunctionOnSet(PromisedTo(stakes, E_Coll, snapshotColl, c), D)
<1> DEFINE f == PromisedTo(stakes, E_Coll, snapshotColl, c)
           P == DECIMAL_PRECISION
           a == SumFunctionOnSet(PendingColls(c), C)
<1>1. P * a <= SumFunctionOnSet(f, C) /\ a \in Nat
  BY PendingIsPartOfPromised
<1>2. \A x \in Borrowers : f[x] \in Nat
  BY AppliedIsPart DEF PromisedTo
<1>3. IsFiniteSet(D) /\ P * a \in Int
  BY <1>1, ConstantTypes, FS_Subset
<1> HIDE DEF f, P, a
<1>4. \A x \in D : f[x] \in Nat
  BY <1>2
<1>5. SumFunctionOnSet(f, C) <= SumFunctionOnSet(f, D)
  BY <1>3, <1>4, SumOfPart
<1>6. SumFunctionOnSet(f, C) \in Nat /\ SumFunctionOnSet(f, D) \in Nat
  BY <1>2, ConstantTypes, SumOfNaturals
<1>7. P * a <= SumFunctionOnSet(f, D)
  BY <1>1, <1>3, <1>5, <1>6
<1> QED BY <1>7 DEF f, P, a

\* The end of a redemption keeps the ledger.
LEMMA SettleRedemptionKeepsLedger ==
  ASSUME Books, Ledger, Books', NEW met, NEW acc, RedemptionWalk(acc, met),
         NEW amount \in Nat, amount <= wallets, RedemptionLedger(acc, met, amount),
         NEW rate \in 0..DECIMAL_PRECISION, SettleRedemption(acc, rate)
  PROVE  LedgerStep
<1> DEFINE closed == acc.closed
           partial == acc.partial
           touched == acc.touched
           fees == CollFees(acc.drawn, rate)
           toRedeemer == Minus(acc.drawn, fees)
           afterFees == Minus(acc.pooled, fees)
           changed == closed \cup partial
           D == changed \cup touched
<1>1. /\ PayableToPools(fees, acc.pooled) /\ PayableToUsers(toRedeemer, afterFees)
      /\ Covers(defaultColl, acc.pendColl) /\ gasPool >= acc.gas
      /\ activeColl' = Minus(afterFees, toRedeemer)
      /\ ~acc.reverted
  BY DEF SettleRedemption
<1>2. /\ status' = [b \in Borrowers |-> IF b \in closed THEN "closedByRedemption" ELSE status[b]]
      /\ recorded' = [b \in Borrowers |-> IF b \in closed THEN 0
                                          ELSE IF b \in partial THEN acc.newICR ELSE recorded[b]]
      /\ snapshotColl' = [b \in Borrowers |-> IF b \in closed THEN Zeros
                            ELSE IF b \in touched THEN E_Coll ELSE snapshotColl[b]]
      /\ snapshotDebt' = [b \in Borrowers |-> IF b \in closed THEN Zeros
                            ELSE IF b \in touched THEN E_USDEDebt ELSE snapshotDebt[b]]
      /\ stakes' = acc.stakes /\ troveDebt' = acc.troveDebt /\ eToken' = acc.eToken
      /\ arrayIndex' = acc.index /\ surplus' = acc.surplus
  BY DEF SettleRedemption
<1>3. totalStakes' = [c \in Collaterals |->
        totalStakes[c] - SumFunctionOnSet(Col(stakes, c), changed) + SumFunctionOnSet(Col(stakes', c), changed)]
  <2>1. totalStakes' = [c \in Collaterals |->
          totalStakes[c] - SumFunctionOnSet([b \in Borrowers |-> stakes[b][c]], changed)
                         + SumFunctionOnSet([b \in Borrowers |-> acc.stakes[b][c]], changed)]
    BY DEF SettleRedemption
  <2>2. totalStakes' = [c \in Collaterals |->
          totalStakes[c] - SumFunctionOnSet([b \in Borrowers |-> stakes[b][c]], changed)
                         + SumFunctionOnSet([b \in Borrowers |-> stakes'[b][c]], changed)]
    BY <1>2, <2>1
  <2> HIDE DEF changed
  <2> QED BY <2>2 DEF Col
<1>4. /\ troveDebtSupply' = troveDebtSupply + acc.pendDebt - acc.redeemed
      /\ activeDebt' = Decreased(Decreased(activeDebt + acc.pendDebt, acc.gas), acc.redeemed)
      /\ defaultColl' = Minus(defaultColl, acc.pendColl)
      /\ defaultDebt' = Decreased(defaultDebt, acc.pendDebt)
      /\ wallets' = wallets - acc.redeemed
      /\ gasPool' = gasPool - acc.gas
      /\ totalStakesSnapshot' = totalStakesSnapshot /\ totalCollateralSnapshot' = totalCollateralSnapshot
      /\ E_Coll' = E_Coll /\ E_USDEDebt' = E_USDEDebt
      /\ lastCollError' = lastCollError /\ lastUSDEDebtError' = lastUSDEDebtError
      /\ totalUSDEDeposits' = totalUSDEDeposits
      /\ price' = price /\ USDE_GAS_COMPENSATION' = USDE_GAS_COMPENSATION
  BY DEF SettleRedemption, envVars, systemSnapshotVars, rewardVars
<1>5. /\ RedemptionTypes(acc, amount)
      /\ RewardsTaken(acc, met)
      /\ Total(acc.troveDebt) + acc.redeemed = troveDebtSupply + acc.pendDebt
      /\ \A x \in Borrowers \ met : acc.troveDebt[x] = troveDebt[x] /\ acc.eToken[x] = eToken[x]
      /\ \A x \in Borrowers \ changed : acc.stakes[x] = stakes[x]
      /\ \A x \in closed :
           /\ acc.stakes[x] = Zeros /\ acc.eToken[x] = Zeros /\ acc.troveDebt[x] = 0
      /\ \A x \in ActiveTroves \ closed : acc.troveDebt[x] >= MIN_NET_DEBT
      /\ OneCollateral /\ ETokensHeld => ETokensPooled(acc)
  BY <1>1 DEF RedemptionLedger
<1>6. /\ acc.redeemed \in Nat /\ acc.redeemed <= amount /\ acc.gas \in Nat /\ acc.newICR \in Nat
      /\ acc.index \in [Borrowers -> Nat]
      /\ acc.drawn \in Amounts /\ acc.pooled \in Amounts
      /\ acc.troveDebt \in [Borrowers -> Nat] /\ acc.eToken \in [Borrowers -> Amounts]
      /\ acc.stakes \in [Borrowers -> Amounts] /\ acc.surplus \in [Borrowers -> Amounts]
  BY <1>5 DEF RedemptionTypes
<1>7. /\ touched \subseteq met /\ \A x \in met \ touched : ~HasPendingRewards(x)
      /\ acc.pendDebt = SumFunctionOnSet(PendingDebts, touched)
      /\ acc.pendColl \in Amounts
      /\ \A c \in Collaterals : acc.pendColl[c] = SumFunctionOnSet(PendingColls(c), touched)
  BY <1>5 DEF RewardsTaken
<1>8. met \subseteq ActiveTroves /\ closed \subseteq met /\ partial \subseteq met \ closed
  BY DEF RedemptionWalk
<1> HIDE DEF closed, partial, touched
<1>9. /\ changed \in SUBSET Borrowers /\ D \in SUBSET Borrowers /\ touched \in SUBSET D
      /\ touched \in SUBSET Borrowers /\ D \subseteq met
      /\ \A x \in met : x \in Borrowers /\ IsActive(x)
  BY <1>7, <1>8 DEF ActiveTroves
<1>10. TypeOK /\ SnapshotsBehind /\ Totals /\ NoDustTroves /\ CollPromisesKept
  BY DEF Ledger
\* The debts.
<1>11. /\ troveDebtSupply \in Nat /\ gasPool \in Nat /\ defaultDebt \in Nat
       /\ totalUSDEDeposits \in Nat /\ wallets \in Nat /\ activeDebt \in Nat
       /\ activeDebt = troveDebtSupply + gasPool
       /\ wallets + totalUSDEDeposits <= troveDebtSupply + defaultDebt
  BY DEF Ledger, TypeOK, ActiveDebtExact, DebtCoversUSDE
<1>12. acc.pendDebt \in Nat /\ Total(acc.troveDebt) \in Nat
  <2>1. \A x \in Borrowers : PendingDebts[x] \in Nat
    BY <1>10, PendingSumTypes
  <2>2. acc.pendDebt \in Nat
    BY <1>7, <1>9, <2>1, ConstantTypes, SumOfNaturals
  <2>3. \A x \in Borrowers : acc.troveDebt[x] \in Nat
    BY <1>6
  <2> QED BY <2>2, <2>3, TotalIsNat
<1>13. /\ troveDebtSupply' \in Nat /\ troveDebtSupply' = Total(troveDebt')
       /\ activeDebt' \in Nat /\ activeDebt' = troveDebtSupply' + gasPool'
       /\ gasPool' \in Nat /\ wallets' \in Nat /\ defaultDebt' \in Nat
       /\ wallets' + totalUSDEDeposits' <= troveDebtSupply' + defaultDebt'
       /\ wallets + totalUSDEDeposits = troveDebtSupply + defaultDebt /\ acc.pendDebt <= defaultDebt =>
            wallets' + totalUSDEDeposits' = troveDebtSupply' + defaultDebt'
  <2> DEFINE pend == acc.pendDebt
             gas == acc.gas
             redeemed == acc.redeemed
             supply == Total(acc.troveDebt)
             due == activeDebt + pend
             kept == Decreased(defaultDebt, pend)
  <2>1. /\ pend \in Nat /\ gas \in Nat /\ redeemed \in Nat /\ supply \in Nat
        /\ gas <= gasPool /\ redeemed <= wallets
        /\ supply + redeemed = troveDebtSupply + pend
    BY <1>1, <1>5, <1>6, <1>11, <1>12
  <2>2. /\ activeDebt' = Decreased(Decreased(due, gas), redeemed)
        /\ defaultDebt' = kept /\ wallets' = wallets - redeemed /\ gasPool' = gasPool - gas
        /\ troveDebtSupply' = troveDebtSupply + pend - redeemed
    BY <1>4
  <2>3. supply = Total(troveDebt')
    BY <1>2
  <2> HIDE DEF pend, gas, redeemed, supply
  <2>4. due \in Nat /\ due = supply + redeemed + gasPool
    BY <1>11, <2>1
  <2>5. kept \in Nat /\ kept >= defaultDebt - pend /\ (pend <= defaultDebt => kept = defaultDebt - pend)
    BY <1>11, <2>1, DecreasedIs
  <2> HIDE DEF due, kept
  <2>6. gas <= due /\ due - gas \in Nat /\ redeemed <= due - gas
    BY <1>11, <2>1, <2>4
  <2>7. activeDebt' = due - gas - redeemed
    BY <2>1, <2>2, <2>4, <2>6, DecreasedIs
  <2>8. troveDebtSupply' = supply /\ gasPool' \in Nat /\ wallets' \in Nat
    BY <1>11, <2>1, <2>2
  <2>9. activeDebt' \in Nat /\ activeDebt' = troveDebtSupply' + gasPool'
    BY <1>11, <2>1, <2>2, <2>4, <2>6, <2>7, <2>8
  <2>10. wallets' + totalUSDEDeposits' <= troveDebtSupply' + defaultDebt'
    BY <1>4, <1>11, <2>1, <2>2, <2>5
  <2>11. wallets + totalUSDEDeposits = troveDebtSupply + defaultDebt /\ pend <= defaultDebt =>
            wallets' + totalUSDEDeposits' = troveDebtSupply' + defaultDebt'
    BY <1>4, <1>11, <2>1, <2>2, <2>5
  <2> QED BY <2>1, <2>2, <2>3, <2>5, <2>8, <2>9, <2>10, <2>11 DEF pend
<1>14. ActiveDebtExact' /\ DebtCoversUSDE'
  BY <1>13 DEF ActiveDebtExact, DebtCoversUSDE
<1>15. USDEBacked /\ DebtRewardsCovered => USDEBacked'
  <2>1. DebtRewardsCovered => acc.pendDebt <= defaultDebt
    <3> DEFINE f == PendingDebts
    <3>1. \A x \in Borrowers : f[x] \in Nat
      BY <1>10, PendingSumTypes
    <3>2. acc.pendDebt = SumFunctionOnSet(f, touched)
      BY <1>7
    <3>3. DebtRewardsCovered => SumFunctionOnSet(f, Borrowers) <= defaultDebt
      BY DebtRewardsAreTotalled DEF Total
    <3> HIDE DEF f
    <3>4. SumFunctionOnSet(f, touched) <= SumFunctionOnSet(f, Borrowers) /\ SumFunctionOnSet(f, touched) \in Nat
          /\ SumFunctionOnSet(f, Borrowers) \in Nat
      BY <1>9, <3>1, ConstantTypes, SumOfPart, SumOfNaturals
    <3> QED BY <1>11, <3>2, <3>3, <3>4
  <2> QED BY <1>13, <2>1 DEF USDEBacked
\* The totals.
<1>16. totalStakes' \in Amounts /\ \A c \in Collaterals : totalStakes'[c] = Total(Col(stakes', c))
  <2>1. stakes' \in [Borrowers -> Amounts] /\ \A x \in Borrowers \ changed : stakes'[x] = stakes[x]
    BY <1>2, <1>5, <1>6
  <2> HIDE DEF changed
  <2> QED BY <1>3, <1>9, <1>10, <2>1, TotalStakesCorrected
<1>17. ASSUME NEW x \in Borrowers, ~IsActive(x)'
       PROVE  stakes'[x] = Zeros /\ eToken'[x] = Zeros /\ troveDebt'[x] = 0
  <2>1. CASE x \in closed
    BY <1>2, <1>5, <2>1
  <2>2. CASE x \notin closed
    <3>1. ~IsActive(x)
      BY <1>2, <1>17, <2>2 DEF IsActive
    <3>2. x \notin met /\ x \notin changed
      BY <1>8, <1>9, <3>1
    <3>3. stakes[x] = Zeros /\ eToken[x] = Zeros /\ troveDebt[x] = 0
      BY <1>10, <3>1 DEF Totals
    <3> QED BY <1>2, <1>5, <3>2, <3>3
  <2> QED BY <2>1, <2>2
<1>18. Totals'
  BY <1>13, <1>16, <1>17 DEF Totals
\* The promises.
<1>19. snapshotColl' \in [Borrowers -> Amounts] /\ snapshotDebt' \in [Borrowers -> Amounts]
  <2>1. /\ snapshotColl \in [Borrowers -> Amounts] /\ snapshotDebt \in [Borrowers -> Amounts]
        /\ E_Coll \in Amounts /\ E_USDEDebt \in Amounts /\ Zeros \in Amounts
    BY <1>10, PlusMinusTypes DEF TypeOK
  <2> QED BY <1>2, <2>1
<1>20. ASSUME NEW x \in D, NEW c \in Collaterals
       PROVE  /\ snapshotColl'[x][c] <= E_Coll[c] /\ snapshotDebt'[x][c] <= E_USDEDebt[c]
              /\ stakes'[x][c] = 0 \/ snapshotColl'[x][c] = E_Coll[c]
  <2>1. /\ x \in Borrowers /\ IsActive(x) /\ x \in met
        /\ E_Coll[c] \in Nat /\ E_USDEDebt[c] \in Nat /\ Zeros[c] = 0
    BY <1>9, <1>10, PlusMinusTypes DEF TypeOK, Amounts
  <2>2. CASE x \in closed
    <3>1. snapshotColl'[x] = Zeros /\ snapshotDebt'[x] = Zeros /\ stakes'[x] = Zeros
      BY <1>2, <1>5, <2>1, <2>2
    <3> QED BY <2>1, <3>1
  <2>3. CASE x \notin closed /\ x \in touched
    <3>1. snapshotColl'[x] = E_Coll /\ snapshotDebt'[x] = E_USDEDebt
      BY <1>2, <2>1, <2>3
    <3> QED BY <2>1, <3>1
  <2>4. CASE x \notin closed /\ x \notin touched
    <3>1. snapshotColl'[x] = snapshotColl[x] /\ snapshotDebt'[x] = snapshotDebt[x]
      BY <1>2, <2>1, <2>4
    <3>2. ~HasPendingRewards(x)
      BY <1>7, <2>1, <2>4
    <3>3. snapshotColl[x][c] = E_Coll[c]
      BY <1>10, <2>1, <3>2, AppliedIsPart
    <3>4. snapshotDebt[x][c] <= E_USDEDebt[c]
      BY <1>10, <2>1 DEF SnapshotsBehind
    <3> QED BY <2>1, <3>1, <3>3, <3>4
  <2> QED BY <2>2, <2>3, <2>4
<1>21. \A x \in Borrowers \ D : /\ stakes'[x] = stakes[x]
                                /\ snapshotColl'[x] = snapshotColl[x]
                                /\ snapshotDebt'[x] = snapshotDebt[x]
  BY <1>2, <1>5
<1>22. defaultColl' \in Amounts /\ \A c \in Collaterals : defaultColl'[c] = defaultColl[c] - acc.pendColl[c]
  <2>1. defaultColl \in Amounts
    BY <1>10 DEF TypeOK
  <2> QED BY <1>1, <1>4, <1>7, <2>1, PlusMinusTypes
<1> HIDE DEF D
<1>23. \A c \in Collaterals :
         DECIMAL_PRECISION * acc.pendColl[c]
           <= SumFunctionOnSet(PromisedTo(stakes, E_Coll, snapshotColl, c), D)
  BY <1>7, <1>9, <1>10, TouchedWerePromised
<1>24. SnapshotsBehind' /\ CollPromisesKept'
  <2> DEFINE a == acc.pendColl
  <2>1. a \in Amounts /\ \A c \in Collaterals :
           /\ defaultColl'[c] = defaultColl[c] - a[c]
           /\ DECIMAL_PRECISION * a[c]
                <= SumFunctionOnSet(PromisedTo(stakes, E_Coll, snapshotColl, c), D)
    BY <1>7, <1>22, <1>23
  <2> HIDE DEF a
  <2>2. stakes' \in [Borrowers -> Amounts]
    BY <1>2, <1>6
  <2> QED BY <1>4, <1>9, <1>10, <1>19, <1>20, <1>21, <2>1, <2>2, PromisesTakenIn
<1>25. NoDustTroves'
  <2>1. ASSUME NEW x \in Borrowers, IsActive(x)'
        PROVE  troveDebt'[x] >= MIN_NET_DEBT
    <3>1. x \notin closed
      BY <1>2, <2>1 DEF IsActive
    <3>2. IsActive(x)
      BY <1>2, <2>1, <3>1 DEF IsActive
    <3>3. x \in ActiveTroves \ closed
      BY <3>1, <3>2 DEF ActiveTroves
    <3> QED BY <1>2, <1>5, <3>3
  <2> QED BY <2>1 DEF NoDustTroves, ActiveTroves
\* The ActivePool.
<1>26. activeColl' \in Amounts /\ \A c \in Collaterals : activeColl'[c] = acc.pooled[c] - acc.drawn[c]
  <2> DEFINE f == acc.drawn
             g == acc.pooled
  <2>1. f \in Amounts /\ g \in Amounts
    BY <1>6
  <2>2. fees \in Amounts /\ Covers(f, fees)
    BY <2>1, FeesArePart
  <2>3. PayableToPools(fees, g) /\ PayableToUsers(toRedeemer, afterFees) /\ activeColl' = Minus(afterFees, toRedeemer)
        /\ toRedeemer = Minus(f, fees) /\ afterFees = Minus(g, fees)
    BY <1>1
  <2> HIDE DEF fees, f, g, toRedeemer, afterFees
  <2>4. toRedeemer \in Amounts /\ \A c \in Collaterals : toRedeemer[c] = f[c] - fees[c]
    BY <2>1, <2>2, <2>3, PlusMinusTypes
  <2>5. afterFees \in Amounts /\ \A c \in Collaterals : afterFees[c] = g[c] - fees[c]
    BY <2>1, <2>2, <2>3, PayableIsCovered
  <2>6. activeColl' \in Amounts /\ \A c \in Collaterals : activeColl'[c] = afterFees[c] - toRedeemer[c]
    BY <2>3, <2>4, <2>5, PayableIsCovered
  <2>7. ASSUME NEW c \in Collaterals
        PROVE  activeColl'[c] = g[c] - f[c]
    <3>1. f[c] \in Int /\ g[c] \in Int /\ fees[c] \in Int
      BY <2>1, <2>2 DEF Amounts
    <3>2. /\ toRedeemer[c] = f[c] - fees[c] /\ afterFees[c] = g[c] - fees[c]
          /\ activeColl'[c] = afterFees[c] - toRedeemer[c]
      BY <2>4, <2>5, <2>6
    <3> QED BY <3>1, <3>2
  <2> QED BY <2>6, <2>7 DEF f, g
<1>27. OneCollateral /\ ETokensHeld => ETokensHeld'
  <2>1. ASSUME NEW c \in Collaterals, ETokensPooled(acc)
        PROVE  Total(Col(eToken', c)) <= activeColl'[c]
    <3>1. Total(Col(eToken', c)) + acc.drawn[c] <= acc.pooled[c]
      BY <1>2, <2>1 DEF ETokensPooled
    <3>2. \A x \in Borrowers : Col(eToken', c)[x] \in Nat
      <4>1. eToken' \in [Borrowers -> Amounts]
        BY <1>2, <1>6
      <4> QED BY <4>1, ColIsAt
    <3>3. Total(Col(eToken', c)) \in Nat
      BY <3>2, TotalIsNat
    <3>4. acc.drawn[c] \in Nat /\ acc.pooled[c] \in Nat
      BY <1>6 DEF Amounts
    <3> QED BY <1>26, <3>1, <3>3, <3>4
  <2> QED BY <1>5, <2>1 DEF ETokensHeld
\* The types.
<1>28. status' \in [Borrowers -> Statuses] /\ recorded' \in [Borrowers -> Nat]
  BY <1>2, <1>6, <1>10 DEF TypeOK, Statuses
<1>29. /\ price' \in Prices /\ USDE_GAS_COMPENSATION' \in GasCompensations
       /\ E_Coll' \in Amounts /\ E_USDEDebt' \in Amounts
       /\ lastCollError' \in Amounts /\ lastUSDEDebtError' \in Amounts
       /\ totalStakesSnapshot' \in Amounts /\ totalCollateralSnapshot' \in Amounts
       /\ totalUSDEDeposits' \in Nat
  BY <1>4, <1>10 DEF TypeOK
<1>30. /\ arrayIndex' \in [Borrowers -> Nat] /\ surplus' \in [Borrowers -> Amounts]
       /\ stakes' \in [Borrowers -> Amounts] /\ eToken' \in [Borrowers -> Amounts]
       /\ troveDebt' \in [Borrowers -> Nat]
  BY <1>2, <1>6
<1>31. TypeOK'
  BY <1>13, <1>16, <1>19, <1>22, <1>26, <1>28, <1>29, <1>30, BooksTypes DEF TypeOK
<1>32. OneCollateral => ETokensHeld'
  BY <1>27 DEF Ledger
<1> QED BY <1>14, <1>15, <1>18, <1>24, <1>25, <1>31, <1>32 DEF Ledger, LedgerStep

\* A redemption ends in the SettleRedemption of a walk that kept its invariants.
SettlesRedemption(acc, met, amount, rate) ==
  /\ RedemptionWalk(acc, met) /\ RedemptionLedger(acc, met, amount)
  /\ amount <= wallets /\ SettleRedemption(acc, rate)

\* A redemption ends in the settling of a walk that kept its invariants.
LEMMA RedeemCollateralWalks ==
  ASSUME Books, Ledger, NEW amount \in Nat, NEW p \in DOMAIN list, NEW n \in Nat, NEW hintFresh,
         NEW rate \in 0..DECIMAL_PRECISION, RedeemCollateral(amount, p, n, hintFresh, rate)
  PROVE  \E acc, met : SettlesRedemption(acc, met, amount, rate)
<1>1. p \in 1..Len(list)
  BY LenProperties DEF Books, OrderedList, OrderedBy
<1>2. amount <= wallets /\ SettleRedemption(RedeemAlong(PathFrom(p, n), amount, hintFresh), rate)
  BY DEF RedeemCollateral
<1>3. PICK met : /\ RedemptionWalk(RedeemAlong(PathFrom(p, n), amount, hintFresh), met)
                 /\ RedemptionLedger(RedeemAlong(PathFrom(p, n), amount, hintFresh), met, amount)
  <2> DEFINE path == PathFrom(p, n)
  <2>1. /\ Len(path) \in Nat /\ \A i \in 1..Len(path) : path[i] \in ActiveTroves
        /\ \A i, j \in 1..Len(path) : path[i] = path[j] => i = j
    BY <1>1, PathIsDistinct
  <2> HIDE DEF path
  <2>2. \E met : /\ RedemptionWalk(RedeemAlong(path, amount, hintFresh), met)
                 /\ RedemptionLedger(RedeemAlong(path, amount, hintFresh), met, amount)
    BY <2>1, RedeemAlongKeepsLedger
  <2> QED BY <2>2 DEF path
<1> QED BY <1>2, <1>3 DEF SettlesRedemption

\* Every redemption but a refresh ends in such a settling.
LEMMA RedemptionWalks ==
  ASSUME Books, Ledger, Redemption
  PROVE  \/ \E b \in Borrowers : UpdateTrove(b)
         \/ \E amount \in Nat, rate \in 0..DECIMAL_PRECISION : \E acc, met :
              SettlesRedemption(acc, met, amount, rate)
<1>1. Cardinality(Borrowers) \in Nat
  BY TroveManagerAssumption, FS_CardinalityType
<1>2. /\ \A amount \in RedemptionAmounts : amount \in Nat
      /\ \A rate \in RedemptionRates : rate \in 0..DECIMAL_PRECISION
      /\ \A b \in Refreshed : b \in Borrowers
  BY ERDAssumption, RedemptionsAssumption
<1>3. \A n \in 1..Cardinality(Borrowers) : n \in Nat
  BY <1>1
<1> QED BY <1>2, <1>3, RedeemCollateralWalks DEF Redemption

-----------------------------------------------------------------------------
(* The invariant holds.                                                    *)

\* Before anything was called there are no amounts.
LEMMA InitTotals ==
  ASSUME NEW f, \A x \in Borrowers : f[x] = 0
  PROVE  Total(f) = 0
BY ConstantTypes, SumOfZeros DEF Total

\* The initial state has the ledger.
LEMMA InitLedger == Init => Ledger
<1> SUFFICES ASSUME Init PROVE Ledger
  OBVIOUS
<1>1. /\ status = [b \in Borrowers |-> "nonExistent"] /\ TroveOwners = <<>>
      /\ arrayIndex = [b \in Borrowers |-> 0]
      /\ stakes = [b \in Borrowers |-> Zeros] /\ totalStakes = Zeros
      /\ snapshotColl = [b \in Borrowers |-> Zeros] /\ snapshotDebt = [b \in Borrowers |-> Zeros]
      /\ totalStakesSnapshot = Zeros /\ totalCollateralSnapshot = Zeros
      /\ E_Coll = Zeros /\ E_USDEDebt = Zeros /\ lastCollError = Zeros /\ lastUSDEDebtError = Zeros
      /\ troveDebt = [b \in Borrowers |-> 0] /\ troveDebtSupply = 0
      /\ eToken = [b \in Borrowers |-> Zeros] /\ surplus = [b \in Borrowers |-> Zeros]
      /\ activeColl = Zeros /\ defaultColl = Zeros /\ activeDebt = 0 /\ defaultDebt = 0
      /\ wallets = 0 /\ totalUSDEDeposits = 0 /\ gasPool = 0
      /\ price \in Prices /\ USDE_GAS_COMPENSATION \in GasCompensations
      /\ InitSorted
  BY DEF Init, InitTroveManager
<1>2. Zeros \in Amounts /\ \A c \in Collaterals : Zeros[c] = 0
  BY PlusMinusTypes
<1>3. TypeOK
  <2>1. list = <<>> /\ recorded \in [Borrowers -> Nat]
    BY <1>1 DEF InitSorted, Borrowers
  <2>2. "nonExistent" \in Statuses
    BY DEF Statuses
  <2> QED BY <1>1, <1>2, <2>1, <2>2 DEF TypeOK
<1>4. SnapshotsBehind
  BY <1>1, <1>2 DEF SnapshotsBehind
<1>5. \A b \in Borrowers : ~IsActive(b)
  BY <1>1 DEF IsActive
<1>6. Totals
  <2>1. ASSUME NEW c \in Collaterals
        PROVE  Total(Col(stakes, c)) = 0
    <3>1. \A x \in Borrowers : Col(stakes, c)[x] = 0
      BY <1>1, <1>2 DEF Col
    <3> QED BY <3>1, InitTotals
  <2>2. Total(troveDebt) = 0
    BY <1>1, InitTotals
  <2> QED BY <1>1, <1>2, <2>1, <2>2 DEF Totals
<1>7. NoDustTroves /\ ActiveDebtExact /\ DebtCoversUSDE
  BY <1>1, <1>5 DEF NoDustTroves, ActiveTroves, ActiveDebtExact, DebtCoversUSDE
<1>8. CollPromisesKept
  <2>1. ASSUME NEW c \in Collaterals
        PROVE  Total(PromisedTo(stakes, E_Coll, snapshotColl, c)) = 0
    <3>1. \A x \in Borrowers : PromisedTo(stakes, E_Coll, snapshotColl, c)[x] = 0
      BY <1>1, <1>2 DEF PromisedTo
    <3> QED BY <3>1, InitTotals
  <2> QED BY <1>1, <1>2, <2>1, ConstantTypes DEF CollPromisesKept
<1>9. ETokensHeld
  <2>1. ASSUME NEW c \in Collaterals
        PROVE  Total(Col(eToken, c)) = 0
    <3>1. \A x \in Borrowers : Col(eToken, c)[x] = 0
      BY <1>1, <1>2 DEF Col
    <3> QED BY <3>1, InitTotals
  <2> QED BY <1>1, <1>2, <2>1 DEF ETokensHeld
<1> QED BY <1>3, <1>4, <1>6, <1>7, <1>8, <1>9 DEF Ledger

\* A step that changes nothing keeps the ledger.
LEMMA StutteringKeepsLedger ==
  ASSUME Ledger, UNCHANGED vars
  PROVE  LedgerStep
<1>1. UNCHANGED <<stakeVars, snapshotVars, rewardVars, debtVars, eToken, activeColl, defaultColl, status>>
  BY DEF vars, troveVars, poolVars
<1>2. /\ SnapshotsBehind' /\ Totals' /\ NoDustTroves' /\ CollPromisesKept'
      /\ ETokensHeld => ETokensHeld'
  BY <1>1, TrovesLeftAlone
<1>3. TypeOK'
  BY DEF Ledger, TypeOK, vars, troveVars, sortedVars, stakeVars, snapshotVars, systemSnapshotVars,
         rewardVars, debtVars, poolVars, usdeVars, envVars
<1>4. /\ ActiveDebtExact' /\ DebtCoversUSDE' /\ (USDEBacked => USDEBacked')
  BY DEF Ledger, ActiveDebtExact, DebtCoversUSDE, USDEBacked, vars, debtVars, poolVars, usdeVars
<1> QED BY <1>2, <1>3, <1>4 DEF LedgerStep, Ledger

\* Every step keeps the ledger.
LEMMA NextKeepsLedger == Books /\ Books' /\ Ledger /\ [Next]_vars => LedgerStep
<1> SUFFICES ASSUME Books, Books', Ledger, [Next]_vars PROVE LedgerStep
  OBVIOUS
<1>2. CASE \E b \in Borrowers : BorrowerCall(b)
  BY <1>2, BorrowerCallKeepsLedger
<1>3. CASE Liquidation
  BY <1>3, LiquidationWalks, SettleKeepsLedger
<1>4. CASE Redemption
  BY <1>4, RedemptionWalks, SettleRedemptionKeepsLedger, UpdateTroveKeepsLedger DEF SettlesRedemption
<1>5. CASE Environment
  BY <1>5, EnvironmentKeepsLedger
<1>6. CASE UNCHANGED vars
  BY <1>6, StutteringKeepsLedger
<1> QED BY <1>2, <1>3, <1>4, <1>5, <1>6 DEF Next

\* Whatever is called in whatever order, the accounts hold: the types, the sums
\* of the troves' amounts, the debts of the pools, and what the sums per unit
\* staked promise.
THEOREM LedgerHolds == Spec => []Ledger
<1>1. Books /\ Books' /\ Ledger /\ [Next]_vars => Ledger'
  BY NextKeepsLedger DEF LedgerStep
<1> QED BY <1>1, InitLedger, BooksAlwaysAgree, PTL DEF Spec

\* Every variable keeps its type: no subtraction that the code makes without a
\* guard of its own goes below zero.
THEOREM TypesHold == Spec => []TypeOK
<1>1. Ledger => TypeOK
  BY DEF Ledger
<1> QED BY <1>1, LedgerHolds, PTL

\* The running totals of stakes and debts are the sums over the troves, and a
\* trove that is not active holds nothing.
THEOREM TotalsAlwaysAddUp == Spec => []TotalsAddUp
<1>1. ASSUME Ledger
      PROVE  TotalsAddUp
  <2>1. TypeOK /\ Totals
    BY <1>1 DEF Ledger
  <2>2. totalStakes = TotalColl(stakes)
    <3>1. totalStakes \in Amounts /\ \A c \in Collaterals : totalStakes[c] = Total(Col(stakes, c))
      BY <2>1 DEF TypeOK, Totals
    <3>2. ASSUME NEW c \in Collaterals
          PROVE  TotalColl(stakes)[c] = Total(Col(stakes, c))
      <4>1. TotalColl(stakes)[c] = SumFunction(Col(stakes, c))
        BY DEF TotalColl, Col
      <4>2. DOMAIN Col(stakes, c) = Borrowers
        BY DEF Col
      <4> QED BY <4>1, <4>2, SumsOverOwners
    <3>3. TotalColl(stakes) = [c \in Collaterals |-> totalStakes[c]]
      BY <3>1, <3>2 DEF TotalColl
    <3> QED BY <3>1, <3>3 DEF Amounts
  <2>3. troveDebtSupply = SumFunction(troveDebt)
    BY <2>1, SumsOverOwners DEF TypeOK, Totals
  <2>4. \A b \in Borrowers \ ActiveTroves : stakes[b] = Zeros /\ eToken[b] = Zeros /\ troveDebt[b] = 0
    BY <2>1 DEF Totals, ActiveTroves
  <2> QED BY <2>2, <2>3, <2>4 DEF TotalsAddUp
<1> QED BY <1>1, LedgerHolds, PTL

\* An open trove owes at least the minimum.
THEOREM NoDustEver == Spec => []NoDustTroves
<1>1. Ledger => NoDustTroves
  BY DEF Ledger
<1> QED BY <1>1, LedgerHolds, PTL

\* The debt that the ActivePool records is what the open troves owe with their
\* reserves: no decrease of it ever stops at zero.
THEOREM ActiveDebtAlwaysExact == Spec => []ActiveDebtExact
<1>1. Ledger => ActiveDebtExact
  BY DEF Ledger
<1> QED BY <1>1, LedgerHolds, PTL

\* No USDE circulates that is not owed: minting, fees, offsets, redistributions,
\* compensations and redemptions never leave more USDE than debt.
THEOREM NeverUnbacked == Spec => []DebtCoversUSDE
<1>1. Ledger => DebtCoversUSDE
  BY DEF Ledger
<1> QED BY <1>1, LedgerHolds, PTL

\* While the DefaultPool can pay all debt rewards, USDE and debts are equal.
THEOREM BackedWhileRewardsCovered == Spec /\ []DebtRewardsCovered => []USDEBacked
<1>1. Init => USDEBacked
  BY DEF Init, InitTroveManager, USDEBacked
<1>2. Books /\ Books' /\ Ledger /\ DebtRewardsCovered /\ USDEBacked /\ [Next]_vars => USDEBacked'
  BY NextKeepsLedger DEF LedgerStep
<1> QED BY <1>1, <1>2, LedgerHolds, BooksAlwaysAgree, PTL DEF Spec

\* The DefaultPool can pay the pending collateral of all troves, in any order.
THEOREM CollRewardsAlwaysCovered == Spec => []CollRewardsCovered
<1>1. ASSUME Ledger
      PROVE  CollRewardsCovered
  <2>1. TypeOK /\ SnapshotsBehind /\ CollPromisesKept
    BY <1>1 DEF Ledger
  <2>2. ASSUME NEW c \in Collaterals
        PROVE  TotalColl([b \in Borrowers |-> PendingCollReward(b)])[c] <= defaultColl[c]
    <3> DEFINE f == PendingColls(c)
               g == PromisedTo(stakes, E_Coll, snapshotColl, c)
               P == DECIMAL_PRECISION
    <3>1. TotalColl([b \in Borrowers |-> PendingCollReward(b)])[c] = Total(f)
      <4>1. TotalColl([b \in Borrowers |-> PendingCollReward(b)])[c] = SumFunction(f)
        BY DEF TotalColl, PendingColls
      <4>2. DOMAIN f = Borrowers
        BY DEF PendingColls
      <4> QED BY <4>1, <4>2, SumsOverOwners
    <3>2. P * SumFunctionOnSet(f, Borrowers) <= SumFunctionOnSet(g, Borrowers)
      BY <2>1, TouchedWerePromised
    <3>3. Total(g) + lastCollError[c] <= P * defaultColl[c]
      BY <2>1 DEF CollPromisesKept
    <3>4. \A x \in Borrowers : f[x] \in Nat
      BY <2>1, PendingSumTypes
    <3>5. \A x \in Borrowers : g[x] \in Nat
      BY <2>1, AppliedIsPart DEF PromisedTo
    <3>6. lastCollError[c] \in Nat /\ defaultColl[c] \in Nat /\ P \in Nat \ {0}
      BY <2>1, ConstantTypes DEF TypeOK, Amounts
    <3> HIDE DEF f, g, P
    <3>7. Total(f) \in Nat /\ Total(g) \in Nat
      BY <3>4, <3>5, TotalIsNat
    <3> DEFINE m == Total(f)
               d == defaultColl[c]
    <3>8. m \in Nat /\ d \in Nat
      BY <3>6, <3>7
    <3>9. P * m \in Nat /\ P * d \in Nat
      BY <3>6, <3>8, Z3
    <3>10. P * m <= P * d
      <4>1. P * m <= Total(g) /\ Total(g) + lastCollError[c] <= P * d
        BY <3>2, <3>3 DEF Total
      <4> HIDE DEF m, d
      <4> QED BY <3>6, <3>7, <3>9, <4>1
    <3>11. m <= d
      <4> HIDE DEF m, d
      <4> QED BY <3>6, <3>8, <3>10, Z3
    <3> QED BY <3>1, <3>11
  <2> QED BY <2>2 DEF CollRewardsCovered, Covers
<1> QED BY <1>1, LedgerHolds, PTL

\* With one collateral, the ActivePool holds the collateral of every EToken.
THEOREM OneCollateralIsHeld == Spec => [](OneCollateral => CollateralHeld)
<1>1. Ledger => (OneCollateral => CollateralHeld)
  <2> SUFFICES ASSUME Ledger, OneCollateral PROVE CollateralHeld
    OBVIOUS
  <2>1. ETokensHeld
    BY DEF Ledger
  <2>2. ASSUME NEW c \in Collaterals
        PROVE  ETokenSupply(c) <= activeColl[c]
    <3>1. ETokenSupply(c) = SumFunction(Col(eToken, c))
      BY DEF ETokenSupply, Col
    <3>2. DOMAIN Col(eToken, c) = Borrowers
      BY DEF Col
    <3> QED BY <2>1, <3>1, <3>2, SumsOverOwners DEF ETokensHeld
  <2> QED BY <2>2 DEF CollateralHeld
<1> QED BY <1>1, LedgerHolds, PTL

-----------------------------------------------------------------------------
(* What is drawn to make up a value is worth no more than the value, and   *)
(* comes from the collaterals of lowest priority.                          *)

RankOf(c) == CHOOSE i \in DOMAIN CollateralSupport : CollateralSupport[i] = c
Below(k) == {x \in Collaterals : RankOf(x) > k}
LeftFor(f, value, c) == value - SumFunctionOnSet(Values(f), DrawnBefore(c))

\* Priorities are the places in collateralSupport.
LEMMA RankTypes ==
  /\ Len(CollateralSupport) \in Nat
  /\ \A c \in Collaterals : /\ RankOf(c) \in 1..Len(CollateralSupport)
                            /\ CollateralSupport[RankOf(c)] = c
  /\ \A i \in 1..Len(CollateralSupport) : /\ CollateralSupport[i] \in Collaterals
                                          /\ RankOf(CollateralSupport[i]) = i
<1> DEFINE S == CollateralSupport
<1>1. S \in Seq(Collaterals) /\ ToSet(S) = Collaterals /\ IsInjective(S)
  BY TroveManagerAssumption
<1>2. Len(S) \in Nat /\ DOMAIN S = 1..Len(S)
  BY <1>1, LenProperties
<1>3. \A c \in Collaterals : RankOf(c) \in 1..Len(S) /\ S[RankOf(c)] = c
  BY <1>1, <1>2 DEF RankOf, ToSet
<1>4. \A i \in 1..Len(S) : S[i] \in Collaterals
  BY <1>1, <1>2 DEF ToSet
<1>5. \A i \in 1..Len(S) : RankOf(S[i]) = i
  BY <1>1, <1>2, <1>3, <1>4 DEF IsInjective
<1> QED BY <1>2, <1>3, <1>4, <1>5

\* What is drawn before a collateral is what lies below it.
LEMMA DrawnBeforeIs ==
  ASSUME NEW c \in Collaterals
  PROVE  DrawnBefore(c) = Below(RankOf(c)) /\ DrawnBefore(c) \in SUBSET Collaterals
BY DEF DrawnBefore, Below, RankOf

\* The split of the last collateral drawn, which is rounded down twice.
LEMMA SplitIsPart ==
  ASSUME NEW f \in Nat, NEW p \in Nat, NEW v \in Nat \ {0}, v = f * p, NEW left \in Nat,
         NEW d \in Nat \ {0}
  PROVE  ((f * ((left * d) \div v)) \div d) * p <= left
<1> DEFINE q == (left * d) \div v
           r == (f * q) \div d
<1>1. left * d \in Nat
  BY Z3
<1>2. q \in Nat /\ v * q <= left * d
  BY <1>1, Division
<1> HIDE DEF q
<1>3. f * q \in Nat
  BY <1>2, Z3
<1>4. r \in Nat /\ d * r <= f * q /\ d * r \in Nat
  BY <1>3, Division
<1> HIDE DEF r
<1>5. (d * r) * p <= (f * q) * p
  BY <1>3, <1>4, Z3
<1>6. (f * q) * p = v * q
  BY <1>2, Z3
<1>7. (d * r) * p = (r * p) * d /\ r * p \in Nat
  BY <1>4, Z3
<1> DEFINE worth == r * p
<1>8. worth \in Nat /\ worth * d \in Nat /\ v * q \in Nat
  BY <1>2, <1>7, Z3
<1>9. worth * d <= left * d
  BY <1>1, <1>2, <1>5, <1>6, <1>7, <1>8
<1> HIDE DEF worth
<1>10. worth <= left
  BY <1>8, <1>9, Z3
<1> QED BY <1>10 DEF worth, r, q

\* What is drawn of one collateral: a part of it, and no more than is left.
LEMMA DrawnOfOne ==
  ASSUME Priced, NEW f \in Amounts, NEW value \in Nat, NEW c \in Collaterals
  PROVE  /\ LeftFor(f, value, c) \in Int
         /\ Values(f)[c] \in Nat /\ Values(Drawn(f, value))[c] \in Nat
         /\ Values(Drawn(f, value))[c] <= Values(f)[c]
         /\ LeftFor(f, value, c) <= 0 => Drawn(f, value)[c] = 0 /\ Values(Drawn(f, value))[c] = 0
         /\ LeftFor(f, value, c) > 0 => Values(Drawn(f, value))[c] <= LeftFor(f, value, c)
         /\ LeftFor(f, value, c) > Values(f)[c] => Drawn(f, value)[c] = f[c]
<1> DEFINE left == LeftFor(f, value, c)
           v == Values(f)[c]
           drawn == Drawn(f, value)[c]
           p == price[c]
<1>1. f[c] \in Nat /\ p \in Nat \ {0} /\ v = f[c] * p /\ v \in Nat /\ Values(f) \in Amounts
  BY ValueIsNat DEF Amounts, Priced, Values
<1>2. left \in Int
  <2> DEFINE g == Values(f)
  <2>1. \A x \in Collaterals : g[x] \in Nat
    BY <1>1 DEF Amounts
  <2> HIDE DEF g
  <2>2. SumFunctionOnSet(g, DrawnBefore(c)) \in Nat
    BY <2>1, DrawnBeforeIs, ConstantTypes, SumOfNaturals
  <2> QED BY <2>2 DEF LeftFor, g
<1>3. drawn = IF left <= 0 \/ v = 0 THEN 0
              ELSE IF v < left THEN f[c]
              ELSE (f[c] * ((left * DECIMAL_PRECISION) \div v)) \div DECIMAL_PRECISION
  BY DEF Drawn, LeftFor
<1>4. Drawn(f, value) \in Amounts /\ Covers(f, Drawn(f, value))
  BY DrawnIsPart
<1>5. drawn \in Nat /\ drawn <= f[c] /\ Values(Drawn(f, value))[c] = drawn * p
  BY <1>4 DEF Amounts, Covers, Values
<1> HIDE DEF left, v, drawn, p
<1>6. drawn * p \in Nat /\ drawn * p <= v
  BY <1>1, <1>5, Z3
<1>7. left <= 0 => drawn = 0 /\ drawn * p = 0
  BY <1>1, <1>3
<1>8. left > 0 => drawn * p <= left
  <2> SUFFICES ASSUME left > 0 PROVE drawn * p <= left
    OBVIOUS
  <2>1. CASE v = 0
    <3>1. drawn = 0
      BY <1>3, <2>1
    <3> QED BY <1>1, <1>2, <3>1
  <2>2. CASE v # 0 /\ v < left
    BY <1>1, <1>2, <1>6, <2>2
  <2>3. CASE v # 0 /\ ~(v < left)
    <3>1. drawn = (f[c] * ((left * DECIMAL_PRECISION) \div v)) \div DECIMAL_PRECISION
      BY <1>2, <1>3, <2>3
    <3>2. left \in Nat /\ v \in Nat \ {0}
      BY <1>1, <1>2, <2>3
    <3>3. ((f[c] * ((left * DECIMAL_PRECISION) \div v)) \div DECIMAL_PRECISION) * p <= left
      BY <1>1, <3>2, ConstantTypes, SplitIsPart
    <3> QED BY <3>1, <3>3
  <2> QED BY <2>1, <2>2, <2>3
<1>9. left > v => drawn = f[c]
  <2> SUFFICES ASSUME left > v PROVE drawn = f[c]
    OBVIOUS
  <2>1. CASE v = 0
    <3>1. f[c] = 0
      BY <1>1, <2>1, Z3
    <3> QED BY <1>5, <3>1
  <2>2. CASE v # 0
    BY <1>1, <1>2, <1>3, <2>2
  <2> QED BY <2>1, <2>2
<1> QED BY <1>1, <1>2, <1>5, <1>6, <1>7, <1>8, <1>9 DEF left, v, drawn

\* What is drawn for a value is worth no more than it.
LEMMA DrawnIsWorth ==
  ASSUME Priced, NEW f \in Amounts, NEW value \in Nat
  PROVE  ValueOf(Drawn(f, value)) <= value
<1> DEFINE v == Values(f)
           w == Values(Drawn(f, value))
           n == Len(CollateralSupport)
           T == {i \in 0..n : SumFunctionOnSet(w, Below(n - i)) <= value}
<1>1. \A c \in Collaterals : v[c] \in Nat /\ w[c] \in Nat /\ w[c] <= v[c]
  BY DrawnOfOne
<1>2. n \in Nat
  BY RankTypes
<1>3. \A k : Below(k) \in SUBSET Collaterals
  BY DEF Below
<1>4. 0 \in T
  <2>1. Below(n - 0) = {}
    BY <1>2, RankTypes DEF Below
  <2>2. SumFunctionOnSet(w, {}) = 0
    BY SumOfNone
  <2> QED BY <1>2, <2>1, <2>2
<1>5. ASSUME NEW i \in 0..(n - 1), i \in T
      PROVE  i + 1 \in T
  <2> DEFINE k == n - (i + 1)
             c == CollateralSupport[k + 1]
             B == Below(k + 1)
  <2>1. k \in Nat /\ k + 1 \in 1..n /\ k + 1 = n - i /\ i + 1 \in 0..n
    BY <1>2
  <2>2. c \in Collaterals /\ RankOf(c) = k + 1
    BY <2>1, RankTypes
  <2>3. Below(k) = B \cup {c} /\ c \notin B
    <3>1. \A x \in Collaterals : RankOf(x) \in Nat /\ (RankOf(x) = k + 1 => x = c)
      BY RankTypes
    <3>2. \A x \in Collaterals : RankOf(x) > k <=> RankOf(x) > k + 1 \/ x = c
      BY <2>1, <2>2, <3>1
    <3> QED BY <2>1, <2>2, <3>2 DEF Below
  <2>4. SumFunctionOnSet(w, B) <= value
    BY <1>5, <2>1
  <2>5. DrawnBefore(c) = B /\ B \in SUBSET Collaterals
    BY <1>3, <2>2, DrawnBeforeIs
  <2> DEFINE left == LeftFor(f, value, c)
  <2>6. /\ left = value - SumFunctionOnSet(v, B) /\ left \in Int
        /\ left <= 0 => w[c] = 0
        /\ left > 0 => w[c] <= left
    BY <2>2, <2>5, DrawnOfOne DEF LeftFor
  <2> HIDE DEF v, w, c, B, left, k
  <2>7. /\ SumFunctionOnSet(w, B) \in Nat /\ SumFunctionOnSet(v, B) \in Nat
        /\ SumFunctionOnSet(w, B) <= SumFunctionOnSet(v, B)
    <3>1. IsFiniteSet(B) /\ \A x \in B : w[x] \in Int /\ v[x] \in Int /\ w[x] <= v[x]
      BY <1>1, <2>5, ConstantTypes, FS_Subset
    <3>2. SumFunctionOnSet(w, B) <= SumFunctionOnSet(v, B)
      BY <3>1, SumMonotone
    <3> QED BY <1>1, <2>5, <3>2, ConstantTypes, SumOfNaturals
  <2>8. SumFunctionOnSet(w, B \cup {c}) = w[c] + SumFunctionOnSet(w, B)
    <3>1. \A x \in Collaterals : w[x] \in Int
      BY <1>1
    <3> QED BY <2>2, <2>3, <2>5, <3>1, ConstantTypes, SumWith
  <2>9. SumFunctionOnSet(w, B \cup {c}) <= value
    BY <1>1, <2>2, <2>4, <2>6, <2>7, <2>8
  <2> QED BY <2>1, <2>3, <2>9 DEF k
<1> HIDE DEF T
<1>6. n \in T
  <2>1. 0..n \subseteq T
    BY <1>2, <1>4, <1>5, SetInduction
  <2> QED BY <1>2, <2>1
<1>7. SumFunctionOnSet(w, Below(n - n)) <= value
  BY <1>6 DEF T
<1>8. Below(n - n) = Collaterals
  BY <1>2, RankTypes DEF Below
<1>9. Drawn(f, value) \in Amounts
  BY DrawnIsPart
<1>10. ValueOf(Drawn(f, value)) = SumFunctionOnSet(w, Collaterals)
  BY <1>9, ValueIsNat, SumsOfAmounts DEF ValueOf
<1> QED BY <1>7, <1>8, <1>10

\* Of a collateral drawn from, all that lies below is drawn in full.
LEMMA BelowIsDrawn ==
  ASSUME Priced, NEW f \in Amounts, NEW value \in Nat,
         NEW high \in Collaterals, NEW low \in Collaterals, RankOf(high) < RankOf(low),
         Drawn(f, value)[high] # 0
  PROVE  Drawn(f, value)[low] = f[low]
<1> DEFINE v == Values(f)
           B == DrawnBefore(high)
           A == DrawnBefore(low)
<1>1. \A c \in Collaterals : v[c] \in Nat
  BY DrawnOfOne
<1>2. LeftFor(f, value, high) \in Int /\ LeftFor(f, value, high) > 0
  BY DrawnOfOne
<1>3. RankOf(high) \in Nat /\ RankOf(low) \in Nat /\ \A x \in Collaterals : RankOf(x) \in Nat
  BY RankTypes
<1>4. /\ B = Below(RankOf(high)) /\ B \in SUBSET Collaterals
      /\ A = Below(RankOf(low)) /\ A \in SUBSET Collaterals
  BY DrawnBeforeIs
<1>5. A \cup {low} \in SUBSET B /\ low \notin A
  BY <1>3, <1>4 DEF Below
<1>6. LeftFor(f, value, high) = value - SumFunctionOnSet(v, B)
      /\ LeftFor(f, value, low) = value - SumFunctionOnSet(v, A)
  BY DEF LeftFor
<1> HIDE DEF v, A, B
<1>7. SumFunctionOnSet(v, A \cup {low}) = v[low] + SumFunctionOnSet(v, A)
  <2>1. \A x \in Collaterals : v[x] \in Int
    BY <1>1
  <2> QED BY <1>4, <1>5, <2>1, ConstantTypes, SumWith
<1>8. SumFunctionOnSet(v, A \cup {low}) <= SumFunctionOnSet(v, B)
  <2>1. IsFiniteSet(B) /\ \A x \in B : v[x] \in Nat
    BY <1>1, <1>4, ConstantTypes, FS_Subset
  <2> QED BY <1>5, <2>1, SumOfPart
<1>9. /\ SumFunctionOnSet(v, A \cup {low}) \in Nat /\ SumFunctionOnSet(v, B) \in Nat
      /\ SumFunctionOnSet(v, A) \in Nat
  <2>1. A \cup {low} \in SUBSET Collaterals
    BY <1>4
  <2> QED BY <1>1, <1>4, <2>1, ConstantTypes, SumOfNaturals
<1>10. LeftFor(f, value, low) > v[low]
  BY <1>1, <1>2, <1>6, <1>7, <1>8, <1>9
<1> QED BY <1>10, DrawnOfOne DEF v

-----------------------------------------------------------------------------
(* What the owner of a closed trove may claim.                             *)

ClaimOf(b, s) ==
  \/ status'[b] = "closedByOwner" /\ s = Zeros
  \/ status'[b] = "closedByLiquidation" /\ LiquidatedClaim(b, s)
  \/ status'[b] = "closedByRedemption" /\ RedeemedClaim(b, s)

ClaimsStep ==
  \A b \in Borrowers : IsActive(b) /\ ~IsActive(b)' =>
    \E s \in Amounts : surplus'[b] = Plus(surplus[b], s) /\ ClaimOf(b, s)

\* A borrower closes one trove at most, and then without a surplus.
LEMMA BorrowerCallClaims ==
  ASSUME Ledger, NEW x \in Borrowers, BorrowerCall(x)
  PROVE  ClaimsStep
<1>1. TypeOK
  BY DEF Ledger
<1>2. \/ \A b \in Borrowers : IsActive(b) => IsActive(b)'
      \/ status' = [status EXCEPT ![x] = "closedByOwner"] /\ surplus' = surplus
  <2>1. ASSUME NEW coll, NEW amount, NEW rate, OpenTrove(x, coll, amount, rate)
        PROVE  \A b \in Borrowers : IsActive(b) => IsActive(b)'
    <3>1. status' = [status EXCEPT ![x] = "active"]
      BY <2>1 DEF OpenTrove
    <3> QED BY <1>1, <3>1 DEF IsActive, TypeOK
  <2>2. ASSUME NEW in, NEW out, NEW change, NEW isIncrease, NEW rate,
               AdjustTrove(x, in, out, change, isIncrease, rate)
        PROVE  \A b \in Borrowers : IsActive(b) => IsActive(b)'
    <3>1. status' = status
      BY <2>2 DEF AdjustTrove
    <3> QED BY <3>1 DEF IsActive
  <2>3. CloseTrove(x) => status' = [status EXCEPT ![x] = "closedByOwner"] /\ surplus' = surplus
    BY DEF CloseTrove
  <2>4. ClaimCollateral(x) => \A b \in Borrowers : IsActive(b) => IsActive(b)'
    BY DEF ClaimCollateral, troveVars, IsActive
  <2> QED BY <2>1, <2>2, <2>3, <2>4 DEF BorrowerCall
<1>3. ASSUME status' = [status EXCEPT ![x] = "closedByOwner"], surplus' = surplus
      PROVE  ClaimsStep
  <2>1. ASSUME NEW b \in Borrowers, IsActive(b), ~IsActive(b)'
        PROVE  surplus'[b] = Plus(surplus[b], Zeros) /\ ClaimOf(b, Zeros)
    <3>1. b = x /\ status'[b] = "closedByOwner"
      BY <1>1, <1>3, <2>1 DEF IsActive, TypeOK
    <3>2. surplus[b] \in Amounts /\ Zeros \in Amounts
      BY <1>1, PlusMinusTypes DEF TypeOK
    <3>3. \A c \in Collaterals : Plus(surplus[b], Zeros)[c] = surplus[b][c]
      BY <3>2, PlusMinusTypes DEF Amounts
    <3>4. Plus(surplus[b], Zeros) = surplus[b]
      BY <3>2, <3>3, PlusMinusTypes, AmountsAreEqual
    <3> QED BY <1>3, <3>1, <3>4 DEF ClaimOf
  <2> QED BY <2>1, PlusMinusTypes DEF ClaimsStep
<1> QED BY <1>2, <1>3 DEF ClaimsStep

\* What a liquidation leaves to the owners it closes.
LEMMA SettleClaims ==
  ASSUME Ledger, NEW acc, LiquidationLedger(acc), Settle(acc)
  PROVE  ClaimsStep
<1> DEFINE C == acc.closed
           sur == acc.surplus
<1>1. /\ status' = [b \in Borrowers |-> IF b \in C THEN "closedByLiquidation" ELSE status[b]]
      /\ surplus' = sur
  BY DEF Settle
<1>2. \A x \in C : \E s \in Amounts : sur[x] = Plus(surplus[x], s) /\ LiquidatedClaim(x, s)
  BY DEF LiquidationLedger
<1> HIDE DEF C, sur
<1>3. ASSUME NEW b \in Borrowers, IsActive(b), ~IsActive(b)'
      PROVE  \E s \in Amounts : surplus'[b] = Plus(surplus[b], s) /\ ClaimOf(b, s)
  <2>1. b \in C /\ status'[b] = "closedByLiquidation"
    BY <1>1, <1>3 DEF IsActive
  <2>2. PICK s \in Amounts : sur[b] = Plus(surplus[b], s) /\ LiquidatedClaim(b, s)
    BY <1>2, <2>1
  <2>3. surplus'[b] = Plus(surplus[b], s) /\ ClaimOf(b, s)
    BY <1>1, <2>1, <2>2 DEF ClaimOf
  <2> QED BY <2>3
<1> QED BY <1>3 DEF ClaimsStep

\* What a redemption leaves to the owners it closes.
LEMMA SettleRedemptionClaims ==
  ASSUME Ledger, NEW acc, NEW met, NEW amount, NEW rate, SettlesRedemption(acc, met, amount, rate)
  PROVE  ClaimsStep
<1> DEFINE C == acc.closed
           sur == acc.surplus
<1>1. /\ status' = [b \in Borrowers |-> IF b \in C THEN "closedByRedemption" ELSE status[b]]
      /\ surplus' = sur /\ ~acc.reverted
  BY DEF SettlesRedemption, SettleRedemption
<1>2. \A x \in C : \E s \in Amounts : sur[x] = Plus(surplus[x], s) /\ RedeemedClaim(x, s)
  BY <1>1 DEF SettlesRedemption, RedemptionLedger
<1> HIDE DEF C, sur
<1>3. ASSUME NEW b \in Borrowers, IsActive(b), ~IsActive(b)'
      PROVE  \E s \in Amounts : surplus'[b] = Plus(surplus[b], s) /\ ClaimOf(b, s)
  <2>1. b \in C /\ status'[b] = "closedByRedemption"
    BY <1>1, <1>3 DEF IsActive
  <2>2. PICK s \in Amounts : sur[b] = Plus(surplus[b], s) /\ RedeemedClaim(b, s)
    BY <1>2, <2>1
  <2>3. surplus'[b] = Plus(surplus[b], s) /\ ClaimOf(b, s)
    BY <1>1, <2>1, <2>2 DEF ClaimOf
  <2> QED BY <2>3
<1> QED BY <1>3 DEF ClaimsStep

\* Every step leaves the owners it closes what the way of closing grants them.
LEMMA NextKeepsClaims == Books /\ Ledger /\ [Next]_vars => ClaimsStep
<1> SUFFICES ASSUME Books, Ledger, [Next]_vars PROVE ClaimsStep
  OBVIOUS
<1>1. CASE \E b \in Borrowers : BorrowerCall(b)
  BY <1>1, BorrowerCallClaims
<1>2. CASE Liquidation
  BY <1>2, LiquidationWalks, SettleClaims
<1>3. ASSUME status' = status
      PROVE  ClaimsStep
  BY <1>3 DEF ClaimsStep, IsActive
<1>4. CASE Redemption
  <2>1. ASSUME NEW b \in Borrowers, UpdateTrove(b)
        PROVE  status' = status
    BY <2>1 DEF UpdateTrove
  <2> QED BY <1>3, <1>4, <2>1, RedemptionWalks, SettleRedemptionClaims
<1>5. CASE Environment
  <2>1. ASSUME NEW prices, SetPrice(prices)
        PROVE  status' = status
    BY <2>1 DEF SetPrice, troveVars
  <2>2. ASSUME NEW gas, SetGasCompensation(gas)
        PROVE  status' = status
    BY <2>2 DEF SetGasCompensation, troveVars
  <2>3. ASSUME NEW amount, ProvideToSP(amount) \/ WithdrawFromSP(amount)
        PROVE  status' = status
    BY <2>3 DEF ProvideToSP, WithdrawFromSP, MoveToStabilityPool, troveVars
  <2> QED BY <1>3, <1>5, <2>1, <2>2, <2>3 DEF Environment
<1>6. CASE UNCHANGED vars
  BY <1>3, <1>6 DEF vars, troveVars
<1> QED BY <1>1, <1>2, <1>4, <1>5, <1>6 DEF Next

\* The owner loses what was drawn, and that is worth no more than its value.
LEMMA LostIsDrawn ==
  ASSUME Priced, NEW f \in Amounts, NEW value \in Nat, NEW sur \in Amounts, NEW new,
         new = Plus(sur, Minus(f, Drawn(f, value)))
  PROVE  /\ ValueOf(f) - ValueOf(Minus(new, sur)) <= value
         /\ ValueOf(f) \in Nat /\ ValueOf(Minus(new, sur)) \in Nat
<1> DEFINE d == Drawn(f, value)
           s == Minus(f, d)
           lost == Minus(new, sur)
<1>1. d \in Amounts /\ Covers(f, d) /\ ValueOf(d) <= value
  BY DrawnIsPart, DrawnIsWorth
<1> HIDE DEF d
<1>2. s \in Amounts /\ \A c \in Collaterals : s[c] = f[c] - d[c]
  BY <1>1, PlusMinusTypes
<1>3. new = Plus(sur, s)
  BY DEF d
<1> HIDE DEF s
<1>4. new \in Amounts /\ \A c \in Collaterals : new[c] = sur[c] + s[c]
  BY <1>2, <1>3, PlusMinusTypes
<1>5. ASSUME NEW c \in Collaterals
      PROVE  lost[c] = s[c] /\ new[c] - sur[c] = s[c] /\ new[c] >= sur[c]
  <2>1. new[c] = sur[c] + s[c] /\ sur[c] \in Nat /\ s[c] \in Nat
    BY <1>2, <1>4 DEF Amounts
  <2>2. lost[c] = new[c] - sur[c]
    BY <1>4, PlusMinusTypes
  <2> QED BY <2>1, <2>2
<1>6. lost \in Amounts
  <2>1. Covers(new, sur)
    BY <1>5 DEF Covers
  <2> QED BY <1>4, <2>1, PlusMinusTypes
<1>7. ValueOf(f) = ValueOf(lost) + ValueOf(d) /\ ValueOf(f) \in Nat /\ ValueOf(lost) \in Nat /\ ValueOf(d) \in Nat
  <2> DEFINE x == Values(f)
             y == Values(lost)
             z == Values(d)
  <2>1. ASSUME NEW c \in Collaterals
        PROVE  x[c] \in Int /\ y[c] \in Int /\ z[c] \in Int /\ x[c] = y[c] + z[c]
    <3>1. f[c] \in Nat /\ d[c] \in Nat /\ lost[c] \in Nat /\ price[c] \in Nat
      BY <1>1, <1>6 DEF Amounts, Priced
    <3>2. f[c] = lost[c] + d[c]
      BY <1>2, <1>5, <3>1
    <3>3. x[c] = f[c] * price[c] /\ y[c] = lost[c] * price[c] /\ z[c] = d[c] * price[c]
      BY DEF Values
    <3> HIDE DEF x, y, z, lost
    <3>4. (lost[c] + d[c]) * price[c] = lost[c] * price[c] + d[c] * price[c]
      BY <3>1, Z3
    <3>5. f[c] * price[c] \in Nat /\ lost[c] * price[c] \in Nat /\ d[c] * price[c] \in Nat
      BY <3>1
    <3> QED BY <3>2, <3>3, <3>4, <3>5
  <2>2. /\ x \in Amounts /\ y \in Amounts /\ z \in Amounts
        /\ ValueOf(f) = SumFunction(x) /\ ValueOf(lost) = SumFunction(y) /\ ValueOf(d) = SumFunction(z)
    BY <1>1, <1>6, ValueIsNat DEF ValueOf
  <2> HIDE DEF x, y, z, lost
  <2>3. SumFunctionOnSet(x, Collaterals) = SumFunctionOnSet(y, Collaterals) + SumFunctionOnSet(z, Collaterals)
    BY <2>1, ConstantTypes, SumOfSums
  <2> QED BY <2>2, <2>3, SumsOfAmounts
<1> HIDE DEF lost
<1>8. ValueOf(f) - ValueOf(lost) <= value
  BY <1>1, <1>7
<1> QED BY <1>7, <1>8 DEF lost

\* A trove closed by a redemption costs its owner no more collateral than the
\* debt that was paid off, less the reserve: the rest can be claimed.
THEOREM RedeemedOnlyAtFaceValue == Spec => RedeemedAtFaceValue
<1>1. ASSUME Books, Ledger, [Next]_vars, NEW b \in Borrowers, ClosedIn(b, "closedByRedemption")
      PROVE  ValueOf(EntireColl(b)) - Claimable(b) <= EntireDebt(b) - USDE_GAS_COMPENSATION
  <2>1. TypeOK /\ SnapshotsBehind /\ Priced
    BY <1>1, PricesArePrices DEF Ledger
  <2>2. IsActive(b) /\ ~IsActive(b)' /\ status'[b] = "closedByRedemption"
    BY <1>1 DEF ClosedIn, IsActive
  <2>3. PICK s \in Amounts : surplus'[b] = Plus(surplus[b], s) /\ ClaimOf(b, s)
    BY <1>1, <2>2, NextKeepsClaims DEF ClaimsStep
  <2>4. RedeemedClaim(b, s)
    BY <2>2, <2>3 DEF ClaimOf
  <2>5. PICK lot \in Nat : s = ClaimBut(b, lot) /\ lot <= EntireDebt(b) - USDE_GAS_COMPENSATION
    BY <2>4 DEF RedeemedClaim
  <2>6. /\ EntireColl(b) \in Amounts /\ surplus[b] \in Amounts
        /\ EntireDebt(b) \in Nat /\ USDE_GAS_COMPENSATION \in Nat
    BY <2>1, TroveTypes, GasTypes
  <2> DEFINE coll == EntireColl(b)
             old == surplus[b]
             new == surplus'[b]
  <2>7. new = Plus(old, Minus(coll, Drawn(coll, lot)))
    BY <2>3, <2>5 DEF ClaimBut
  <2>8. Claimable(b) = ValueOf(Minus(new, old))
    BY DEF Claimable
  <2> HIDE DEF coll, old, new
  <2>9. ValueOf(coll) - ValueOf(Minus(new, old)) <= lot /\ ValueOf(coll) \in Nat /\ ValueOf(Minus(new, old)) \in Nat
    BY <2>1, <2>6, <2>7, LostIsDrawn DEF coll, old
  <2>10. ValueOf(coll) - ValueOf(Minus(new, old)) <= EntireDebt(b) - USDE_GAS_COMPENSATION
    BY <2>5, <2>6, <2>9
  <2> QED BY <2>8, <2>10 DEF coll
<1>2. Books /\ Ledger /\ [Next]_vars =>
        [\A b \in Borrowers : ClosedIn(b, "closedByRedemption") =>
           ValueOf(EntireColl(b)) - Claimable(b) <= EntireDebt(b) - USDE_GAS_COMPENSATION]_vars
  BY <1>1
<1> QED BY <1>2, LedgerHolds, BooksAlwaysAgree, PTL DEF Spec, RedeemedAtFaceValue

\* A trove at or above the MCR is liquidated only in recovery mode, against
\* the StabilityPool, and costs its owner no more than MCR times its debt.  The
\* MCR has to be above 100%: at 100% a trove that is worth its debt is
\* redistributed with all of its collateral.
THEOREM LiquidationIsCapped == DECIMAL_PRECISION < MCR /\ Spec => CappedLiquidation
<1> DEFINE Capped(b) == /\ RecoveryMode
                        /\ totalUSDEDeposits >= EntireDebt(b)
                        /\ (ValueOf(EntireColl(b)) - Claimable(b)) * DECIMAL_PRECISION
                             <= EntireDebt(b) * MCR
<1> SUFFICES ASSUME DECIMAL_PRECISION < MCR PROVE Spec => CappedLiquidation
  OBVIOUS
<1>1. ASSUME Books, Ledger, [Next]_vars, NEW b \in Borrowers,
             ClosedIn(b, "closedByLiquidation"), CurrentICR(b) >= MCR
      PROVE  Capped(b)
  <2>1. TypeOK /\ SnapshotsBehind /\ Priced
    BY <1>1, PricesArePrices DEF Ledger
  <2>2. IsActive(b) /\ ~IsActive(b)' /\ status'[b] = "closedByLiquidation"
    BY <1>1 DEF ClosedIn, IsActive
  <2>3. PICK s \in Amounts : surplus'[b] = Plus(surplus[b], s) /\ ClaimOf(b, s)
    BY <1>1, <2>2, NextKeepsClaims DEF ClaimsStep
  <2>4. LiquidatedClaim(b, s)
    BY <2>2, <2>3 DEF ClaimOf
  <2>5. EntireColl(b) \in Amounts /\ surplus[b] \in Amounts /\ EntireDebt(b) \in Nat
    BY <2>1, TroveTypes
  <2>6. CurrentICR(b) \in Nat /\ MCR \in Nat /\ DECIMAL_PRECISION \in Nat
    BY <2>1, <2>5, ValueIsNat, RatioIsNat, ConstantTypes DEF CurrentICR
  <2>7. s = ClaimBut(b, CapOf(b)) /\ RecoveryMode /\ totalUSDEDeposits >= EntireDebt(b)
    BY <1>1, <2>4, <2>6 DEF LiquidatedClaim
  <2>8. EntireDebt(b) * MCR \in Nat
    BY <2>5, <2>6
  <2>9. CapOf(b) \in Nat /\ DECIMAL_PRECISION * CapOf(b) <= EntireDebt(b) * MCR
    BY <2>8, ConstantTypes, Division DEF CapOf
  <2> DEFINE coll == EntireColl(b)
             old == surplus[b]
             new == surplus'[b]
             cap == CapOf(b)
             most == EntireDebt(b) * MCR
             P == DECIMAL_PRECISION
             lost == ValueOf(coll) - Claimable(b)
  <2>10. new = Plus(old, Minus(coll, Drawn(coll, cap)))
    BY <2>3, <2>7 DEF ClaimBut
  <2>11. Claimable(b) = ValueOf(Minus(new, old))
    BY DEF Claimable
  <2>12. cap \in Nat /\ coll \in Amounts /\ old \in Amounts /\ most \in Nat /\ P \in Nat /\ P * cap <= most
    BY <2>5, <2>6, <2>8, <2>9
  <2> HIDE DEF coll, old, new, cap, most, P
  <2>13. ValueOf(coll) - ValueOf(Minus(new, old)) <= cap /\ ValueOf(coll) \in Nat /\ ValueOf(Minus(new, old)) \in Nat
    BY <2>1, <2>10, <2>12, LostIsDrawn
  <2>14. lost \in Int /\ lost <= cap
    BY <2>11, <2>12, <2>13
  <2> HIDE DEF lost
  <2>15. lost * P <= cap * P /\ cap * P = P * cap /\ lost * P \in Int /\ P * cap \in Int
    BY <2>12, <2>14, Z3
  <2>16. lost * P <= most
    BY <2>12, <2>15
  <2> QED BY <2>7, <2>16 DEF lost, coll, P, most
<1>2. Books /\ Ledger /\ [Next]_vars =>
        [\A b \in Borrowers : ClosedIn(b, "closedByLiquidation") /\ CurrentICR(b) >= MCR =>
           Capped(b)]_vars
  BY <1>1
<1> QED BY <1>2, LedgerHolds, BooksAlwaysAgree, PTL DEF Spec, CappedLiquidation

\* A closed trove whose owner lost some of one collateral can claim nothing of
\* those of lower priority.
THEOREM LowPriorityIsFirst == Spec => LowPriorityFirst
<1>1. ASSUME Books, Ledger, [Next]_vars, NEW b \in Borrowers,
             NEW i \in DOMAIN CollateralSupport, NEW j \in DOMAIN CollateralSupport, i < j,
             IsNonzero(Minus(surplus'[b], surplus[b])), IsActive(b), ~IsActive(b)',
             surplus'[b][CollateralSupport[i]] - surplus[b][CollateralSupport[i]]
               < EntireColl(b)[CollateralSupport[i]]
      PROVE  surplus'[b][CollateralSupport[j]] - surplus[b][CollateralSupport[j]] = 0
  <2> DEFINE high == CollateralSupport[i]
             low  == CollateralSupport[j]
             coll == EntireColl(b)
             old == surplus[b]
             new == surplus'[b]
  <2>1. TypeOK /\ SnapshotsBehind /\ Priced
    BY <1>1, PricesArePrices DEF Ledger
  <2>2. high \in Collaterals /\ low \in Collaterals /\ RankOf(high) < RankOf(low)
    <3>1. DOMAIN CollateralSupport = 1..Len(CollateralSupport)
      BY TroveManagerAssumption, LenProperties
    <3> QED BY <1>1, <3>1, RankTypes
  <2>3. PICK s \in Amounts : new = Plus(old, s) /\ ClaimOf(b, s)
    BY <1>1, NextKeepsClaims DEF ClaimsStep
  <2>4. coll \in Amounts /\ old \in Amounts /\ EntireDebt(b) \in Nat
    BY <2>1, TroveTypes
  <2>5. s # Zeros
    <3> SUFFICES ASSUME s = Zeros PROVE FALSE
      OBVIOUS
    <3>1. PICK c \in Collaterals : Minus(new, old)[c] # 0
      BY <1>1 DEF IsNonzero
    <3>2. new \in Amounts /\ new[c] = old[c] + Zeros[c]
      BY <2>3, <2>4, PlusMinusTypes
    <3>3. Minus(new, old)[c] = new[c] - old[c] /\ Zeros[c] = 0 /\ old[c] \in Nat
      BY <2>4, <3>2, PlusMinusTypes DEF Amounts
    <3> QED BY <3>1, <3>2, <3>3
  <2>6. PICK lot \in Nat : s = ClaimBut(b, lot)
    <3>1. \/ s = ClaimBut(b, CapOf(b))
          \/ \E lot \in Nat : s = ClaimBut(b, lot)
      BY <2>3, <2>5 DEF ClaimOf, LiquidatedClaim, RedeemedClaim
    <3>2. CapOf(b) \in Nat
      <4>1. EntireDebt(b) * MCR \in Nat
        BY <2>4, ConstantTypes
      <4> QED BY <4>1, ConstantTypes, Division DEF CapOf
    <3> QED BY <3>1, <3>2
  <2>7. new = Plus(old, Minus(coll, Drawn(coll, lot)))
    BY <2>3, <2>6 DEF ClaimBut
  <2>8. new[high] - old[high] < coll[high]
    BY <1>1
  <2> HIDE DEF coll, old, new, high, low
  <2> DEFINE drawn == Drawn(coll, lot)
             rest  == Minus(coll, drawn)
  <2>9. drawn \in Amounts /\ Covers(coll, drawn)
    BY <2>1, <2>4, DrawnIsPart
  <2>10. /\ drawn[high] \in Nat /\ drawn[low] \in Nat /\ coll[high] \in Nat /\ coll[low] \in Nat
         /\ new[high] - old[high] = coll[high] - drawn[high]
         /\ new[low] - old[low] = coll[low] - drawn[low]
    <3>1. new = Plus(old, rest)
      BY <2>7
    <3> HIDE DEF drawn
    <3>2. rest \in Amounts /\ \A c \in Collaterals : rest[c] = coll[c] - drawn[c]
      BY <2>4, <2>9, PlusMinusTypes
    <3> HIDE DEF rest
    <3>3. new[high] = old[high] + rest[high] /\ new[low] = old[low] + rest[low]
      BY <2>2, <2>4, <3>1, <3>2, PlusMinusTypes
    <3>4. /\ old[high] \in Nat /\ old[low] \in Nat /\ rest[high] \in Nat /\ rest[low] \in Nat
          /\ coll[high] \in Nat /\ coll[low] \in Nat /\ drawn[high] \in Nat /\ drawn[low] \in Nat
      BY <2>2, <2>4, <2>9, <3>2 DEF Amounts
    <3> QED BY <2>2, <3>2, <3>3, <3>4
  <2>11. Drawn(coll, lot)[high] # 0
    BY <2>8, <2>10
  <2>12. Drawn(coll, lot)[low] = coll[low]
    BY <2>1, <2>2, <2>4, <2>11, BelowIsDrawn
  <2>13. new[low] - old[low] = 0
    BY <2>10, <2>12
  <2> QED BY <2>13 DEF new, old, low
<1> DEFINE Ordered(b, i, j) ==
      LET high == CollateralSupport[i]
          low  == CollateralSupport[j]
          claim(c) == surplus'[b][c] - surplus[b][c]
      IN  /\ i < j /\ IsNonzero(Minus(surplus'[b], surplus[b]))
          /\ IsActive(b) /\ ~IsActive(b)'
          /\ claim(high) < EntireColl(b)[high]
          => claim(low) = 0
<1>2. ASSUME Books, Ledger, [Next]_vars, NEW b \in Borrowers,
             NEW i \in DOMAIN CollateralSupport, NEW j \in DOMAIN CollateralSupport
      PROVE  Ordered(b, i, j)
  BY <1>1, <1>2
<1> HIDE DEF Ordered
<1>3. Books /\ Ledger /\ [Next]_vars =>
        [\A b \in Borrowers, i, j \in DOMAIN CollateralSupport : Ordered(b, i, j)]_vars
  BY <1>2
<1> QED BY <1>3, LedgerHolds, BooksAlwaysAgree, PTL DEF Spec, LowPriorityFirst, Ordered

-----------------------------------------------------------------------------
(* Pending debt: every collateral carries a part of it.                    *)

\* The debt pending to every trove for its stake in one collateral.
DebtParts(c) ==
  [b \in Borrowers |->
     IF IsActive(b)
       THEN (stakes[b][c] * (E_USDEDebt[c] - snapshotDebt[b][c])) \div DECIMAL_PRECISION
       ELSE 0]

DebtPromised(c) == PromisedTo(stakes, E_USDEDebt, snapshotDebt, c)

\* The debt pending to the owners in D, split by collateral.
PartsOf(D) == [c \in Collaterals |-> SumFunctionOnSet(DebtParts(c), D)]

\* The DefaultPool's debt can be split among the collaterals so that each
\* part covers what the sum of its collateral promises.
DebtPromisesKept ==
  \E d \in Amounts :
    /\ SumFunctionOnSet(d, Collaterals) <= defaultDebt
    /\ \A c \in Collaterals :
         Total(DebtPromised(c)) + lastUSDEDebtError[c] <= DECIMAL_PRECISION * d[c]

\* A part is what the sums promise, rounded down.
LEMMA DebtPartTypes ==
  ASSUME TypeOK, SnapshotsBehind, NEW c \in Collaterals, NEW x \in Borrowers
  PROVE  /\ DebtParts(c)[x] \in Nat /\ DebtPromised(c)[x] \in Nat
         /\ DECIMAL_PRECISION * DebtParts(c)[x] <= DebtPromised(c)[x]
         /\ DECIMAL_PRECISION * DebtParts(c)[x] \in Nat
<1> DEFINE s == stakes[x][c]
           e == E_USDEDebt[c]
           n == snapshotDebt[x][c]
<1>1. s \in Nat /\ e \in Nat /\ n \in Nat /\ n <= e
  BY DEF TypeOK, Amounts, SnapshotsBehind
<1>2. /\ DebtPromised(c)[x] = s * (e - n)
      /\ DebtParts(c)[x] = IF IsActive(x) THEN (s * (e - n)) \div DECIMAL_PRECISION ELSE 0
  BY DEF DebtPromised, PromisedTo, DebtParts
<1> HIDE DEF s, e, n
<1>3. /\ s * (e - n) \in Nat
      /\ (s * (e - n)) \div DECIMAL_PRECISION \in Nat
      /\ DECIMAL_PRECISION * ((s * (e - n)) \div DECIMAL_PRECISION) <= s * (e - n)
  BY <1>1, RewardIsPart
<1>4. CASE IsActive(x)
  <2> DEFINE q == (s * (e - n)) \div DECIMAL_PRECISION
  <2>1. q \in Nat /\ DebtParts(c)[x] = q /\ DECIMAL_PRECISION * q <= s * (e - n)
    BY <1>2, <1>3, <1>4
  <2> HIDE DEF q
  <2>2. DECIMAL_PRECISION * q \in Nat
    BY <2>1, ConstantTypes
  <2> QED BY <1>2, <1>3, <2>1, <2>2
<1>5. CASE ~IsActive(x)
  <2>1. DebtParts(c)[x] = 0 /\ DECIMAL_PRECISION * 0 = 0
    BY <1>2, <1>5, ConstantTypes
  <2> QED BY <1>2, <1>3, <2>1
<1> QED BY <1>4, <1>5

\* The pending debt of a trove is the sum of its parts.
LEMMA PendingIsParts ==
  ASSUME TypeOK, SnapshotsBehind, NEW x \in Borrowers
  PROVE  PendingDebts[x] = SumFunctionOnSet([c \in Collaterals |-> DebtParts(c)[x]], Collaterals)
<1> DEFINE f == [c \in Collaterals |-> DebtParts(c)[x]]
           g == [c \in Collaterals |->
                   (stakes[x][c] * (E_USDEDebt[c] - snapshotDebt[x][c])) \div DECIMAL_PRECISION]
<1>1. PendingDebts[x] = IF IsActive(x) THEN SumFunction(g) ELSE 0
  BY DEF PendingDebts, PendingUSDEDebtReward
<1>2. SumFunction(g) = SumFunctionOnSet(g, Collaterals)
  BY DEF SumFunction
<1>3. CASE IsActive(x)
  <2>1. f = g
    BY <1>3 DEF DebtParts
  <2> HIDE DEF f, g
  <2> QED BY <1>1, <1>2, <1>3, <2>1 DEF f
<1>4. CASE ~IsActive(x)
  <2>1. \A c \in Collaterals : f[c] = 0
    BY <1>4 DEF DebtParts
  <2> HIDE DEF f, g
  <2>2. SumFunctionOnSet(f, Collaterals) = 0
    BY <2>1, ConstantTypes, SumOfZeros
  <2> QED BY <1>1, <1>4, <2>2 DEF f
<1> QED BY <1>3, <1>4

\* The parts of one collateral, of owners among D and one more.
LEMMA PartsOfOneMore ==
  ASSUME TypeOK, SnapshotsBehind, NEW D \in SUBSET Borrowers, NEW x \in Borrowers, x \notin D,
         NEW c \in Collaterals
  PROVE  /\ PartsOf(D \cup {x})[c] = DebtParts(c)[x] + PartsOf(D)[c]
         /\ PartsOf(D)[c] \in Nat /\ DebtParts(c)[x] \in Nat
<1> DEFINE f == DebtParts(c)
<1>1. \A y \in Borrowers : f[y] \in Nat
  BY DebtPartTypes
<1>2. PartsOf(D \cup {x})[c] = SumFunctionOnSet(f, D \cup {x}) /\ PartsOf(D)[c] = SumFunctionOnSet(f, D)
  BY DEF PartsOf
<1> HIDE DEF f
<1>3. SumFunctionOnSet(f, D \cup {x}) = f[x] + SumFunctionOnSet(f, D) /\ SumFunctionOnSet(f, D) \in Nat
  BY <1>1, SumOneMore
<1> QED BY <1>1, <1>2, <1>3 DEF f

\* The pending debt of the owners in D is the sum of its parts, whether
\* added up by owner or by collateral.
LEMMA PendingOfParts ==
  ASSUME TypeOK, SnapshotsBehind
  PROVE  \A D \in SUBSET Borrowers :
           /\ PartsOf(D) \in Amounts
           /\ SumFunctionOnSet(PendingDebts, D) = SumFunctionOnSet(PartsOf(D), Collaterals)
<1> DEFINE T == {D \in SUBSET Borrowers :
                   SumFunctionOnSet(PendingDebts, D) = SumFunctionOnSet(PartsOf(D), Collaterals)}
<1>1. ASSUME NEW D \in SUBSET Borrowers
      PROVE  PartsOf(D) \in Amounts
  <2>1. ASSUME NEW c \in Collaterals
        PROVE  SumFunctionOnSet(DebtParts(c), D) \in Nat
    <3> DEFINE f == DebtParts(c)
    <3>1. \A y \in Borrowers : f[y] \in Nat
      BY DebtPartTypes
    <3> HIDE DEF f
    <3>2. SumFunctionOnSet(f, D) \in Nat
      BY <3>1, ConstantTypes, SumOfNaturals
    <3> QED BY <3>2 DEF f
  <2> QED BY <2>1 DEF PartsOf, Amounts
<1>2. {} \in T
  <2> DEFINE f == PartsOf({})
  <2>1. \A c \in Collaterals : f[c] = 0
    BY SumOfNone DEF PartsOf
  <2> HIDE DEF f
  <2>2. SumFunctionOnSet(f, Collaterals) = 0
    BY <2>1, ConstantTypes, SumOfZeros
  <2>3. SumFunctionOnSet(PendingDebts, {}) = 0
    BY SumOfNone
  <2> QED BY <2>2, <2>3 DEF f
<1>3. ASSUME NEW D \in SUBSET Borrowers, NEW x \in Borrowers, D \in T, x \notin D
      PROVE  D \cup {x} \in T
  <2> DEFINE p == PendingDebts
             f == PartsOf(D)
             g == PartsOf(D \cup {x})
             h == [c \in Collaterals |-> DebtParts(c)[x]]
  <2>1. \A y \in Borrowers : p[y] \in Nat
    BY PendingSumTypes
  <2>2. p[x] = SumFunctionOnSet(h, Collaterals)
    BY PendingIsParts
  <2>3. \A c \in Collaterals : f[c] \in Int /\ h[c] \in Int /\ g[c] = h[c] + f[c]
    <3> TAKE c \in Collaterals
    <3>1. g[c] = DebtParts(c)[x] + f[c] /\ f[c] \in Nat /\ DebtParts(c)[x] \in Nat
      BY <1>3, PartsOfOneMore
    <3>2. h[c] = DebtParts(c)[x]
      OBVIOUS
    <3> HIDE DEF f, g, h
    <3> QED BY <3>1, <3>2
  <2>4. SumFunctionOnSet(p, D) = SumFunctionOnSet(f, Collaterals)
    BY <1>3
  <2> HIDE DEF p, f, g, h
  <2>5. SumFunctionOnSet(g, Collaterals) = SumFunctionOnSet(h, Collaterals) + SumFunctionOnSet(f, Collaterals)
    BY <2>3, ConstantTypes, SumOfSums
  <2>6. SumFunctionOnSet(p, D \cup {x}) = p[x] + SumFunctionOnSet(p, D)
    BY <1>3, <2>1, SumOneMore
  <2>7. SumFunctionOnSet(p, D \cup {x}) = SumFunctionOnSet(g, Collaterals)
    BY <2>2, <2>4, <2>5, <2>6
  <2> QED BY <2>7 DEF p, g
<1> HIDE DEF T
<1>4. SUBSET Borrowers \subseteq T
  BY <1>2, <1>3, ConstantTypes, SubsetInduction
<1> QED BY <1>1, <1>4 DEF T

\* What is pending to the owners in D is a part of what they were promised.
LEMMA PartsArePromised ==
  ASSUME TypeOK, SnapshotsBehind, NEW D \in SUBSET Borrowers, NEW c \in Collaterals
  PROVE  /\ DECIMAL_PRECISION * PartsOf(D)[c] <= SumFunctionOnSet(DebtPromised(c), D)
         /\ PartsOf(D)[c] \in Nat /\ DECIMAL_PRECISION * PartsOf(D)[c] \in Nat
         /\ SumFunctionOnSet(DebtPromised(c), D) \in Nat
         /\ SumFunctionOnSet(DebtPromised(c), D) <= Total(DebtPromised(c))
<1> DEFINE f == DebtParts(c)
           g == DebtPromised(c)
           h == [x \in Borrowers |-> DECIMAL_PRECISION * f[x]]
           P == DECIMAL_PRECISION
<1>1. \A x \in Borrowers : /\ f[x] \in Nat /\ g[x] \in Nat /\ P * f[x] <= g[x] /\ P * f[x] \in Nat
  BY DebtPartTypes
<1>2. P \in Nat /\ PartsOf(D)[c] = SumFunctionOnSet(f, D)
  BY ConstantTypes DEF PartsOf
<1> HIDE DEF f, g
<1>3. IsFiniteSet(D)
  BY ConstantTypes, FS_Subset
<1>4. \A x \in D : f[x] \in Int /\ h[x] = P * f[x] /\ h[x] \in Int /\ g[x] \in Int /\ h[x] <= g[x]
  BY <1>1
<1> HIDE DEF h, P
<1>5. SumFunctionOnSet(h, D) <= SumFunctionOnSet(g, D)
  BY <1>3, <1>4, SumMonotone
<1>6. SumFunctionOnSet(h, D) = P * SumFunctionOnSet(f, D)
  BY <1>2, <1>3, <1>4, SumScaled
<1>7. SumFunctionOnSet(f, D) \in Nat /\ SumFunctionOnSet(g, D) \in Nat
  BY <1>1, ConstantTypes, SumOfNaturals
<1>8. SumFunctionOnSet(g, D) <= SumFunctionOnSet(g, Borrowers)
  BY <1>1, ConstantTypes, SumOfPart
<1>9. P * SumFunctionOnSet(f, D) \in Nat
  BY <1>2, <1>7
<1> QED BY <1>2, <1>5, <1>6, <1>7, <1>8, <1>9 DEF g, P, Total

\* A split of the debt from which the parts of the owners in D were taken, who
\* hold no stake any more or whose snapshots are up to date.
LEMMA DebtTakenOut ==
  ASSUME TypeOK, SnapshotsBehind, DebtPromisesKept, NEW D \in SUBSET Borrowers,
         NEW stk \in [Borrowers -> Amounts], NEW snaps \in [Borrowers -> Amounts],
         \A x \in Borrowers, c \in Collaterals : snaps[x][c] <= E_USDEDebt[c],
         \A x \in Borrowers \ D : stk[x] = stakes[x] /\ snaps[x] = snapshotDebt[x],
         \A x \in D, c \in Collaterals : stk[x][c] = 0 \/ snaps[x][c] = E_USDEDebt[c]
  PROVE  \E left \in Amounts :
           /\ SumFunctionOnSet(left, Collaterals) <= defaultDebt - SumFunctionOnSet(PendingDebts, D)
           /\ \A c \in Collaterals :
                Total(PromisedTo(stk, E_USDEDebt, snaps, c)) + lastUSDEDebtError[c]
                  <= DECIMAL_PRECISION * left[c]
<1>1. PICK d \in Amounts :
        /\ SumFunctionOnSet(d, Collaterals) <= defaultDebt
        /\ \A c \in Collaterals :
             Total(DebtPromised(c)) + lastUSDEDebtError[c] <= DECIMAL_PRECISION * d[c]
  BY DEF DebtPromisesKept
<1> DEFINE parts == PartsOf(D)
           left == Minus(d, parts)
<1>2. parts \in Amounts /\ SumFunctionOnSet(PendingDebts, D) = SumFunctionOnSet(parts, Collaterals)
  BY PendingOfParts
<1>3. ASSUME NEW c \in Collaterals
      PROVE  /\ parts[c] <= d[c]
             /\ left[c] = d[c] - parts[c] /\ left[c] \in Nat
             /\ Total(PromisedTo(stk, E_USDEDebt, snaps, c)) + lastUSDEDebtError[c]
                  <= DECIMAL_PRECISION * left[c]
  <2> DEFINE f == DebtPromised(c)
             g == PromisedTo(stk, E_USDEDebt, snaps, c)
             p == parts[c]
             P == DECIMAL_PRECISION
             m == d[c]
             k == lastUSDEDebtError[c]
  <2>1. ASSUME NEW x \in Borrowers
        PROVE  /\ f[x] = stakes[x][c] * (E_USDEDebt[c] - snapshotDebt[x][c]) /\ f[x] \in Nat
               /\ g[x] = stk[x][c] * (E_USDEDebt[c] - snaps[x][c]) /\ g[x] \in Nat
    <3>1. stk[x][c] \in Nat /\ E_USDEDebt[c] \in Nat /\ snaps[x][c] \in Nat
      BY DEF TypeOK, Amounts
    <3>2. snaps[x][c] <= E_USDEDebt[c]
      OBVIOUS
    <3>3. stk[x][c] * (E_USDEDebt[c] - snaps[x][c]) \in Nat
      BY <3>1, <3>2, RewardIsPart
    <3>4. f[x] \in Nat
      BY DebtPartTypes
    <3> QED BY <3>3, <3>4 DEF PromisedTo, DebtPromised
  <2>2. \A x \in Borrowers \ D : g[x] = f[x]
    BY <2>1
  <2>3. \A x \in D : g[x] = 0
    <3> TAKE x \in D
    <3>1. stk[x][c] \in Nat /\ E_USDEDebt[c] \in Nat /\ snaps[x][c] \in Nat
      BY DEF TypeOK, Amounts
    <3>2. g[x] = stk[x][c] * (E_USDEDebt[c] - snaps[x][c])
      BY <2>1
    <3>3. stk[x][c] = 0 \/ snaps[x][c] = E_USDEDebt[c]
      OBVIOUS
    <3>4. CASE stk[x][c] = 0
      BY <3>1, <3>2, <3>4
    <3>5. CASE snaps[x][c] = E_USDEDebt[c]
      BY <3>1, <3>2, <3>5
    <3> QED BY <3>3, <3>4, <3>5
  <2>4. /\ P * p <= SumFunctionOnSet(f, D)
        /\ p \in Nat /\ P * p \in Nat
        /\ SumFunctionOnSet(f, D) \in Nat
        /\ SumFunctionOnSet(f, D) <= Total(f)
    BY PartsArePromised
  <2>5. Total(f) + k <= P * m
    BY <1>1
  <2>6. P \in Nat \ {0} /\ m \in Nat /\ k \in Nat
    BY ConstantTypes DEF TypeOK, Amounts
  <2>7. left[c] = m - p
    BY <1>2, PlusMinusTypes
  <2> HIDE DEF f, g, p, P, m, k, left, parts
  <2>8. Total(g) = Total(f) - SumFunctionOnSet(f, D)
    BY <2>1, <2>2, <2>3, TotalCleared
  <2>9. Total(f) \in Nat /\ Total(g) \in Nat
    BY <2>1, TotalIsNat
  <2>10. P * m \in Nat
    BY <2>6
  <2>11. P * p <= P * m
    BY <2>4, <2>5, <2>6, <2>9, <2>10
  <2>12. p <= m
    BY <2>4, <2>6, <2>11, Z3
  <2>13. P * (m - p) = P * m - P * p
    BY <2>4, <2>6, Z3
  <2>14. Total(g) + k <= P * (m - p)
    BY <2>4, <2>5, <2>6, <2>8, <2>9, <2>10, <2>13
  <2>15. m - p \in Nat
    BY <2>4, <2>6, <2>12
  <2> QED BY <2>6, <2>7, <2>12, <2>14, <2>15 DEF g, P, p, m, k
<1>4. left \in Amounts
  <2>1. Covers(d, parts)
    BY <1>3 DEF Covers
  <2> HIDE DEF parts
  <2> QED BY <1>2, <2>1, PlusMinusTypes
<1>5. SumFunctionOnSet(left, Collaterals) <= defaultDebt - SumFunctionOnSet(PendingDebts, D)
  <2> HIDE DEF left, parts
  <2>1. \A c \in Collaterals : parts[c] \in Int /\ left[c] \in Int /\ d[c] = parts[c] + left[c]
    <3>1. \A c \in Collaterals : parts[c] \in Nat /\ d[c] \in Nat
      BY <1>2 DEF Amounts
    <3> QED BY <1>3, <3>1
  <2>2. SumFunctionOnSet(d, Collaterals) = SumFunctionOnSet(parts, Collaterals) + SumFunctionOnSet(left, Collaterals)
    BY <2>1, ConstantTypes, SumOfSums
  <2>3. SumFunctionOnSet(parts, Collaterals) \in Nat /\ SumFunctionOnSet(left, Collaterals) \in Nat
    BY <1>2, <1>4, SumsOfAmounts
  <2>4. defaultDebt \in Nat
    BY DEF TypeOK
  <2> QED BY <1>1, <1>2, <2>2, <2>3, <2>4
<1> HIDE DEF left
<1> QED BY <1>3, <1>4, <1>5

\* The owners in D took their debt rewards in, or hold no stake any more.
LEMMA DebtTakenIn ==
  ASSUME TypeOK, SnapshotsBehind, DebtPromisesKept, NEW D \in SUBSET Borrowers,
         E_USDEDebt' = E_USDEDebt, lastUSDEDebtError' = lastUSDEDebtError,
         stakes' \in [Borrowers -> Amounts], snapshotDebt' \in [Borrowers -> Amounts],
         SnapshotsBehind',
         \A x \in Borrowers \ D : stakes'[x] = stakes[x] /\ snapshotDebt'[x] = snapshotDebt[x],
         \A x \in D, c \in Collaterals :
           stakes'[x][c] = 0 \/ snapshotDebt'[x][c] = E_USDEDebt[c],
         defaultDebt' \in Nat, defaultDebt' >= defaultDebt - SumFunctionOnSet(PendingDebts, D)
  PROVE  DebtPromisesKept'
<1> DEFINE stk == stakes'
           snaps == snapshotDebt'
<1>1. /\ stk \in [Borrowers -> Amounts] /\ snaps \in [Borrowers -> Amounts]
      /\ \A x \in Borrowers, c \in Collaterals : snaps[x][c] <= E_USDEDebt[c]
      /\ \A x \in Borrowers \ D : stk[x] = stakes[x] /\ snaps[x] = snapshotDebt[x]
      /\ \A x \in D, c \in Collaterals : stk[x][c] = 0 \/ snaps[x][c] = E_USDEDebt[c]
  BY DEF SnapshotsBehind
<1> HIDE DEF stk, snaps
<1>2. PICK left \in Amounts :
        /\ SumFunctionOnSet(left, Collaterals) <= defaultDebt - SumFunctionOnSet(PendingDebts, D)
        /\ \A c \in Collaterals :
             Total(PromisedTo(stk, E_USDEDebt, snaps, c)) + lastUSDEDebtError[c]
               <= DECIMAL_PRECISION * left[c]
  BY <1>1, DebtTakenOut
<1>3. SumFunctionOnSet(left, Collaterals) <= defaultDebt'
  <2> DEFINE f == PendingDebts
  <2>1. \A x \in Borrowers : f[x] \in Nat
    BY PendingSumTypes
  <2> HIDE DEF f
  <2>2. SumFunctionOnSet(f, D) \in Nat
    BY <2>1, ConstantTypes, SumOfNaturals
  <2>3. defaultDebt \in Nat /\ SumFunctionOnSet(left, Collaterals) \in Nat
    BY SumsOfAmounts DEF TypeOK
  <2>4. defaultDebt' >= defaultDebt - SumFunctionOnSet(f, D)
        /\ SumFunctionOnSet(left, Collaterals) <= defaultDebt - SumFunctionOnSet(f, D)
    BY <1>2 DEF f
  <2> QED BY <2>2, <2>3, <2>4
<1>4. \A c \in Collaterals :
        Total(PromisedTo(stakes', E_USDEDebt', snapshotDebt', c)) + lastUSDEDebtError'[c]
          <= DECIMAL_PRECISION * left[c]
  BY <1>2 DEF stk, snaps
<1> QED BY <1>3, <1>4 DEF DebtPromisesKept, DebtPromised, Total

\* The debt pending to one owner is what its trove takes in: where the sums of
\* the collateral have not moved, those of the debt have not either.
LEMMA SeenDebtIsApplied ==
  ASSUME TypeOK, SnapshotsBehind, RewardsSeen, NEW b \in Borrowers
  PROVE  /\ ~HasPendingRewards(b) => PendingUSDEDebtReward(b) = 0
         /\ AppliedDebt(b) = PendingUSDEDebtReward(b)
         /\ IsActive(b) /\ ~HasPendingRewards(b) => snapshotDebt[b] = E_USDEDebt
<1>1. IsActive(b) /\ ~HasPendingRewards(b) => snapshotDebt[b] = E_USDEDebt
  BY DEF RewardsSeen, ActiveTroves
<1>2. ASSUME ~HasPendingRewards(b), IsActive(b)
      PROVE  PendingUSDEDebtReward(b) = 0
  <2>1. ASSUME NEW c \in Collaterals
        PROVE  DebtParts(c)[b] = 0
    <3>1. /\ stakes[b][c] \in Nat /\ E_USDEDebt[c] \in Nat /\ snapshotDebt[b][c] = E_USDEDebt[c]
      BY <1>1, <1>2 DEF TypeOK, Amounts
    <3>2. stakes[b][c] * (E_USDEDebt[c] - snapshotDebt[b][c]) = 0
      BY <3>1
    <3>3. 0 \div DECIMAL_PRECISION = 0
      BY ConstantTypes, Z3
    <3> QED BY <3>2, <3>3 DEF DebtParts
  <2> DEFINE f == [c \in Collaterals |-> DebtParts(c)[b]]
  <2>2. \A c \in Collaterals : f[c] = 0
    BY <2>1
  <2>3. PendingDebts[b] = SumFunctionOnSet(f, Collaterals)
    BY PendingIsParts
  <2> HIDE DEF f
  <2>4. SumFunctionOnSet(f, Collaterals) = 0
    BY <2>2, ConstantTypes, SumOfZeros
  <2> QED BY <2>3, <2>4 DEF PendingDebts
<1>3. ~IsActive(b) => PendingUSDEDebtReward(b) = 0
  BY DEF PendingUSDEDebtReward
<1> QED BY <1>1, <1>2, <1>3 DEF AppliedDebt

\* A transaction that concerns one trove keeps the promises of debt.
LEMMA OneTroveDebts ==
  ASSUME Ledger, Ledger', RewardsSeen, DebtPromisesKept, NEW b \in Borrowers,
         UNCHANGED rewardVars,
         NEW s, stakes' = [stakes EXCEPT ![b] = s],
         \/ snapshotDebt' = [snapshotDebt EXCEPT ![b] = E_USDEDebt]
         \/ snapshotDebt' = snapshotDebt /\ IsActive(b) /\ ~HasPendingRewards(b)
         \/ snapshotDebt' = [snapshotDebt EXCEPT ![b] = Zeros] /\ s = Zeros,
         defaultDebt' \in {defaultDebt, Decreased(defaultDebt, AppliedDebt(b))}
  PROVE  DebtPromisesKept'
<1>1. TypeOK /\ SnapshotsBehind /\ SnapshotsBehind'
  BY DEF Ledger
<1>2. /\ stakes \in [Borrowers -> Amounts] /\ snapshotDebt \in [Borrowers -> Amounts]
      /\ E_USDEDebt \in Amounts /\ defaultDebt \in Nat
      /\ E_USDEDebt' = E_USDEDebt /\ lastUSDEDebtError' = lastUSDEDebtError
  BY <1>1 DEF TypeOK, rewardVars
<1>3. stakes' \in [Borrowers -> Amounts] /\ snapshotDebt' \in [Borrowers -> Amounts] /\ defaultDebt' \in Nat
  BY DEF Ledger, TypeOK
<1>4. /\ stakes'[b] = s /\ \A x \in Borrowers \ {b} : stakes'[x] = stakes[x]
  BY <1>2
<1>5. /\ \A x \in Borrowers \ {b} : snapshotDebt'[x] = snapshotDebt[x]
      /\ snapshotDebt'[b] = E_USDEDebt \/ s = Zeros
  <2>1. IsActive(b) /\ ~HasPendingRewards(b) => snapshotDebt[b] = E_USDEDebt
    BY <1>1, SeenDebtIsApplied
  <2> QED BY <1>2, <2>1
<1>6. \A c \in Collaterals : stakes'[b][c] = 0 \/ snapshotDebt'[b][c] = E_USDEDebt[c]
  BY <1>4, <1>5, PlusMinusTypes
<1>7. defaultDebt' >= defaultDebt - PendingUSDEDebtReward(b)
  <2>1. PendingUSDEDebtReward(b) \in Nat /\ AppliedDebt(b) = PendingUSDEDebtReward(b)
    BY <1>1, PendingTypes, SeenDebtIsApplied
  <2>2. Decreased(defaultDebt, AppliedDebt(b)) >= defaultDebt - PendingUSDEDebtReward(b)
    BY <1>2, <2>1, DecreasedIs
  <2> QED BY <1>2, <2>1, <2>2
<1> DEFINE D == {b}
<1>8. SumFunctionOnSet(PendingDebts, D) = PendingUSDEDebtReward(b)
  <2> DEFINE f == PendingDebts
  <2>1. \A x \in Borrowers : f[x] \in Nat
    BY <1>1, PendingSumTypes
  <2> HIDE DEF f
  <2>2. SumFunctionOnSet(f, {b}) = f[b]
    BY <2>1, SumOfOne
  <2> QED BY <2>2 DEF f, PendingDebts
<1>9. /\ D \in SUBSET Borrowers
      /\ \A x \in Borrowers \ D : stakes'[x] = stakes[x] /\ snapshotDebt'[x] = snapshotDebt[x]
      /\ \A x \in D, c \in Collaterals : stakes'[x][c] = 0 \/ snapshotDebt'[x][c] = E_USDEDebt[c]
      /\ defaultDebt' >= defaultDebt - SumFunctionOnSet(PendingDebts, D)
  BY <1>4, <1>5, <1>6, <1>7, <1>8
<1> HIDE DEF D
<1> QED BY <1>1, <1>2, <1>3, <1>9, DebtTakenIn

\* The promises of debt are about stakes, snapshots, sums and the DefaultPool.
LEMMA DebtsLeftAlone ==
  ASSUME DebtPromisesKept, UNCHANGED <<stakes, snapshotDebt, E_USDEDebt, lastUSDEDebtError, defaultDebt>>
  PROVE  DebtPromisesKept'
BY DEF DebtPromisesKept, DebtPromised, PromisedTo, Total

\* Every call of a borrower keeps the promises of debt.
LEMMA BorrowerCallKeepsDebts ==
  ASSUME Ledger, Ledger', RewardsSeen, DebtPromisesKept, NEW b \in Borrowers, BorrowerCall(b)
  PROVE  DebtPromisesKept'
<1>1. ASSUME NEW coll, NEW amount, NEW rate, OpenTrove(b, coll, amount, rate)
      PROVE  DebtPromisesKept'
  <2>1. /\ UNCHANGED rewardVars /\ defaultDebt' = defaultDebt
        /\ stakes' = [stakes EXCEPT ![b] = NewStakes(coll)]
        /\ snapshotDebt' = [snapshotDebt EXCEPT ![b] = E_USDEDebt]
    BY <1>1 DEF OpenTrove, TakeRewardSnapshots, UpdateStakes
  <2> QED BY <2>1, OneTroveDebts
<1>2. ASSUME NEW in, NEW out, NEW change, NEW isIncrease, NEW rate,
             AdjustTrove(b, in, out, change, isIncrease, rate)
      PROVE  DebtPromisesKept'
  <2> DEFINE newColl == Minus(Plus(Plus(eToken[b], AppliedColl(b)), in), out)
  <2>1. /\ UNCHANGED rewardVars /\ IsActive(b)
        /\ defaultDebt' = Decreased(defaultDebt, AppliedDebt(b))
        /\ stakes' = [stakes EXCEPT ![b] = NewStakes(newColl)]
        /\ IF HasPendingRewards(b) THEN TakeRewardSnapshots(b) ELSE UNCHANGED snapshotVars
    BY <1>2 DEF AdjustTrove, UpdateStakes
  <2>2. \/ snapshotDebt' = [snapshotDebt EXCEPT ![b] = E_USDEDebt]
        \/ snapshotDebt' = snapshotDebt /\ IsActive(b) /\ ~HasPendingRewards(b)
    BY <2>1 DEF TakeRewardSnapshots, snapshotVars
  <2> HIDE DEF newColl
  <2> QED BY <2>1, <2>2, OneTroveDebts
<1>3. ASSUME CloseTrove(b)
      PROVE  DebtPromisesKept'
  <2>1. /\ UNCHANGED rewardVars
        /\ defaultDebt' = Decreased(defaultDebt, AppliedDebt(b))
        /\ stakes' = [stakes EXCEPT ![b] = Zeros]
        /\ snapshotDebt' = [snapshotDebt EXCEPT ![b] = Zeros]
    BY <1>3 DEF CloseTrove
  <2> QED BY <2>1, OneTroveDebts
<1>4. ASSUME ClaimCollateral(b)
      PROVE  DebtPromisesKept'
  BY <1>4, DebtsLeftAlone DEF ClaimCollateral, stakeVars, snapshotVars, rewardVars, poolVars
<1> QED BY <1>1, <1>2, <1>3, <1>4 DEF BorrowerCall

\* The troves a redemption met took their debt in or had none to take.
LEMMA SettleRedemptionKeepsDebts ==
  ASSUME Ledger, Ledger', RewardsSeen, DebtPromisesKept, NEW acc, NEW met, NEW amount, NEW rate,
         SettlesRedemption(acc, met, amount, rate)
  PROVE  DebtPromisesKept'
<1> DEFINE closed == acc.closed
           partial == acc.partial
           touched == acc.touched
           D == closed \cup partial \cup touched
<1>1. /\ snapshotDebt' = [b \in Borrowers |-> IF b \in closed THEN Zeros
                            ELSE IF b \in touched THEN E_USDEDebt ELSE snapshotDebt[b]]
      /\ stakes' = acc.stakes /\ ~acc.reverted
      /\ defaultDebt' = Decreased(defaultDebt, acc.pendDebt)
      /\ E_USDEDebt' = E_USDEDebt /\ lastUSDEDebtError' = lastUSDEDebtError
  BY DEF SettlesRedemption, SettleRedemption, rewardVars
<1>2. /\ RewardsTaken(acc, met)
      /\ \A x \in Borrowers \ (closed \cup partial) : acc.stakes[x] = stakes[x]
      /\ \A x \in closed : acc.stakes[x] = Zeros
  BY <1>1 DEF SettlesRedemption, RedemptionLedger
<1>3. /\ touched \subseteq met /\ \A x \in met \ touched : ~HasPendingRewards(x)
      /\ acc.pendDebt = SumFunctionOnSet(PendingDebts, touched)
  BY <1>2 DEF RewardsTaken
<1>4. met \subseteq ActiveTroves /\ closed \subseteq met /\ partial \subseteq met \ closed
  BY DEF SettlesRedemption, RedemptionWalk
<1> HIDE DEF closed, partial, touched
<1>5. /\ D \in SUBSET Borrowers /\ touched \in SUBSET D /\ D \subseteq met
      /\ touched \in SUBSET Borrowers
      /\ \A x \in met : x \in Borrowers /\ IsActive(x)
  BY <1>3, <1>4 DEF ActiveTroves
<1>6. TypeOK /\ SnapshotsBehind /\ SnapshotsBehind'
  BY DEF Ledger
<1>7. stakes' \in [Borrowers -> Amounts] /\ snapshotDebt' \in [Borrowers -> Amounts] /\ defaultDebt' \in Nat
  BY DEF Ledger, TypeOK
<1>8. ASSUME NEW x \in D, NEW c \in Collaterals
      PROVE  stakes'[x][c] = 0 \/ snapshotDebt'[x][c] = E_USDEDebt[c]
  <2>1. x \in met /\ x \in Borrowers /\ IsActive(x)
    BY <1>5
  <2>2. CASE x \in closed
    BY <1>1, <1>2, <2>2, PlusMinusTypes
  <2>3. CASE x \notin closed /\ x \in touched
    BY <1>1, <2>1, <2>3
  <2>4. CASE x \notin closed /\ x \notin touched
    <3>1. snapshotDebt'[x] = snapshotDebt[x] /\ ~HasPendingRewards(x)
      BY <1>1, <1>3, <2>1, <2>4
    <3>2. snapshotDebt[x] = E_USDEDebt
      BY <1>6, <2>1, <3>1, SeenDebtIsApplied
    <3> QED BY <3>1, <3>2
  <2> QED BY <2>2, <2>3, <2>4
<1>9. \A x \in Borrowers \ D : stakes'[x] = stakes[x] /\ snapshotDebt'[x] = snapshotDebt[x]
  BY <1>1, <1>2
<1> HIDE DEF D
<1>10. defaultDebt' >= defaultDebt - SumFunctionOnSet(PendingDebts, D)
  <2> DEFINE f == PendingDebts
  <2>1. \A x \in Borrowers : f[x] \in Nat
    BY <1>6, PendingSumTypes
  <2>2. acc.pendDebt = SumFunctionOnSet(f, touched)
    BY <1>3
  <2> HIDE DEF f
  <2>3. SumFunctionOnSet(f, touched) \in Nat /\ SumFunctionOnSet(f, D) \in Nat
    BY <1>5, <2>1, ConstantTypes, SumOfNaturals
  <2>4. SumFunctionOnSet(f, touched) <= SumFunctionOnSet(f, D)
    <3>1. IsFiniteSet(D) /\ \A x \in D : f[x] \in Nat
      BY <1>5, <2>1, ConstantTypes, FS_Subset
    <3> QED BY <1>5, <3>1, SumOfPart
  <2>5. defaultDebt \in Nat
    BY <1>6 DEF TypeOK
  <2>6. Decreased(defaultDebt, acc.pendDebt) >= defaultDebt - acc.pendDebt
        /\ Decreased(defaultDebt, acc.pendDebt) \in Nat
    BY <2>2, <2>3, <2>5, DecreasedIs
  <2>7. defaultDebt' >= defaultDebt - SumFunctionOnSet(f, D)
    BY <1>1, <2>2, <2>3, <2>4, <2>5, <2>6
  <2> QED BY <2>7 DEF f
<1> QED BY <1>1, <1>5, <1>6, <1>7, <1>8, <1>9, <1>10, DebtTakenIn

\* Redemptions and refreshes keep the promises of debt.
LEMMA RedemptionKeepsDebts ==
  ASSUME Books, Ledger, Ledger', RewardsSeen, DebtPromisesKept, Redemption
  PROVE  DebtPromisesKept'
<1>1. ASSUME NEW b \in Borrowers, UpdateTrove(b)
      PROVE  DebtPromisesKept'
  BY <1>1, DebtsLeftAlone DEF UpdateTrove, stakeVars, snapshotVars, rewardVars, poolVars
<1> QED BY <1>1, RedemptionWalks, SettleRedemptionKeepsDebts

\* Prices, deposits and gas compensations keep the promises of debt.
LEMMA EnvironmentKeepsDebts ==
  ASSUME DebtPromisesKept, Environment
  PROVE  DebtPromisesKept'
<1>1. UNCHANGED <<stakes, snapshotDebt, E_USDEDebt, lastUSDEDebtError, defaultDebt>>
  BY DEF Environment, SetPrice, SetGasCompensation, ProvideToSP, WithdrawFromSP,
         MoveToStabilityPool, stakeVars, snapshotVars, rewardVars, poolVars
<1> QED BY <1>1, DebtsLeftAlone

-----------------------------------------------------------------------------
(* The debt a liquidation shares out.                                      *)

\* The shares of a debt by value add up to no more than the debt.
LEMMA SharesOfDebt ==
  ASSUME NEW v \in Amounts, NEW debt \in Nat,
         NEW total, total = SumFunctionOnSet(v, Collaterals),
         NEW p \in Amounts,
         \A c \in Collaterals : p[c] = IF total > 0 THEN (v[c] * debt) \div total ELSE 0
  PROVE  SumFunctionOnSet(p, Collaterals) <= debt
<1>1. /\ total \in Nat /\ SumFunctionOnSet(p, Collaterals) \in Nat
      /\ \A c \in Collaterals : v[c] \in Nat /\ p[c] \in Nat
  BY SumsOfAmounts DEF Amounts
<1>2. CASE total = 0
  <2>1. SumFunctionOnSet(p, Collaterals) = 0
    BY <1>1, <1>2, ConstantTypes, SumOfZeros
  <2> QED BY <2>1
<1>3. CASE total # 0
  <2> DEFINE g == [c \in Collaterals |-> total * p[c]]
             h == [c \in Collaterals |-> debt * v[c]]
             s == SumFunctionOnSet(p, Collaterals)
  <2>1. ASSUME NEW c \in Collaterals
        PROVE  g[c] \in Int /\ h[c] \in Int /\ g[c] <= h[c] /\ g[c] = total * p[c] /\ h[c] = debt * v[c]
    <3>1. v[c] * debt \in Nat /\ v[c] * debt = debt * v[c] /\ debt * v[c] \in Nat
      BY <1>1, Z3
    <3>2. total * ((v[c] * debt) \div total) <= v[c] * debt /\ total * ((v[c] * debt) \div total) \in Nat
      BY <1>1, <1>3, <3>1, Division
    <3>3. p[c] = (v[c] * debt) \div total
      BY <1>1, <1>3
    <3> QED BY <3>1, <3>2, <3>3
  <2> HIDE DEF g, h
  <2>2. SumFunctionOnSet(g, Collaterals) <= SumFunctionOnSet(h, Collaterals)
    BY <2>1, ConstantTypes, SumMonotone
  <2>3. SumFunctionOnSet(g, Collaterals) = total * s
    <3> DEFINE k == total
    <3>1. k \in Int /\ \A c \in Collaterals : p[c] \in Int /\ g[c] = k * p[c]
      BY <1>1, <2>1
    <3> HIDE DEF k
    <3>2. SumFunctionOnSet(g, Collaterals) = k * SumFunctionOnSet(p, Collaterals)
      BY <3>1, ConstantTypes, SumScaled
    <3> QED BY <3>2 DEF k
  <2>4. SumFunctionOnSet(h, Collaterals) = debt * total
    <3>1. \A c \in Collaterals : v[c] \in Int /\ h[c] = debt * v[c]
      BY <1>1, <2>1
    <3> QED BY <3>1, ConstantTypes, SumScaled
  <2>5. total * s <= debt * total
    BY <2>2, <2>3, <2>4
  <2> HIDE DEF s
  <2>6. s <= debt
    <3>1. s \in Nat /\ total \in Nat \ {0}
      BY <1>1, <1>3 DEF s
    <3> QED BY <2>5, <3>1, Z3
  <2> QED BY <2>6 DEF s
<1> QED BY <1>1, <1>2, <1>3

\* The debt shared among the collaterals is no more than what is redistributed.
LEMMA ProratedIsPart ==
  ASSUME Priced, NEW t, t.redColl \in Amounts, t.redist \in Nat
  PROVE  Prorated(t) \in Amounts /\ SumFunctionOnSet(Prorated(t), Collaterals) <= t.redist
<1> DEFINE v == Values(t.redColl)
           total == ValueOf(t.redColl)
           p == Prorated(t)
           debt == t.redist
<1>1. p \in Amounts /\ v \in Amounts /\ debt \in Nat
  BY ProratedTypes, ValueIsNat
<1>2. total = SumFunctionOnSet(v, Collaterals)
  BY <1>1, SumsOfAmounts DEF ValueOf
<1>3. \A c \in Collaterals : p[c] = IF total > 0 THEN (v[c] * debt) \div total ELSE 0
  BY DEF Prorated
<1> HIDE DEF v, total, p, debt
<1>4. SumFunctionOnSet(p, Collaterals) <= debt
  BY <1>1, <1>2, <1>3, SharesOfDebt
<1> QED BY <1>1, <1>4 DEF p, debt

\* What is added to the debt sums, with the new error.
LEMMA RedistributeSpreadsDebt ==
  ASSUME TypeOK, NEW t, t.redColl \in Amounts, t.redist \in Nat, t.stakes \in Amounts,
         Covers(totalStakes, t.stakes), Redistribute(t), NEW c \in Collaterals
  PROVE  \E q \in Nat :
           /\ E_USDEDebt'[c] = E_USDEDebt[c] + q
           /\ \/ lastUSDEDebtError'[c] = lastUSDEDebtError[c] /\ q = 0
              \/ /\ t.redist # 0
                 /\ q * (totalStakes[c] - t.stakes[c]) + lastUSDEDebtError'[c]
                      = Prorated(t)[c] * DECIMAL_PRECISION + lastUSDEDebtError[c]
<1> DEFINE shared == Minus(totalStakes, t.stakes)
           n == Prorated(t)[c] * DECIMAL_PRECISION + lastUSDEDebtError[c]
           q == n \div shared[c]
<1>1. /\ shared[c] = totalStakes[c] - t.stakes[c] /\ shared[c] \in Nat
      /\ E_USDEDebt[c] \in Nat /\ lastUSDEDebtError[c] \in Nat
  <2>1. shared \in Amounts /\ shared[c] = totalStakes[c] - t.stakes[c]
    BY PlusMinusTypes DEF TypeOK
  <2> QED BY <2>1 DEF TypeOK, Amounts
<1>2. n \in Nat
  <2>1. Prorated(t) \in Amounts
    BY PricesArePrices, ProratedTypes
  <2>2. Prorated(t)[c] \in Nat
    BY <2>1 DEF Amounts
  <2> QED BY <1>1, <2>2, ConstantTypes
<1>3. CASE t.redist = 0
  <2>1. E_USDEDebt'[c] = E_USDEDebt[c] + 0 /\ lastUSDEDebtError'[c] = lastUSDEDebtError[c] /\ 0 \in Nat
    BY <1>1, <1>3 DEF Redistribute, rewardVars
  <2> QED BY <2>1
<1>4. CASE t.redist # 0
  <2>1. /\ E_USDEDebt'[c] = IF shared[c] = 0 THEN E_USDEDebt[c] ELSE E_USDEDebt[c] + q
        /\ lastUSDEDebtError'[c] = IF shared[c] = 0 THEN lastUSDEDebtError[c] ELSE n % shared[c]
    BY <1>4 DEF Redistribute
  <2> HIDE DEF n, shared
  <2>2. CASE shared[c] = 0
    <3>1. E_USDEDebt'[c] = E_USDEDebt[c] + 0 /\ lastUSDEDebtError'[c] = lastUSDEDebtError[c] /\ 0 \in Nat
      BY <1>1, <2>1, <2>2
    <3> QED BY <3>1
  <2>3. CASE shared[c] # 0
    <3>1. q \in Nat /\ q * shared[c] + (n % shared[c]) = n
      BY <1>1, <1>2, <2>3, SpreadExactly
    <3>2. E_USDEDebt'[c] = E_USDEDebt[c] + q /\ lastUSDEDebtError'[c] = n % shared[c]
      BY <2>1, <2>3
    <3> HIDE DEF q
    <3>3. q * (totalStakes[c] - t.stakes[c]) + lastUSDEDebtError'[c] = n
      BY <1>1, <3>1, <3>2
    <3> QED BY <1>4, <3>1, <3>2, <3>3 DEF n
  <2> QED BY <2>2, <2>3
<1> QED BY <1>3, <1>4

\* What the debt sums promise once C is closed and the rest shared out.
LEMMA SettleKeepsDebts ==
  ASSUME Ledger, Ledger', DebtPromisesKept, NEW acc, LiquidationWalk(acc), LiquidationLedger(acc),
         Settle(acc)
  PROVE  DebtPromisesKept'
<1> DEFINE t == acc.totals
           C == acc.closed
           added == IF t.redist = 0 THEN Zeros ELSE Prorated(t)
           stk == stakes'
           snaps == snapshotDebt'
           new == E_USDEDebt'
<1>1. /\ Covers(totalStakes, t.stakes)
      /\ stakes' = Cleared(stakes, C, Zeros)
      /\ snapshotDebt' = Cleared(snapshotDebt, C, Zeros)
      /\ totalStakes' = Minus(totalStakes, t.stakes)
      /\ Redistribute(t)
      /\ defaultDebt' = Decreased(defaultDebt, t.pendDebt) + t.redist
  BY DEF Settle, Cleared
<1>2. TotalsOf(C, t)
  BY DEF LiquidationLedger
<1>3. C \in SUBSET Borrowers
  BY DEF LiquidationWalk, BooksOf, ActiveTroves
<1> HIDE DEF C, t
<1>4. TypeOK /\ SnapshotsBehind /\ Totals' /\ Priced
  BY PricesArePrices DEF Ledger
<1>5. /\ t.redColl \in Amounts /\ t.redist \in Nat /\ t.stakes \in Amounts /\ t.pendDebt \in Nat
      /\ t.pendDebt = SumFunctionOnSet(PendingDebts, C)
  BY <1>2 DEF TotalsOf
<1>6. /\ stakes \in [Borrowers -> Amounts] /\ snapshotDebt \in [Borrowers -> Amounts]
      /\ E_USDEDebt \in Amounts /\ lastUSDEDebtError \in Amounts /\ totalStakes \in Amounts
      /\ defaultDebt \in Nat
  BY <1>4 DEF TypeOK
<1>7. /\ stk \in [Borrowers -> Amounts] /\ snaps \in [Borrowers -> Amounts]
      /\ new \in Amounts /\ lastUSDEDebtError' \in Amounts /\ defaultDebt' \in Nat
  BY DEF Ledger, TypeOK
<1>8. /\ \A x \in Borrowers \ C : stk[x] = stakes[x] /\ snaps[x] = snapshotDebt[x]
      /\ \A x \in C : stk[x] = Zeros /\ snaps[x] = Zeros
  BY <1>1, <1>3 DEF Cleared
<1>9. ASSUME NEW x \in Borrowers, NEW c \in Collaterals
      PROVE  snaps[x][c] <= E_USDEDebt[c]
  <2>1. snapshotDebt[x][c] <= E_USDEDebt[c] /\ E_USDEDebt[c] \in Nat /\ Zeros[c] = 0
    BY <1>4, <1>6, PlusMinusTypes DEF SnapshotsBehind, Amounts
  <2> QED BY <1>8, <2>1
<1> HIDE DEF stk, snaps, new
<1>10. PICK left \in Amounts :
         /\ SumFunctionOnSet(left, Collaterals) <= defaultDebt - SumFunctionOnSet(PendingDebts, C)
         /\ \A c \in Collaterals :
              Total(PromisedTo(stk, E_USDEDebt, snaps, c)) + lastUSDEDebtError[c]
                <= DECIMAL_PRECISION * left[c]
  <2>1. \A x \in C, c \in Collaterals : stk[x][c] = 0 \/ snaps[x][c] = E_USDEDebt[c]
    BY <1>8, PlusMinusTypes
  <2> QED BY <1>3, <1>4, <1>7, <1>8, <1>9, <2>1, DebtTakenOut
<1>11. added \in Amounts /\ SumFunctionOnSet(added, Collaterals) <= t.redist
  <2>1. Prorated(t) \in Amounts /\ SumFunctionOnSet(Prorated(t), Collaterals) <= t.redist
    BY <1>4, <1>5, ProratedIsPart
  <2>2. CASE t.redist = 0
    <3> DEFINE z == Zeros
    <3>1. z \in Amounts /\ \A c \in Collaterals : z[c] = 0
      BY PlusMinusTypes
    <3> HIDE DEF z
    <3>2. SumFunctionOnSet(z, Collaterals) = 0
      BY <3>1, ConstantTypes, SumOfZeros
    <3>3. added = z
      BY <2>2 DEF z
    <3> HIDE DEF added
    <3> QED BY <2>2, <3>1, <3>2, <3>3
  <2>3. CASE t.redist # 0
    <3>1. added = Prorated(t)
      BY <2>3
    <3> HIDE DEF added
    <3> QED BY <2>1, <3>1
  <2> QED BY <2>2, <2>3
<1>12. \A c \in Collaterals : t.redist # 0 => added[c] = Prorated(t)[c]
  OBVIOUS
<1> HIDE DEF added
<1> DEFINE d == Plus(left, added)
<1>13. d \in Amounts /\ \A c \in Collaterals : d[c] = left[c] + added[c]
  BY <1>11, PlusMinusTypes
<1> HIDE DEF d
<1>14. SumFunctionOnSet(d, Collaterals) <= defaultDebt'
  <2>1. \A c \in Collaterals : left[c] \in Int /\ added[c] \in Int /\ d[c] = left[c] + added[c]
    BY <1>11, <1>13 DEF Amounts
  <2>2. SumFunctionOnSet(d, Collaterals)
          = SumFunctionOnSet(left, Collaterals) + SumFunctionOnSet(added, Collaterals)
    BY <2>1, ConstantTypes, SumOfSums
  <2>3. SumFunctionOnSet(left, Collaterals) \in Nat /\ SumFunctionOnSet(added, Collaterals) \in Nat
    BY <1>11, SumsOfAmounts
  <2>4. Decreased(defaultDebt, t.pendDebt) >= defaultDebt - t.pendDebt
        /\ Decreased(defaultDebt, t.pendDebt) \in Nat
    BY <1>5, <1>6, DecreasedIs
  <2>5. SumFunctionOnSet(left, Collaterals) <= defaultDebt - t.pendDebt
    BY <1>5, <1>10
  <2> QED BY <1>1, <1>5, <1>6, <1>11, <2>2, <2>3, <2>4, <2>5
<1>15. ASSUME NEW c \in Collaterals
       PROVE  Total(PromisedTo(stk, new, snaps, c)) + lastUSDEDebtError'[c] <= DECIMAL_PRECISION * d[c]
  <2> DEFINE g == Total(PromisedTo(stk, E_USDEDebt, snaps, c))
             h == Total(PromisedTo(stk, new, snaps, c))
             l == left[c]
             r == added[c]
             shared == totalStakes[c] - t.stakes[c]
             P == DECIMAL_PRECISION
             k == lastUSDEDebtError[c]
             m == lastUSDEDebtError'[c]
  <2>1. g \in Nat /\ g + k <= P * l
    <3> DEFINE f == PromisedTo(stk, E_USDEDebt, snaps, c)
    <3>1. \A x \in Borrowers : f[x] \in Nat
      <4> TAKE x \in Borrowers
      <4>1. stk[x][c] \in Nat /\ E_USDEDebt[c] \in Nat /\ snaps[x][c] \in Nat
        BY <1>6, <1>7 DEF Amounts
      <4>2. stk[x][c] * (E_USDEDebt[c] - snaps[x][c]) \in Nat
        BY <1>9, <4>1, RewardIsPart
      <4> QED BY <4>2 DEF PromisedTo
    <3>2. Total(f) + k <= P * l
      BY <1>10
    <3> HIDE DEF f
    <3>3. Total(f) \in Nat
      BY <3>1, TotalIsNat
    <3> QED BY <3>2, <3>3 DEF f
  <2>2. PICK q \in Nat :
          /\ E_USDEDebt'[c] = E_USDEDebt[c] + q
          /\ \/ m = k /\ q = 0
             \/ /\ t.redist # 0
                /\ q * shared + m = Prorated(t)[c] * P + k
    BY <1>1, <1>4, <1>5, RedistributeSpreadsDebt
  <2>3. h = g + q * shared
    <3>1. /\ E_USDEDebt \in Amounts /\ new[c] = E_USDEDebt[c] + q
          /\ \A x \in Borrowers : snaps[x][c] <= E_USDEDebt[c]
      BY <1>6, <1>9, <2>2 DEF new
    <3> DEFINE old == E_USDEDebt
    <3>2. /\ old \in Amounts /\ new[c] = old[c] + q
          /\ \A x \in Borrowers : snaps[x][c] <= old[c]
      BY <3>1
    <3> HIDE DEF old
    <3>3. Total(PromisedTo(stk, new, snaps, c))
            = Total(PromisedTo(stk, old, snaps, c)) + q * Total(Col(stk, c))
      BY <1>7, <3>2, RaisedPromises
    <3>4. totalStakes'[c] = Total(Col(stk, c))
      BY <1>4 DEF Totals, stk
    <3>5. totalStakes'[c] = shared
      BY <1>1, <1>5, <1>6, PlusMinusTypes
    <3> QED BY <3>3, <3>4, <3>5 DEF old
  <2>4. /\ l \in Nat /\ shared \in Nat /\ P \in Nat /\ k \in Nat /\ m \in Nat /\ r \in Nat
    BY <1>1, <1>5, <1>6, <1>7, <1>11, ConstantTypes DEF Amounts, Covers
  <2>5. d[c] = l + r /\ (t.redist # 0 => r = Prorated(t)[c])
    BY <1>12, <1>13
  <2> HIDE DEF g, h, l, r, shared, P, k, m
  <2>6. P * (l + r) = P * l + r * P
    BY <2>4, Z3
  <2>7. q * shared \in Nat /\ P * l \in Nat /\ r * P \in Nat
    BY <2>4
  <2>8. q * shared + m <= r * P + k
    <3>1. CASE m = k /\ q = 0
      <4>1. q * shared = 0
        BY <2>4, <3>1
      <4> QED BY <2>4, <2>7, <3>1, <4>1
    <3>2. CASE t.redist # 0 /\ q * shared + m = Prorated(t)[c] * P + k
      <4>1. r = Prorated(t)[c]
        BY <2>5, <3>2
      <4>2. r * P = Prorated(t)[c] * P
        BY <4>1
      <4> QED BY <2>4, <2>7, <3>2, <4>2
    <3> QED BY <2>2, <3>1, <3>2
  <2>9. h + m <= P * (l + r)
    BY <2>1, <2>3, <2>4, <2>6, <2>7, <2>8
  <2> QED BY <2>5, <2>9 DEF h, m, P
<1>16. \A c \in Collaterals :
         Total(PromisedTo(stakes', E_USDEDebt', snapshotDebt', c)) + lastUSDEDebtError'[c]
           <= DECIMAL_PRECISION * d[c]
  BY <1>15 DEF stk, snaps, new
<1> QED BY <1>13, <1>14, <1>16 DEF DebtPromisesKept, DebtPromised, Total

\* Before anything was called no debt is promised.
LEMMA InitDebts == Init => DebtPromisesKept
<1> SUFFICES ASSUME Init PROVE DebtPromisesKept
  OBVIOUS
<1>1. /\ stakes = [b \in Borrowers |-> Zeros] /\ snapshotDebt = [b \in Borrowers |-> Zeros]
      /\ E_USDEDebt = Zeros /\ lastUSDEDebtError = Zeros /\ defaultDebt = 0
  BY DEF Init, InitTroveManager
<1>2. Zeros \in Amounts /\ \A c \in Collaterals : Zeros[c] = 0
  BY PlusMinusTypes
<1>3. ASSUME NEW c \in Collaterals
      PROVE  Total(DebtPromised(c)) + lastUSDEDebtError[c] <= DECIMAL_PRECISION * Zeros[c]
  <2> DEFINE f == DebtPromised(c)
  <2>1. \A x \in Borrowers : f[x] = 0
    BY <1>1, <1>2 DEF DebtPromised, PromisedTo
  <2> HIDE DEF f
  <2>2. Total(f) = 0
    BY <2>1, InitTotals
  <2>3. lastUSDEDebtError[c] = 0 /\ DECIMAL_PRECISION * 0 = 0
    BY <1>1, <1>2, ConstantTypes
  <2> QED BY <1>2, <2>2, <2>3 DEF f
<1>4. SumFunctionOnSet(Zeros, Collaterals) = 0
  BY <1>2, ConstantTypes, SumOfZeros
<1> QED BY <1>1, <1>2, <1>3, <1>4 DEF DebtPromisesKept

\* Every step keeps the promises of debt, from a state where the comparison of
\* the collaterals' sums tells which troves have rewards.
LEMMA NextKeepsDebts ==
  Books /\ Ledger /\ Ledger' /\ RewardsSeen /\ DebtPromisesKept /\ [Next]_vars => DebtPromisesKept'
<1> SUFFICES ASSUME Books, Ledger, Ledger', RewardsSeen, DebtPromisesKept, [Next]_vars
             PROVE  DebtPromisesKept'
  OBVIOUS
<1>1. CASE \E b \in Borrowers : BorrowerCall(b)
  BY <1>1, BorrowerCallKeepsDebts
<1>2. CASE Liquidation
  BY <1>2, LiquidationWalks, SettleKeepsDebts
<1>3. CASE Redemption
  BY <1>3, RedemptionKeepsDebts
<1>4. CASE Environment
  BY <1>4, EnvironmentKeepsDebts
<1>5. CASE UNCHANGED vars
  BY <1>5, DebtsLeftAlone DEF vars, troveVars, stakeVars, snapshotVars, rewardVars, poolVars
<1> QED BY <1>1, <1>2, <1>3, <1>4, <1>5 DEF Next

\* What the sums promise covers what is pending.
LEMMA PromisesCoverDebtRewards == Ledger /\ DebtPromisesKept => DebtRewardsCovered
<1> SUFFICES ASSUME Ledger, DebtPromisesKept PROVE DebtRewardsCovered
  OBVIOUS
<1>1. TypeOK /\ SnapshotsBehind
  BY DEF Ledger
<1>2. PICK d \in Amounts :
        /\ SumFunctionOnSet(d, Collaterals) <= defaultDebt
        /\ \A c \in Collaterals :
             Total(DebtPromised(c)) + lastUSDEDebtError[c] <= DECIMAL_PRECISION * d[c]
  BY DEF DebtPromisesKept
<1> DEFINE D == Borrowers
           parts == PartsOf(D)
<1>3. parts \in Amounts /\ SumFunctionOnSet(PendingDebts, D) = SumFunctionOnSet(parts, Collaterals)
  BY <1>1, PendingOfParts
<1>4. ASSUME NEW c \in Collaterals
      PROVE  parts[c] <= d[c]
  <2> DEFINE p == parts[c]
             P == DECIMAL_PRECISION
             m == d[c]
             k == lastUSDEDebtError[c]
             promised == Total(DebtPromised(c))
  <2>1. /\ P * p <= promised /\ p \in Nat /\ P * p \in Nat /\ promised \in Nat
    BY <1>1, PartsArePromised DEF Total
  <2>2. promised + k <= P * m
    BY <1>2
  <2>3. P \in Nat \ {0} /\ m \in Nat /\ k \in Nat
    BY <1>1, ConstantTypes DEF TypeOK, Amounts
  <2> HIDE DEF p, P, m, k, promised
  <2>4. P * m \in Nat
    BY <2>3
  <2>5. P * p <= P * m
    BY <2>1, <2>2, <2>3, <2>4
  <2>6. p <= m
    BY <2>1, <2>3, <2>5, Z3
  <2> QED BY <2>6 DEF p, m
<1> HIDE DEF parts, D
<1>5. \A c \in Collaterals : parts[c] \in Int /\ d[c] \in Int /\ parts[c] <= d[c]
  BY <1>3, <1>4 DEF Amounts
<1>6. SumFunctionOnSet(parts, Collaterals) <= SumFunctionOnSet(d, Collaterals)
  BY <1>5, ConstantTypes, SumMonotone
<1>7. SumFunctionOnSet(parts, Collaterals) \in Nat /\ SumFunctionOnSet(d, Collaterals) \in Nat
  BY <1>3, SumsOfAmounts
<1>8. defaultDebt \in Nat
  BY <1>1 DEF TypeOK
<1>9. Total(PendingDebts) <= defaultDebt
  BY <1>2, <1>3, <1>6, <1>7, <1>8 DEF D, Total
<1> QED BY <1>9, DebtRewardsAreTotalled

\* While the comparison of the collaterals' sums tells which troves have
\* rewards, the DefaultPool can pay the pending debt of all troves, too.
THEOREM RewardsCoveredWhileSeen == Spec /\ []RewardsSeen => []RewardsCovered
<1>1. Books /\ Ledger /\ Ledger' /\ RewardsSeen /\ DebtPromisesKept /\ [Next]_vars => DebtPromisesKept'
  BY NextKeepsDebts
<1>2. Ledger /\ DebtPromisesKept /\ CollRewardsCovered => RewardsCovered
  BY PromisesCoverDebtRewards DEF RewardsCovered
<1> QED BY <1>1, <1>2, InitDebts, LedgerHolds, BooksAlwaysAgree, CollRewardsAlwaysCovered, PTL DEF Spec

\* And as long, the USDE in circulation is exactly what is owed.
THEOREM BackedWhileSeen == Spec /\ []RewardsSeen => []USDEBacked
<1>1. RewardsCovered => DebtRewardsCovered
  BY DEF RewardsCovered
<1> QED BY <1>1, RewardsCoveredWhileSeen, BackedWhileRewardsCovered, PTL

-----------------------------------------------------------------------------
(* The mode of the system, before and after the call of a borrower.        *)

\* A quotient reaches what its divisor reaches so many times.
LEMMA QuotientReaches ==
  ASSUME NEW a \in Nat, NEW d \in Nat \ {0}, NEW k \in Nat
  PROVE  k <= a \div d <=> k * d <= a
<1> DEFINE q == a \div d
<1>1. q \in Nat /\ a % d \in Nat /\ a % d < d /\ a = d * q + (a % d)
  <2>1. a % d \in 0..(d - 1)
    BY Z3
  <2> QED BY <2>1, Division
<1> DEFINE r == a % d
<1> HIDE DEF q, r
<1>2. r \in Nat /\ r < d /\ a = d * q + r
  BY <1>1 DEF r
<1>3. k <= q => k * d <= d * q
  BY <1>1, Z3
<1>4. k > q => k * d >= d * q + d
  BY <1>1, Z3
<1>5. k * d \in Nat /\ d * q \in Nat
  BY <1>1, Z3
<1>6. k <= q <=> k * d <= a
  BY <1>1, <1>2, <1>3, <1>4, <1>5
<1> QED BY <1>6 DEF q

\* A ratio reaches a number: no division is left.
LEMMA RatioReaches ==
  ASSUME NEW value \in Nat, NEW debt \in Nat \ {0}, NEW k \in Nat
  PROVE  k <= ComputeCR(value, debt) <=> k * debt <= value * DECIMAL_PRECISION
<1>1. ComputeCR(value, debt) = (value * DECIMAL_PRECISION) \div debt
  BY DEF ComputeCR
<1> DEFINE a == value * DECIMAL_PRECISION
<1>2. a \in Nat
  BY ConstantTypes
<1> HIDE DEF a
<1>3. k <= a \div debt <=> k * debt <= a
  BY <1>2, QuotientReaches
<1> QED BY <1>1, <1>3 DEF a

\* The more the collateral is worth, the higher the ratio.
LEMMA RatioGrows ==
  ASSUME NEW v \in Nat, NEW w \in Nat, v <= w, NEW debt \in Nat
  PROVE  ComputeCR(v, debt) <= ComputeCR(w, debt)
<1>1. CASE debt = 0
  BY <1>1, ConstantTypes DEF ComputeCR
<1>2. CASE debt # 0
  <2> DEFINE k == ComputeCR(v, debt)
  <2>1. k \in Nat /\ k <= k
    BY RatioIsNat
  <2> HIDE DEF k
  <2>2. k <= ComputeCR(v, debt)
    BY <2>1 DEF k
  <2>3. k * debt <= v * DECIMAL_PRECISION
    BY <1>2, <2>1, <2>2, RatioReaches
  <2>4. v * DECIMAL_PRECISION <= w * DECIMAL_PRECISION
    BY ConstantTypes, Z3
  <2>5. k * debt \in Nat /\ v * DECIMAL_PRECISION \in Nat /\ w * DECIMAL_PRECISION \in Nat
    BY <2>1, ConstantTypes
  <2>6. k * debt <= w * DECIMAL_PRECISION
    BY <2>3, <2>4, <2>5
  <2>7. k <= ComputeCR(w, debt)
    BY <1>2, <2>1, <2>6, RatioReaches
  <2> QED BY <2>7 DEF k
<1> QED BY <1>1, <1>2

\* More of every collateral is worth more.
LEMMA MoreIsWorthMore ==
  ASSUME Priced, NEW f \in Amounts, NEW g \in Amounts, Covers(g, f)
  PROVE  ValueOf(f) <= ValueOf(g)
<1> DEFINE x == Values(f)
           y == Values(g)
<1>1. ASSUME NEW c \in Collaterals
      PROVE  x[c] \in Int /\ y[c] \in Int /\ x[c] <= y[c]
  <2>1. f[c] \in Nat /\ g[c] \in Nat /\ f[c] <= g[c] /\ price[c] \in Nat
    BY DEF Amounts, Covers, Priced
  <2>2. f[c] * price[c] \in Int /\ g[c] * price[c] \in Int /\ f[c] * price[c] <= g[c] * price[c]
    BY <2>1, Z3
  <2> QED BY <2>2 DEF Values
<1>2. x \in Amounts /\ y \in Amounts /\ ValueOf(f) = SumFunction(x) /\ ValueOf(g) = SumFunction(y)
  BY ValueIsNat DEF ValueOf
<1> HIDE DEF x, y
<1>3. SumFunctionOnSet(x, Collaterals) <= SumFunctionOnSet(y, Collaterals)
  BY <1>1, ConstantTypes, SumMonotone
<1> QED BY <1>2, <1>3, SumsOfAmounts

\* The value of two arrays of amounts together.
LEMMA ValueOfBoth ==
  ASSUME Priced, NEW f \in Amounts, NEW g \in Amounts
  PROVE  /\ ValueOf(Plus(f, g)) = ValueOf(f) + ValueOf(g)
         /\ ValueOf(f) \in Nat /\ ValueOf(g) \in Nat
<1> DEFINE h == Plus(f, g)
           x == Values(h)
           y == Values(f)
           z == Values(g)
<1>1. h \in Amounts /\ \A c \in Collaterals : h[c] = f[c] + g[c]
  BY PlusMinusTypes
<1> HIDE DEF h
<1>2. ASSUME NEW c \in Collaterals
      PROVE  x[c] \in Int /\ y[c] \in Int /\ z[c] \in Int /\ x[c] = y[c] + z[c]
  <2>1. h[c] = f[c] + g[c] /\ f[c] \in Nat /\ g[c] \in Nat /\ h[c] \in Nat /\ price[c] \in Nat
    BY <1>1 DEF Amounts, Priced
  <2>2. x[c] = h[c] * price[c] /\ y[c] = f[c] * price[c] /\ z[c] = g[c] * price[c]
    BY DEF Values
  <2> HIDE DEF x, y, z
  <2>3. (f[c] + g[c]) * price[c] = f[c] * price[c] + g[c] * price[c]
    BY <2>1, Z3
  <2>4. f[c] * price[c] \in Nat /\ g[c] * price[c] \in Nat
    BY <2>1
  <2> QED BY <2>1, <2>2, <2>3, <2>4
<1>3. /\ x \in Amounts /\ y \in Amounts /\ z \in Amounts
      /\ ValueOf(h) = SumFunction(x) /\ ValueOf(f) = SumFunction(y) /\ ValueOf(g) = SumFunction(z)
      /\ ValueOf(f) \in Nat /\ ValueOf(g) \in Nat
  BY <1>1, ValueIsNat DEF ValueOf
<1> HIDE DEF x, y, z
<1>4. SumFunctionOnSet(x, Collaterals) = SumFunctionOnSet(y, Collaterals) + SumFunctionOnSet(z, Collaterals)
  BY <1>2, ConstantTypes, SumOfSums
<1>5. ValueOf(h) = ValueOf(f) + ValueOf(g)
  BY <1>3, <1>4, SumsOfAmounts
<1> QED BY <1>3, <1>5 DEF h

\* Types of the system's totals.
LEMMA SystemTypes ==
  ASSUME TypeOK
  PROVE  /\ EntireSystemColl \in Amounts
         /\ \A c \in Collaterals : EntireSystemColl[c] = Total(Col(eToken, c)) + defaultColl[c]
         /\ EntireSystemDebt \in Nat
         /\ EntireSystemDebt = troveDebtSupply + defaultDebt + gasPool
<1>1. eToken \in [Borrowers -> Amounts] /\ defaultColl \in Amounts
  BY DEF TypeOK
<1>2. ASSUME NEW c \in Collaterals
      PROVE  /\ EntireSystemColl[c] = Total(Col(eToken, c)) + defaultColl[c]
             /\ Total(Col(eToken, c)) + defaultColl[c] \in Nat
             /\ ETokenSupply(c) = Total(Col(eToken, c))
  <2>1. ETokenSupply(c) = SumFunction(Col(eToken, c)) /\ DOMAIN Col(eToken, c) = Borrowers
    BY DEF ETokenSupply, Col
  <2>2. ETokenSupply(c) = Total(Col(eToken, c))
    BY <2>1, SumsOverOwners
  <2>3. \A x \in Borrowers : Col(eToken, c)[x] \in Nat
    BY <1>1, ColIsAt
  <2>4. Total(Col(eToken, c)) \in Nat /\ defaultColl[c] \in Nat
    BY <1>1, <2>3, TotalIsNat DEF Amounts
  <2>5. EntireSystemColl[c] = ETokenSupply(c) + defaultColl[c]
    BY DEF EntireSystemColl
  <2> QED BY <2>2, <2>4, <2>5
<1>3. EntireSystemColl \in Amounts
  <2>1. \A c \in Collaterals : ETokenSupply(c) + defaultColl[c] \in Nat
    BY <1>2
  <2> QED BY <2>1 DEF EntireSystemColl, Amounts
<1>4. EntireSystemDebt \in Nat /\ EntireSystemDebt = troveDebtSupply + defaultDebt + gasPool
  BY DEF EntireSystemDebt, TypeOK
<1> QED BY <1>2, <1>3, <1>4

\* The system's collateral after a step that concerns one trove.
LEMMA OneTroveSystem ==
  ASSUME TypeOK, NEW b \in Borrowers, NEW e \in Amounts, NEW k \in Amounts,
         eToken' = [eToken EXCEPT ![b] = e], defaultColl' \in Amounts,
         \A c \in Collaterals :
           k[c] = EntireSystemColl[c] - eToken[b][c] - defaultColl[c] + e[c] + defaultColl'[c]
  PROVE  EntireSystemColl' = k
<1>1. eToken \in [Borrowers -> Amounts] /\ defaultColl \in Amounts
  BY DEF TypeOK
<1>2. /\ eToken' \in [Borrowers -> Amounts]
      /\ eToken' = [eToken EXCEPT ![b] = e]
  BY <1>1
<1>3. ASSUME NEW c \in Collaterals
      PROVE  ETokenSupply(c)' + defaultColl'[c] = k[c]
  <2>1. ETokenSupply(c)' = SumFunction(Col(eToken', c)) /\ DOMAIN Col(eToken', c) = Borrowers
    BY DEF ETokenSupply, Col
  <2> DEFINE g == Col(eToken', c)
  <2>2. ETokenSupply(c)' = Total(g)
    <3> HIDE DEF g
    <3> QED BY <2>1, SumsOverOwners DEF g
  <2>3. /\ Total(g) = Total(Col(eToken, c)) - eToken[b][c] + e[c]
        /\ Total(Col(eToken, c)) \in Nat /\ eToken[b][c] \in Nat /\ e[c] \in Nat
    <3>1. /\ Total(Col([eToken EXCEPT ![b] = e], c)) = Total(Col(eToken, c)) - eToken[b][c] + e[c]
          /\ Total(Col(eToken, c)) \in Nat /\ eToken[b][c] \in Nat /\ e[c] \in Nat
      BY <1>1, ColReplacedAt
    <3> QED BY <1>2, <3>1
  <2>4. defaultColl[c] \in Nat /\ defaultColl'[c] \in Nat
    BY <1>1 DEF Amounts
  <2>5. EntireSystemColl[c] = Total(Col(eToken, c)) + defaultColl[c]
    BY SystemTypes
  <2>6. k[c] = EntireSystemColl[c] - eToken[b][c] - defaultColl[c] + e[c] + defaultColl'[c]
    OBVIOUS
  <2> HIDE DEF g
  <2> QED BY <2>2, <2>3, <2>4, <2>5, <2>6
<1>4. EntireSystemColl' = [c \in Collaterals |-> ETokenSupply(c)' + defaultColl'[c]]
  BY DEF EntireSystemColl
<1>5. k = [c \in Collaterals |-> k[c]]
  BY DEF Amounts
<1> QED BY <1>3, <1>4, <1>5

\* The totals that a step leaves behind.
SystemAfter(coll, debt) ==
  EntireSystemColl' = coll /\ EntireSystemDebt' = debt /\ price' = price

\* The mode is the one that the TCR of these totals says.
LEMMA ModeAfter ==
  ASSUME NEW coll, NEW debt, SystemAfter(coll, debt)
  PROVE  RecoveryMode' <=> NewTCR(coll, debt) < CCR
<1>1. RecoveryMode' <=> ComputeCR(ValueOf(EntireSystemColl)', EntireSystemDebt') < CCR
  BY DEF RecoveryMode, ComputeCR
<1>2. ValueOf(EntireSystemColl)' = ValueOf(coll)
  BY DEF SystemAfter, ValueOf, Values
<1> QED BY <1>1, <1>2 DEF SystemAfter, NewTCR

\* The trove has taken in all rewards there were so far.
SettledUp(b) == snapshotColl[b] = E_Coll /\ snapshotDebt[b] = E_USDEDebt

\* Nothing is pending to a trove that took in its rewards, so its ratio is the
\* one of what is recorded of it.
LEMMA SettledICR ==
  TypeOK => \A b \in Borrowers : SettledUp(b) /\ IsActive(b) =>
    CurrentICR(b) = ComputeCR(ValueOf(eToken[b]), TroveDebtOf(b))
<1> SUFFICES ASSUME TypeOK, NEW b \in Borrowers, SettledUp(b), IsActive(b)
             PROVE  CurrentICR(b) = ComputeCR(ValueOf(eToken[b]), TroveDebtOf(b))
  OBVIOUS
<1>1. 0 \div DECIMAL_PRECISION = 0
  BY ConstantTypes, Z3
<1>2. ASSUME NEW c \in Collaterals
      PROVE  /\ (stakes[b][c] * (E_Coll[c] - snapshotColl[b][c])) \div DECIMAL_PRECISION = 0
             /\ (stakes[b][c] * (E_USDEDebt[c] - snapshotDebt[b][c])) \div DECIMAL_PRECISION = 0
  <2>1. stakes[b][c] \in Nat /\ E_Coll[c] \in Nat /\ E_USDEDebt[c] \in Nat
    BY DEF TypeOK, Amounts
  <2>2. E_Coll[c] - snapshotColl[b][c] = 0 /\ E_USDEDebt[c] - snapshotDebt[b][c] = 0
    BY <2>1 DEF SettledUp
  <2>3. stakes[b][c] * 0 = 0
    BY <2>1
  <2> QED BY <1>1, <2>2, <2>3
<1>3. PendingCollReward(b) = Zeros
  BY <1>2 DEF PendingCollReward, Zeros
<1>4. PendingUSDEDebtReward(b) = 0
  <2> DEFINE reward == [c \in Collaterals |->
        (stakes[b][c] * (E_USDEDebt[c] - snapshotDebt[b][c])) \div DECIMAL_PRECISION]
  <2>1. PendingUSDEDebtReward(b) = SumFunction(reward)
    BY DEF PendingUSDEDebtReward
  <2>2. reward \in Amounts /\ \A c \in Collaterals : reward[c] = 0
    BY <1>2 DEF Amounts
  <2> HIDE DEF reward
  <2> QED BY <2>1, <2>2, ConstantTypes, SumOfZeros, SumsOfAmounts
<1>5. eToken[b] \in Amounts /\ TroveDebtOf(b) \in Nat
  BY GasTypes DEF TypeOK, TroveDebtOf
<1>6. EntireColl(b) = eToken[b]
  <2>1. Plus(eToken[b], Zeros) \in Amounts /\ \A c \in Collaterals : Plus(eToken[b], Zeros)[c] = eToken[b][c]
    BY <1>5, PlusMinusTypes DEF Amounts
  <2>2. Plus(eToken[b], Zeros) = eToken[b]
    BY <1>5, <2>1, AmountsAreEqual
  <2> QED BY <1>3, <2>2 DEF EntireColl
<1>7. EntireDebt(b) = TroveDebtOf(b)
  BY <1>4, <1>5 DEF EntireDebt
<1> QED BY <1>6, <1>7 DEF CurrentICR

\* The same of the state after a step.
LEMMA SettledICRAfter ==
  TypeOK' => (\A b \in Borrowers : SettledUp(b) /\ IsActive(b) =>
    CurrentICR(b) = ComputeCR(ValueOf(eToken[b]), TroveDebtOf(b)))'
BY SettledICR, PTL

\* A step that does not bring about recovery mode.
KeepsMode == ~RecoveryMode => ~RecoveryMode'

\* A step that in recovery mode takes no collateral from the system and adds
\* debt only to a trove that ends at or above the CCR.
HelpsRecovery ==
  RecoveryMode =>
    /\ Covers(EntireSystemColl', EntireSystemColl)
    /\ \A x \in Borrowers : troveDebt'[x] > troveDebt[x] + PendingUSDEDebtReward(x)
                              => CurrentICR(x)' >= CCR

\* A part that is above a ratio which the rest is below, as the whole is above it.
LEMMA PartReaches ==
  ASSUME NEW v \in Nat, NEW w \in Nat, NEW d \in Nat, NEW n \in Nat \ {0}, NEW k \in Nat,
         ComputeCR(v, d) < k, ComputeCR(v + w, d) >= k, ComputeCR(v + w, d + n) >= k
  PROVE  ComputeCR(w, n) >= k
<1> DEFINE P == DECIMAL_PRECISION
<1>1. d # 0 /\ d + n \in Nat \ {0} /\ v + w \in Nat
  BY ConstantTypes DEF ComputeCR
<1>2. P \in Nat
  BY ConstantTypes
<1>3. ~(k <= ComputeCR(v, d))
  BY RatioIsNat
<1>4. k <= ComputeCR(v + w, d + n)
  BY <1>1, RatioIsNat
<1>5. ~(k * d <= v * P)
  BY <1>1, <1>3, RatioReaches
<1>6. k * (d + n) <= (v + w) * P
  BY <1>1, <1>4, RatioReaches
<1> HIDE DEF P
<1>7. k * (d + n) = k * d + k * n /\ (v + w) * P = v * P + w * P
  BY <1>2, Z3
<1>8. k * d \in Nat /\ k * n \in Nat /\ v * P \in Nat /\ w * P \in Nat
  BY <1>2
<1>9. k * n <= w * P
  BY <1>5, <1>6, <1>7, <1>8
<1>10. k <= ComputeCR(w, n)
  BY <1>9, RatioReaches DEF P
<1> QED BY <1>10, RatioIsNat

\* Opening a trove: the guard judges the TCR of exactly the totals it leaves.
LEMMA OpenTroveAndMode ==
  ASSUME Ledger, Ledger', NEW b \in Borrowers, NEW coll \in Amounts, NEW amount \in Nat,
         NEW rate \in 0..DECIMAL_PRECISION, OpenTrove(b, coll, amount, rate)
  PROVE  KeepsMode /\ HelpsRecovery
<1> DEFINE K == EntireSystemColl
           D == EntireSystemDebt
           S == Plus(K, coll)
           inRecovery == NewTCR(S, D) < CCR
           r == IF inRecovery THEN RECOVERY_FEE ELSE rate
           fee == (r * amount) \div DECIMAL_PRECISION
           netDebt == amount + fee
           n == netDebt + USDE_GAS_COMPENSATION
           icr == ComputeCR(ValueOf(coll), n)
<1>1. /\ ~IsActive(b)
      /\ inRecovery => icr >= CCR
      /\ ~inRecovery => NewTCR(S, D + n) >= CCR
      /\ status' = [status EXCEPT ![b] = "active"]
      /\ troveDebt' = [troveDebt EXCEPT ![b] = @ + netDebt]
      /\ troveDebtSupply' = troveDebtSupply + netDebt
      /\ TakeRewardSnapshots(b)
      /\ eToken' = [eToken EXCEPT ![b] = Plus(@, coll)]
      /\ gasPool' = gasPool + USDE_GAS_COMPENSATION
      /\ UNCHANGED <<rewardVars, defaultColl, defaultDebt, envVars>>
  BY DEF OpenTrove
<1>2. fee \in Nat
  <2>1. r \in 0..DECIMAL_PRECISION
    BY BorrowerOperationsAssumption
  <2> HIDE DEF r
  <2> QED BY <2>1, FeeIsNat
<1> HIDE DEF fee
<1>3. TypeOK /\ TypeOK' /\ Totals /\ Priced
  BY PricesArePrices DEF Ledger
<1>4. /\ netDebt \in Nat /\ n \in Nat \ {0} /\ n = netDebt + USDE_GAS_COMPENSATION
      /\ USDE_GAS_COMPENSATION \in Nat
  BY <1>2, <1>3, GasTypes
<1> HIDE DEF netDebt, n
<1>5. K \in Amounts /\ D \in Nat /\ D = troveDebtSupply + defaultDebt + gasPool
  BY <1>3, SystemTypes
<1>6. S \in Amounts /\ \A c \in Collaterals : S[c] = K[c] + coll[c]
  BY <1>5, PlusMinusTypes
<1>7. ValueOf(S) = ValueOf(K) + ValueOf(coll) /\ ValueOf(K) \in Nat /\ ValueOf(coll) \in Nat
  BY <1>3, <1>5, ValueOfBoth
<1> HIDE DEF S, K, D
<1>8. eToken[b] = Zeros /\ troveDebt[b] = 0 /\ defaultColl \in Amounts /\ eToken \in [Borrowers -> Amounts]
      /\ troveDebt \in [Borrowers -> Nat]
  BY <1>1, <1>3 DEF Totals, TypeOK
<1>9. Plus(eToken[b], coll) = coll
  <2>1. Plus(Zeros, coll) \in Amounts /\ \A c \in Collaterals : Plus(Zeros, coll)[c] = Zeros[c] + coll[c]
    BY PlusMinusTypes
  <2>2. \A c \in Collaterals : Plus(Zeros, coll)[c] = coll[c]
    BY <2>1, PlusMinusTypes DEF Amounts
  <2> QED BY <1>8, <2>1, <2>2, AmountsAreEqual
<1>10. SystemAfter(S, D + n)
  <2>1. eToken' = [eToken EXCEPT ![b] = coll] /\ defaultColl' = defaultColl
    BY <1>1, <1>9
  <2>2. ASSUME NEW c \in Collaterals
        PROVE  S[c] = EntireSystemColl[c] - eToken[b][c] - defaultColl[c] + coll[c] + defaultColl'[c]
    <3>1. /\ eToken[b][c] = 0 /\ coll[c] \in Nat /\ defaultColl[c] \in Nat /\ K[c] \in Nat
          /\ EntireSystemColl[c] = K[c]
      BY <1>5, <1>8, PlusMinusTypes DEF Amounts, K
    <3> QED BY <1>6, <2>1, <3>1
  <2>3. EntireSystemColl' = S
    BY <1>3, <1>6, <1>8, <2>1, <2>2, OneTroveSystem
  <2>4. EntireSystemDebt' = D + n
    <3>1. troveDebtSupply \in Nat /\ defaultDebt \in Nat /\ gasPool \in Nat
      BY <1>3 DEF TypeOK
    <3> QED BY <1>1, <1>4, <1>5, <3>1 DEF EntireSystemDebt
  <2> QED BY <1>1, <2>3, <2>4 DEF SystemAfter, envVars
<1>11. /\ RecoveryMode <=> ComputeCR(ValueOf(K), D) < CCR
       /\ inRecovery <=> ComputeCR(ValueOf(S), D) < CCR
       /\ NewTCR(S, D + n) = ComputeCR(ValueOf(S), D + n)
       /\ RecoveryMode' <=> NewTCR(S, D + n) < CCR
  BY <1>10, ModeAfter DEF RecoveryMode, NewTCR, K, D
<1>12. /\ ComputeCR(ValueOf(K), D) \in Nat /\ ComputeCR(ValueOf(S), D) \in Nat
       /\ ComputeCR(ValueOf(S), D + n) \in Nat /\ CCR \in Nat /\ icr \in Nat
  <2>1. ValueOf(S) \in Nat /\ D + n \in Nat /\ n \in Nat
    BY <1>4, <1>5, <1>7
  <2> QED BY <1>5, <1>7, <2>1, RatioIsNat, ConstantTypes
<1> HIDE DEF inRecovery
<1>13. KeepsMode
  <2> SUFFICES ASSUME ~RecoveryMode PROVE ~RecoveryMode'
    BY DEF KeepsMode
  <2>1. ComputeCR(ValueOf(K), D) <= ComputeCR(ValueOf(S), D)
    <3>1. ValueOf(K) <= ValueOf(S) /\ ValueOf(S) \in Nat
      BY <1>7
    <3> QED BY <1>5, <1>7, <3>1, RatioGrows
  <2>2. ~inRecovery
    BY <1>11, <1>12, <2>1
  <2> QED BY <1>1, <1>11, <1>12, <2>2
<1>14. ASSUME RecoveryMode
       PROVE  icr >= CCR
  <2>1. CASE inRecovery
    BY <1>1, <2>1
  <2>2. CASE ~inRecovery
    <3>1. /\ ComputeCR(ValueOf(K), D) < CCR
          /\ ComputeCR(ValueOf(K) + ValueOf(coll), D) >= CCR
          /\ ComputeCR(ValueOf(K) + ValueOf(coll), D + n) >= CCR
      BY <1>1, <1>7, <1>11, <1>12, <1>14, <2>2
    <3> QED BY <1>4, <1>5, <1>7, <1>12, <3>1, PartReaches
  <2> QED BY <2>1, <2>2
<1>15. CurrentICR(b)' = icr
  <2>1. SettledUp(b)' /\ IsActive(b)'
    BY <1>1, <1>3 DEF SettledUp, TakeRewardSnapshots, rewardVars, IsActive, TypeOK
  <2>2. CurrentICR(b)' = ComputeCR(ValueOf(eToken[b]), TroveDebtOf(b))'
    BY <1>3, <2>1, SettledICRAfter
  <2>3. ValueOf(eToken[b])' = ValueOf(coll)
    <3>1. eToken'[b] = coll /\ price' = price
      BY <1>1, <1>8, <1>9 DEF envVars
    <3> QED BY <3>1 DEF ValueOf, Values
  <2>4. TroveDebtOf(b)' = n
    <3>1. troveDebt'[b] = netDebt /\ USDE_GAS_COMPENSATION' = USDE_GAS_COMPENSATION
      BY <1>1, <1>4, <1>8 DEF envVars
    <3> QED BY <1>4, <3>1 DEF TroveDebtOf
  <2> QED BY <2>2, <2>3, <2>4 DEF ComputeCR
<1> HIDE DEF icr
<1>16. HelpsRecovery
  <2> SUFFICES ASSUME RecoveryMode
               PROVE  /\ Covers(EntireSystemColl', EntireSystemColl)
                      /\ \A x \in Borrowers : troveDebt'[x] > troveDebt[x] + PendingUSDEDebtReward(x)
                                                => CurrentICR(x)' >= CCR
    BY DEF HelpsRecovery
  <2>1. Covers(EntireSystemColl', EntireSystemColl)
    <3>1. \A c \in Collaterals : S[c] >= K[c]
      BY <1>5, <1>6 DEF Amounts
    <3> QED BY <1>10, <3>1 DEF Covers, SystemAfter, K
  <2>2. ASSUME NEW x \in Borrowers, troveDebt'[x] > troveDebt[x] + PendingUSDEDebtReward(x)
        PROVE  CurrentICR(x)' >= CCR
    <3>1. PendingUSDEDebtReward(x) \in Nat /\ troveDebt[x] \in Nat
      BY <1>3, <1>8, PendingTypes DEF Ledger
    <3>2. x = b
      BY <1>1, <1>8, <2>2, <3>1
    <3> QED BY <1>14, <1>15, <3>2
  <2> QED BY <2>1, <2>2
<1> QED BY <1>13, <1>16

\* The totals of the system are natural numbers after a step as well.
LEMMA SystemDebtAfter == TypeOK' => (EntireSystemDebt \in Nat)'
<1>1. TypeOK => EntireSystemDebt \in Nat
  BY SystemTypes
<1> QED BY <1>1, PTL

\* A trove that had its rewards taken in, or has none, is settled up.
LEMMA SettledAfterRewards ==
  ASSUME Ledger, RewardsSeen, NEW b \in Borrowers, IsActive(b),
         E_Coll' = E_Coll, E_USDEDebt' = E_USDEDebt,
         IF HasPendingRewards(b) THEN TakeRewardSnapshots(b) ELSE UNCHANGED snapshotVars
  PROVE  SettledUp(b)'
<1>1. TypeOK /\ SnapshotsBehind
  BY DEF Ledger
<1>2. CASE HasPendingRewards(b)
  BY <1>1, <1>2 DEF TakeRewardSnapshots, SettledUp, TypeOK
<1>3. CASE ~HasPendingRewards(b)
  <2>1. snapshotDebt[b] = E_USDEDebt
    BY <1>3 DEF RewardsSeen, ActiveTroves
  <2>2. \A c \in Collaterals : snapshotColl[b][c] = E_Coll[c]
    BY <1>1, <1>3, AppliedIsPart
  <2>3. snapshotColl[b] \in Amounts /\ E_Coll \in Amounts
    BY <1>1 DEF TypeOK
  <2>4. snapshotColl[b] = E_Coll
    BY <2>2, <2>3, AmountsAreEqual
  <2> QED BY <1>3, <2>1, <2>4 DEF SettledUp, snapshotVars
<1> QED BY <1>2, <1>3

\* Adjusting a trove: the guard judges the TCR of the totals that are left once
\* the rewards are taken in, provided the DefaultPool could pay them.
LEMMA AdjustTroveAndMode ==
  ASSUME Ledger, Ledger', NEW b \in Borrowers, NEW in \in Amounts, NEW out \in Amounts,
         NEW change \in Nat, NEW isIncrease \in BOOLEAN, NEW rate \in 0..DECIMAL_PRECISION,
         AdjustTrove(b, in, out, change, isIncrease, rate)
  PROVE  (DebtRewardsCovered => KeepsMode) /\ (RewardsSeen => HelpsRecovery)
<1> DEFINE r == IF RecoveryMode THEN RECOVERY_FEE ELSE rate
           fee == IF isIncrease THEN BorrowingFee(change, rate) ELSE 0
           netChange == change + fee
           signed(x) == IF isIncrease THEN x + netChange ELSE x - netChange
           K == EntireSystemColl
           D == EntireSystemDebt
           applied == AppliedColl(b)
           appliedDebt == AppliedDebt(b)
           coll == Plus(eToken[b], applied)
           newColl == Minus(Plus(coll, in), out)
           debt == TroveDebtOf(b) + appliedDebt
           oldICR == ComputeCR(ValueOf(coll), debt)
           newICR == ComputeCR(ValueOf(newColl), signed(debt))
           N == Minus(Plus(K, in), out)
           newTCR == NewTCR(N, signed(D))
<1>1. /\ IsActive(b)
      /\ Covers(Plus(coll, in), out)
      /\ signed(debt) >= 0
      /\ ValidInCurrentMode(out, isIncrease, oldICR, newICR, newTCR)
      /\ Covers(defaultColl, applied)
      /\ IF HasPendingRewards(b) THEN TakeRewardSnapshots(b) ELSE UNCHANGED snapshotVars
      /\ troveDebt' = [troveDebt EXCEPT ![b] = signed(@ + appliedDebt)]
      /\ troveDebtSupply' = signed(troveDebtSupply + appliedDebt)
      /\ eToken' = [eToken EXCEPT ![b] = newColl]
      /\ defaultColl' = Minus(defaultColl, applied)
      /\ defaultDebt' = Decreased(defaultDebt, appliedDebt)
      /\ UNCHANGED <<status, rewardVars, gasPool, envVars>>
  BY DEF AdjustTrove
<1>2. fee \in Nat
  <2>1. r \in 0..DECIMAL_PRECISION
    BY BorrowerOperationsAssumption
  <2>2. BorrowingFee(change, rate) = (r * change) \div DECIMAL_PRECISION
    BY DEF BorrowingFee
  <2> HIDE DEF r
  <2> QED BY <2>1, <2>2, FeeIsNat
<1> HIDE DEF r, fee
<1>3. netChange \in Nat
  BY <1>2
<1> HIDE DEF netChange
<1>4. TypeOK /\ TypeOK' /\ SnapshotsBehind /\ Priced
  BY PricesArePrices DEF Ledger
<1>5. /\ applied \in Amounts /\ appliedDebt \in Nat /\ appliedDebt <= PendingUSDEDebtReward(b)
      /\ PendingUSDEDebtReward(b) \in Nat
  BY <1>4, PendingTypes
<1> HIDE DEF applied, appliedDebt
<1>6. /\ troveDebt \in [Borrowers -> Nat] /\ troveDebtSupply \in Nat /\ eToken \in [Borrowers -> Amounts]
      /\ defaultColl \in Amounts /\ defaultDebt \in Nat /\ gasPool \in Nat
      /\ USDE_GAS_COMPENSATION \in Nat /\ eToken[b] \in Amounts
  BY <1>4, GasTypes DEF TypeOK
<1>7. K \in Amounts /\ D \in Nat /\ D = troveDebtSupply + defaultDebt + gasPool
  BY <1>4, SystemTypes
<1>8. /\ newColl \in Amounts
      /\ \A c \in Collaterals : newColl[c] = eToken[b][c] + applied[c] + in[c] - out[c]
  <2>1. coll \in Amounts /\ \A c \in Collaterals : coll[c] = eToken[b][c] + applied[c]
    BY <1>5, <1>6, PlusMinusTypes
  <2> HIDE DEF coll
  <2>2. Plus(coll, in) \in Amounts /\ \A c \in Collaterals : Plus(coll, in)[c] = coll[c] + in[c]
    BY <2>1, PlusMinusTypes
  <2>3. newColl \in Amounts /\ \A c \in Collaterals : newColl[c] = Plus(coll, in)[c] - out[c]
    BY <1>1, <2>2, PlusMinusTypes
  <2> HIDE DEF newColl
  <2>4. ASSUME NEW c \in Collaterals
        PROVE  newColl[c] = eToken[b][c] + applied[c] + in[c] - out[c]
    <3>1. newColl[c] = Plus(coll, in)[c] - out[c]
      BY <2>3
    <3>2. Plus(coll, in)[c] = coll[c] + in[c] /\ coll[c] = eToken[b][c] + applied[c]
      BY <2>1, <2>2
    <3>3. /\ eToken[b][c] \in Nat /\ applied[c] \in Nat /\ in[c] \in Nat /\ out[c] \in Nat
      BY <1>5, <1>6 DEF Amounts
    <3> QED BY <3>1, <3>2, <3>3
  <2> QED BY <2>3, <2>4
<1>9. ASSUME NEW c \in Collaterals
      PROVE  /\ K[c] \in Nat /\ in[c] \in Nat /\ out[c] \in Nat /\ eToken[b][c] \in Nat
             /\ applied[c] \in Nat /\ defaultColl[c] \in Nat /\ newColl[c] \in Nat
             /\ applied[c] <= defaultColl[c] /\ eToken[b][c] + defaultColl[c] <= K[c]
  <2>1. /\ K[c] \in Nat /\ in[c] \in Nat /\ out[c] \in Nat /\ eToken[b][c] \in Nat
        /\ applied[c] \in Nat /\ defaultColl[c] \in Nat /\ newColl[c] \in Nat
    BY <1>5, <1>6, <1>7, <1>8 DEF Amounts
  <2>2. K[c] = Total(Col(eToken, c)) + defaultColl[c]
    BY <1>4, SystemTypes
  <2>3. eToken[b][c] <= Total(Col(eToken, c)) /\ Total(Col(eToken, c)) \in Nat
    <3>1. \A x \in Borrowers : Col(eToken, c)[x] = eToken[x][c] /\ Col(eToken, c)[x] \in Nat
      BY <1>6, ColIsAt
    <3> DEFINE f == Col(eToken, c)
    <3> HIDE DEF f
    <3>2. f[b] <= Total(f) /\ Total(f) \in Nat
      BY <3>1, TotalIsNat DEF f
    <3> QED BY <3>1, <3>2 DEF f
  <2>4. applied[c] <= defaultColl[c]
    BY <1>1 DEF Covers
  <2> HIDE DEF K, newColl
  <2> QED BY <2>1, <2>2, <2>3, <2>4
<1> HIDE DEF newColl, K, D
<1>10. N \in Amounts /\ \A c \in Collaterals : N[c] = K[c] + in[c] - out[c]
  <2>1. Plus(K, in) \in Amounts /\ \A c \in Collaterals : Plus(K, in)[c] = K[c] + in[c]
    BY <1>7, PlusMinusTypes
  <2>2. ASSUME NEW c \in Collaterals
        PROVE  Plus(K, in)[c] >= out[c]
    BY <1>8, <1>9, <2>1
  <2>3. Covers(Plus(K, in), out)
    BY <2>2 DEF Covers
  <2>4. N \in Amounts /\ \A c \in Collaterals : N[c] = Plus(K, in)[c] - out[c]
    BY <2>1, <2>3, PlusMinusTypes
  <2> HIDE DEF N
  <2>5. ASSUME NEW c \in Collaterals
        PROVE  N[c] = K[c] + in[c] - out[c]
    <3>1. N[c] = Plus(K, in)[c] - out[c] /\ Plus(K, in)[c] = K[c] + in[c]
      BY <2>1, <2>4
    <3> QED BY <1>9, <3>1
  <2> QED BY <2>4, <2>5
<1> HIDE DEF N
<1>11. EntireSystemColl' = N
  <2>1. defaultColl' \in Amounts /\ \A c \in Collaterals : defaultColl'[c] = defaultColl[c] - applied[c]
    BY <1>1, <1>5, <1>6, PlusMinusTypes
  <2>2. ASSUME NEW c \in Collaterals
        PROVE  N[c] = EntireSystemColl[c] - eToken[b][c] - defaultColl[c] + newColl[c] + defaultColl'[c]
    <3>1. EntireSystemColl[c] = K[c]
      BY DEF K
    <3> QED BY <1>8, <1>9, <1>10, <2>1, <3>1
  <2> QED BY <1>1, <1>4, <1>8, <1>10, <2>1, <2>2, OneTroveSystem
<1>12. ASSUME DebtRewardsCovered, ~RecoveryMode
       PROVE  ~RecoveryMode'
  <2>1. appliedDebt <= defaultDebt
    BY <1>4, <1>5, <1>6, <1>12, PendingIsCovered
  <2>2. defaultDebt' = defaultDebt - appliedDebt
    BY <1>1, <1>5, <1>6, <2>1, DecreasedIs
  <2>3. EntireSystemDebt' = signed(D)
    BY <1>1, <1>3, <1>5, <1>6, <1>7, <2>2 DEF EntireSystemDebt
  <2>4. signed(D) \in Nat
    BY <1>4, <2>3, SystemDebtAfter
  <2> HIDE DEF signed
  <2>5. SystemAfter(N, signed(D))
    BY <1>1, <1>11, <2>3 DEF SystemAfter, envVars
  <2>6. newTCR \in Nat /\ CCR \in Nat
    BY <1>4, <1>10, <2>4, ValueIsNat, RatioIsNat, ConstantTypes DEF NewTCR
  <2>7. newTCR >= CCR
    BY <1>1, <1>12 DEF ValidInCurrentMode
  <2>8. RecoveryMode' <=> newTCR < CCR
    BY <2>5, ModeAfter
  <2> HIDE DEF newTCR
  <2> QED BY <2>6, <2>7, <2>8
<1>13. ASSUME RewardsSeen, isIncrease
       PROVE  CurrentICR(b)' = newICR
  <2>1. E_Coll' = E_Coll /\ E_USDEDebt' = E_USDEDebt /\ price' = price
        /\ USDE_GAS_COMPENSATION' = USDE_GAS_COMPENSATION
    BY <1>1 DEF rewardVars, envVars
  <2>2. SettledUp(b)'
    BY <1>1, <1>13, <2>1, SettledAfterRewards
  <2>3. IsActive(b)'
    BY <1>1 DEF IsActive
  <2>4. CurrentICR(b)' = ComputeCR(ValueOf(eToken[b]), TroveDebtOf(b))'
    BY <1>4, <2>2, <2>3, SettledICRAfter
  <2>5. ValueOf(eToken[b])' = ValueOf(newColl)
    <3>1. eToken'[b] = newColl
      BY <1>1, <1>6
    <3> QED BY <2>1, <3>1 DEF ValueOf, Values
  <2>6. TroveDebtOf(b)' = signed(debt)
    <3>1. troveDebt'[b] = troveDebt[b] + appliedDebt + netChange /\ troveDebt[b] \in Nat
      BY <1>1, <1>6, <1>13
    <3> QED BY <1>3, <1>5, <1>6, <1>13, <2>1, <3>1 DEF TroveDebtOf
  <2> HIDE DEF signed, debt
  <2> QED BY <2>4, <2>5, <2>6 DEF ComputeCR
<1> HIDE DEF newICR, oldICR, newTCR
<1>14. ASSUME RewardsSeen, RecoveryMode
       PROVE  /\ Covers(EntireSystemColl', EntireSystemColl)
              /\ \A x \in Borrowers : troveDebt'[x] > troveDebt[x] + PendingUSDEDebtReward(x)
                                        => CurrentICR(x)' >= CCR
  <2>1. ~IsNonzero(out) /\ (isIncrease => newICR >= CCR)
    BY <1>1, <1>14 DEF ValidInCurrentMode
  <2>2. Covers(EntireSystemColl', EntireSystemColl)
    <3>1. ASSUME NEW c \in Collaterals
          PROVE  N[c] >= K[c]
      <4>1. out[c] = 0
        BY <2>1 DEF IsNonzero
      <4> QED BY <1>9, <1>10, <4>1
    <3> QED BY <1>11, <3>1 DEF Covers, K
  <2>3. ASSUME NEW x \in Borrowers, troveDebt'[x] > troveDebt[x] + PendingUSDEDebtReward(x)
        PROVE  CurrentICR(x)' >= CCR
    <3>1. PendingUSDEDebtReward(x) \in Nat /\ troveDebt[x] \in Nat
      BY <1>4, <1>6, PendingTypes
    <3>2. x = b
      BY <1>1, <1>6, <2>3, <3>1
    <3>3. troveDebt'[b] = signed(troveDebt[b] + appliedDebt)
      BY <1>1, <1>6
    <3>4. isIncrease
      BY <1>3, <1>5, <2>3, <3>1, <3>2, <3>3
    <3> QED BY <1>13, <1>14, <2>1, <3>2, <3>4
  <2> QED BY <2>2, <2>3
<1> QED BY <1>12, <1>14 DEF KeepsMode, HelpsRecovery

\* Closing a trove: refused in recovery mode, and judged by the TCR it leaves.
LEMMA CloseTroveAndMode ==
  ASSUME Ledger, Ledger', NEW b \in Borrowers, CloseTrove(b)
  PROVE  (DebtRewardsCovered => KeepsMode) /\ HelpsRecovery
<1> DEFINE K == EntireSystemColl
           D == EntireSystemDebt
           applied == AppliedColl(b)
           appliedDebt == AppliedDebt(b)
           coll == Plus(eToken[b], applied)
           netDebt == troveDebt[b] + appliedDebt
           N == Minus(K, coll)
           rest == D - (netDebt + USDE_GAS_COMPENSATION)
<1>1. /\ ~RecoveryMode
      /\ NewTCR(N, rest) >= CCR
      /\ Covers(defaultColl, applied)
      /\ troveDebtSupply' = troveDebtSupply - troveDebt[b]
      /\ eToken' = [eToken EXCEPT ![b] = Zeros]
      /\ defaultColl' = Minus(defaultColl, applied)
      /\ defaultDebt' = Decreased(defaultDebt, appliedDebt)
      /\ gasPool' = gasPool - USDE_GAS_COMPENSATION
      /\ UNCHANGED envVars
  BY DEF CloseTrove
<1>2. TypeOK /\ TypeOK' /\ SnapshotsBehind /\ Priced
  BY PricesArePrices DEF Ledger
<1>3. /\ applied \in Amounts /\ appliedDebt \in Nat /\ appliedDebt <= PendingUSDEDebtReward(b)
      /\ PendingUSDEDebtReward(b) \in Nat
  BY <1>2, PendingTypes
<1> HIDE DEF applied, appliedDebt
<1>4. /\ troveDebt[b] \in Nat /\ troveDebtSupply \in Nat /\ eToken \in [Borrowers -> Amounts]
      /\ defaultColl \in Amounts /\ defaultDebt \in Nat /\ gasPool \in Nat
      /\ USDE_GAS_COMPENSATION \in Nat /\ eToken[b] \in Amounts
      /\ Zeros \in Amounts /\ \A c \in Collaterals : Zeros[c] = 0
  BY <1>2, GasTypes, PlusMinusTypes DEF TypeOK
<1>5. K \in Amounts /\ D \in Nat /\ D = troveDebtSupply + defaultDebt + gasPool
  BY <1>2, SystemTypes
<1>6. coll \in Amounts /\ \A c \in Collaterals : coll[c] = eToken[b][c] + applied[c]
  BY <1>3, <1>4, PlusMinusTypes
<1>7. ASSUME NEW c \in Collaterals
      PROVE  /\ K[c] \in Nat /\ eToken[b][c] \in Nat /\ applied[c] \in Nat /\ defaultColl[c] \in Nat
             /\ applied[c] <= defaultColl[c] /\ eToken[b][c] + defaultColl[c] <= K[c]
  <2>1. K[c] \in Nat /\ eToken[b][c] \in Nat /\ applied[c] \in Nat /\ defaultColl[c] \in Nat
    BY <1>3, <1>4, <1>5 DEF Amounts
  <2>2. K[c] = Total(Col(eToken, c)) + defaultColl[c]
    BY <1>2, SystemTypes
  <2>3. eToken[b][c] <= Total(Col(eToken, c)) /\ Total(Col(eToken, c)) \in Nat
    <3> DEFINE f == Col(eToken, c)
    <3>1. \A x \in Borrowers : f[x] = eToken[x][c] /\ f[x] \in Nat
      BY <1>4, ColIsAt
    <3> HIDE DEF f
    <3>2. f[b] <= Total(f) /\ Total(f) \in Nat
      BY <3>1, TotalIsNat
    <3> QED BY <3>1, <3>2 DEF f
  <2>4. applied[c] <= defaultColl[c]
    BY <1>1 DEF Covers
  <2> HIDE DEF K
  <2> QED BY <2>1, <2>2, <2>3, <2>4
<1> HIDE DEF coll, K, D
<1>8. N \in Amounts /\ \A c \in Collaterals : N[c] = K[c] - coll[c]
  <2>1. ASSUME NEW c \in Collaterals
        PROVE  K[c] >= coll[c]
    BY <1>6, <1>7
  <2>2. Covers(K, coll)
    BY <2>1 DEF Covers
  <2> QED BY <1>5, <1>6, <2>2, PlusMinusTypes
<1> HIDE DEF N
<1>9. EntireSystemColl' = N
  <2>1. defaultColl' \in Amounts /\ \A c \in Collaterals : defaultColl'[c] = defaultColl[c] - applied[c]
    BY <1>1, <1>3, <1>4, PlusMinusTypes
  <2>2. ASSUME NEW c \in Collaterals
        PROVE  N[c] = EntireSystemColl[c] - eToken[b][c] - defaultColl[c] + Zeros[c] + defaultColl'[c]
    <3>1. EntireSystemColl[c] = K[c] /\ Zeros[c] = 0
      BY <1>4 DEF K
    <3>2. N[c] = K[c] - coll[c] /\ coll[c] = eToken[b][c] + applied[c]
          /\ defaultColl'[c] = defaultColl[c] - applied[c]
      BY <1>6, <1>8, <2>1
    <3> QED BY <1>7, <3>1, <3>2
  <2> QED BY <1>1, <1>2, <1>4, <1>8, <2>1, <2>2, OneTroveSystem
<1>10. ASSUME DebtRewardsCovered
       PROVE  ~RecoveryMode'
  <2>1. appliedDebt <= defaultDebt
    BY <1>2, <1>3, <1>4, <1>10, PendingIsCovered
  <2>2. defaultDebt' = defaultDebt - appliedDebt
    BY <1>1, <1>3, <1>4, <2>1, DecreasedIs
  <2>3. EntireSystemDebt' = rest
    BY <1>1, <1>3, <1>4, <1>5, <2>2 DEF EntireSystemDebt
  <2>4. rest \in Nat
    BY <1>2, <2>3, SystemDebtAfter
  <2> HIDE DEF rest
  <2>5. SystemAfter(N, rest)
    BY <1>1, <1>9, <2>3 DEF SystemAfter, envVars
  <2>6. NewTCR(N, rest) \in Nat /\ CCR \in Nat
    BY <1>2, <1>8, <2>4, ValueIsNat, RatioIsNat, ConstantTypes DEF NewTCR
  <2>7. RecoveryMode' <=> NewTCR(N, rest) < CCR
    BY <2>5, ModeAfter
  <2> QED BY <1>1, <2>6, <2>7
<1> QED BY <1>1, <1>10 DEF KeepsMode, HelpsRecovery

\* Claiming a surplus touches neither the troves nor the mode.
LEMMA ClaimCollateralAndMode ==
  ASSUME Ledger, NEW b \in Borrowers, ClaimCollateral(b)
  PROVE  KeepsMode /\ HelpsRecovery
<1>1. /\ eToken' = eToken /\ defaultColl' = defaultColl /\ defaultDebt' = defaultDebt /\ gasPool' = gasPool
      /\ troveDebt' = troveDebt /\ troveDebtSupply' = troveDebtSupply /\ price' = price
  BY DEF ClaimCollateral, debtVars, poolVars, usdeVars, envVars
<1>2. TypeOK /\ SnapshotsBehind
  BY DEF Ledger
<1>3. EntireSystemColl' = EntireSystemColl
  BY <1>1 DEF EntireSystemColl, ETokenSupply
<1>4. EntireSystemDebt' = EntireSystemDebt
  BY <1>1 DEF EntireSystemDebt
<1>5. RecoveryMode' <=> RecoveryMode
  <2>1. SystemAfter(EntireSystemColl, EntireSystemDebt)
    BY <1>1, <1>3, <1>4 DEF SystemAfter
  <2>2. RecoveryMode' <=> NewTCR(EntireSystemColl, EntireSystemDebt) < CCR
    BY <2>1, ModeAfter
  <2> QED BY <2>2 DEF RecoveryMode, NewTCR
<1>6. Covers(EntireSystemColl', EntireSystemColl)
  <2>1. \A c \in Collaterals : EntireSystemColl[c] \in Nat
    BY <1>2, SystemTypes DEF Amounts
  <2> QED BY <1>3, <2>1 DEF Covers
<1>7. ASSUME NEW x \in Borrowers
      PROVE  ~(troveDebt'[x] > troveDebt[x] + PendingUSDEDebtReward(x))
  <2>1. PendingUSDEDebtReward(x) \in Nat /\ troveDebt[x] \in Nat
    BY <1>2, PendingTypes DEF TypeOK
  <2> QED BY <1>1, <2>1
<1> QED BY <1>5, <1>6, <1>7 DEF KeepsMode, HelpsRecovery

\* The calls of borrowers and the mode of the system.
LEMMA BorrowerCallAndMode ==
  ASSUME Ledger, Ledger', NEW b \in Borrowers, BorrowerCall(b)
  PROVE  (DebtRewardsCovered => KeepsMode) /\ (RewardsSeen => HelpsRecovery)
<1>1. Deposits \subseteq Amounts /\ TopUps \subseteq Amounts /\ Loans \subseteq Nat /\ Changes \subseteq Nat
  BY ERDAssumption
<1>2. Zeros \in Amounts /\ BorrowingRates \subseteq 0..DECIMAL_PRECISION /\ 0 \in 0..DECIMAL_PRECISION
  BY PlusMinusTypes, BorrowerOperationsAssumption, ConstantTypes
<1>3. ASSUME NEW coll \in Deposits, NEW amount \in Loans, NEW rate \in BorrowingRates,
             OpenTrove(b, coll, amount, rate)
      PROVE  (DebtRewardsCovered => KeepsMode) /\ (RewardsSeen => HelpsRecovery)
  <2>1. coll \in Amounts /\ amount \in Nat /\ rate \in 0..DECIMAL_PRECISION
    BY <1>1, <1>2
  <2> QED BY <1>3, <2>1, OpenTroveAndMode
<1>4. ASSUME NEW in \in TopUps \cup {Zeros}, NEW out \in TopUps \cup {Zeros}, NEW change \in Changes \cup {0},
             NEW isIncrease \in BOOLEAN, NEW rate \in BorrowingRates \cup {0},
             AdjustTrove(b, in, out, change, isIncrease, rate)
      PROVE  (DebtRewardsCovered => KeepsMode) /\ (RewardsSeen => HelpsRecovery)
  <2>1. in \in Amounts /\ out \in Amounts /\ change \in Nat /\ rate \in 0..DECIMAL_PRECISION
    BY <1>1, <1>2
  <2> QED BY <1>4, <2>1, AdjustTroveAndMode
<1>5. CASE CloseTrove(b)
  BY <1>5, CloseTroveAndMode
<1>6. CASE ClaimCollateral(b)
  BY <1>6, ClaimCollateralAndMode
<1> QED BY <1>3, <1>4, <1>5, <1>6 DEF BorrowerCall

\* As long as the DefaultPool can pay the pending debts, no borrower brings
\* about recovery mode: what the guards judge is what the call leaves.
THEOREM BorrowersNeverBringRecovery == Spec /\ []DebtRewardsCovered => BorrowersKeepNormalMode
<1>1. Ledger /\ Ledger' /\ DebtRewardsCovered /\ [Next]_vars =>
        [BorrowerStep /\ ~RecoveryMode => ~RecoveryMode']_vars
  BY BorrowerCallAndMode DEF BorrowerStep, KeepsMode
<1> QED BY <1>1, LedgerHolds, PTL DEF Spec, BorrowersKeepNormalMode

\* As long as every trove sees its rewards, a borrower in recovery mode takes no
\* collateral from the system, and adds debt only up to the CCR: a trove opened
\* under the rule of normal mode, because its own collateral ended recovery mode,
\* stands at the CCR all the same.
THEOREM BorrowersAlwaysHelpRecovery == Spec /\ []RewardsSeen => BorrowersHelpRecovery
<1>1. Ledger /\ Ledger' /\ RewardsSeen /\ [Next]_vars =>
        [BorrowerStep /\ RecoveryMode =>
           /\ Covers(EntireSystemColl', EntireSystemColl)
           /\ \A b \in Borrowers : troveDebt'[b] > troveDebt[b] + PendingUSDEDebtReward(b)
                                     => CurrentICR(b)' >= CCR]_vars
  BY BorrowerCallAndMode DEF BorrowerStep, HelpsRecovery
<1> QED BY <1>1, LedgerHolds, PTL DEF Spec, BorrowersHelpRecovery

-----------------------------------------------------------------------------
(* What a redemption leaves of the troves that stay open.                  *)

\* The walk took a lot of debt from the trove, and collateral worth no more.
SparedByWalk(acc, x) ==
  /\ x \in acc.touched \/ ~HasPendingRewards(x)
  /\ \E lot \in Nat : /\ acc.troveDebt[x] + lot = troveDebt[x] + AppliedDebt(x)
                      /\ ValueOf(EntireColl(x)) <= ValueOf(acc.eToken[x]) + lot

\* The walk has not come to the trove.
NotMet(acc, x) ==
  /\ acc.troveDebt[x] = troveDebt[x] /\ acc.eToken[x] = eToken[x]
  /\ x \notin acc.touched /\ x \notin acc.partial

RedemptionSpares(acc) ==
  ~acc.reverted => \A x \in ActiveTroves \ acc.closed : NotMet(acc, x) \/ SparedByWalk(acc, x)

\* A step that concerns the trove of b treats the others as before.
LEMMA OthersSpared ==
  ASSUME NEW acc, NEW next, NEW b, RedemptionSpares(acc), ~acc.reverted,
         acc.closed \subseteq next.closed,
         acc.touched \subseteq next.touched, next.touched \subseteq acc.touched \cup {b},
         next.partial \subseteq acc.partial \cup {b},
         \A x \in Borrowers \ {b} : next.troveDebt[x] = acc.troveDebt[x] /\ next.eToken[x] = acc.eToken[x],
         b \in next.closed \/ SparedByWalk(next, b)
  PROVE  RedemptionSpares(next)
<1>1. ASSUME NEW x \in ActiveTroves \ next.closed
      PROVE  NotMet(next, x) \/ SparedByWalk(next, x)
  <2>1. CASE x = b
    BY <1>1, <2>1
  <2>2. CASE x # b
    <3>1. x \in Borrowers \ {b} /\ x \in ActiveTroves \ acc.closed
      BY <1>1, <2>2 DEF ActiveTroves
    <3>2. next.troveDebt[x] = acc.troveDebt[x] /\ next.eToken[x] = acc.eToken[x]
      BY <3>1
    <3>3. CASE NotMet(acc, x)
      BY <2>2, <3>2, <3>3 DEF NotMet
    <3>4. CASE SparedByWalk(acc, x)
      BY <3>2, <3>4 DEF SparedByWalk
    <3> QED BY <3>1, <3>3, <3>4 DEF RedemptionSpares
  <2> QED BY <2>1, <2>2
<1> QED BY <1>1 DEF RedemptionSpares

\* Applying the rewards of a trove takes nothing from it.
LEMMA MeetingSpares ==
  ASSUME Ledger, NEW met, NEW acc, RedemptionWalk(acc, met), NEW amount, RedemptionLedger(acc, met, amount),
         ~acc.reverted, NEW b \in ActiveTroves, b \notin met, RedemptionSpares(acc),
         NEW next, next = Met(acc, b)
  PROVE  /\ RedemptionSpares(next) /\ SparedByWalk(next, b)
         /\ next.troveDebt[b] = troveDebt[b] + AppliedDebt(b) /\ next.eToken[b] = EntireColl(b)
         /\ b \in next.touched \/ ~HasPendingRewards(b)
<1>1. /\ next.touched = (IF HasPendingRewards(b) THEN acc.touched \cup {b} ELSE acc.touched)
      /\ next.troveDebt = [acc.troveDebt EXCEPT ![b] = acc.troveDebt[b] + AppliedDebt(b)]
      /\ next.eToken = [acc.eToken EXCEPT ![b] = Plus(acc.eToken[b], AppliedColl(b))]
      /\ next.closed = acc.closed /\ next.partial = acc.partial
  BY DEF Met, RedemptionWalk
<1>2. b \in Borrowers
  BY DEF ActiveTroves
<1>3. acc.troveDebt[b] = troveDebt[b] /\ acc.eToken[b] = eToken[b]
      /\ acc.troveDebt \in [Borrowers -> Nat] /\ acc.eToken \in [Borrowers -> Amounts]
  BY <1>2 DEF RedemptionLedger, RedemptionTypes
<1>4. /\ Plus(eToken[b], AppliedColl(b)) = EntireColl(b) /\ troveDebt[b] + AppliedDebt(b) \in Nat
  BY MetHolds
<1>5. /\ next.troveDebt[b] = troveDebt[b] + AppliedDebt(b) /\ next.eToken[b] = EntireColl(b)
      /\ \A x \in Borrowers \ {b} : next.troveDebt[x] = acc.troveDebt[x] /\ next.eToken[x] = acc.eToken[x]
  BY <1>1, <1>2, <1>3, <1>4
<1>6. b \in next.touched \/ ~HasPendingRewards(b)
  BY <1>1
<1>7. SparedByWalk(next, b)
  <2>1. ValueOf(EntireColl(b)) \in Nat
    <3>1. TypeOK /\ SnapshotsBehind /\ Priced
      BY PricesArePrices DEF Ledger
    <3> QED BY <1>2, <3>1, TroveTypes, ValueIsNat
  <2>2. next.troveDebt[b] + 0 = troveDebt[b] + AppliedDebt(b)
    BY <1>4, <1>5
  <2>3. ValueOf(EntireColl(b)) <= ValueOf(next.eToken[b]) + 0
    BY <1>5, <2>1
  <2> QED BY <1>6, <2>2, <2>3 DEF SparedByWalk
<1>8. RedemptionSpares(next)
  <2>1. /\ acc.touched \subseteq next.touched /\ next.touched \subseteq acc.touched \cup {b}
        /\ next.partial \subseteq acc.partial \cup {b} /\ acc.closed \subseteq next.closed
    BY <1>1
  <2> QED BY <1>5, <1>7, <2>1, OthersSpared
<1> QED BY <1>5, <1>6, <1>7, <1>8

\* What is left of a collateral after something was drawn, as resetEToken writes it.
LEMMA RemainsAreWorth ==
  ASSUME Priced, NEW f \in Amounts, NEW lot \in Nat, NEW remains, remains = Minus(f, Drawn(f, lot)),
         NEW coll, coll = ResetEToken(f, remains)
  PROVE  /\ coll \in Amounts /\ ValueOf(coll) \in Nat /\ ValueOf(f) \in Nat
         /\ ValueOf(f) <= ValueOf(coll) + lot
<1> DEFINE d == Drawn(f, lot)
<1>1. d \in Amounts /\ Covers(f, d) /\ ValueOf(d) <= lot
  BY DrawnIsPart, DrawnIsWorth
<1> HIDE DEF d
<1>2. remains \in Amounts /\ \A c \in Collaterals : remains[c] = f[c] - d[c]
  BY <1>1, PlusMinusTypes DEF d
<1>3. ASSUME NEW c \in Collaterals
      PROVE  coll[c] \in Nat /\ coll[c] >= remains[c]
  <2>1. f[c] \in Nat /\ remains[c] \in Nat
    BY <1>2 DEF Amounts
  <2>2. coll[c] = IF remains[c] = 0 THEN f[c] ELSE remains[c]
    BY DEF ResetEToken
  <2> QED BY <2>1, <2>2
<1>4. coll \in Amounts
  BY <1>3 DEF ResetEToken, Amounts
<1>5. Plus(remains, d) = f
  <2>1. Plus(remains, d) \in Amounts /\ \A c \in Collaterals : Plus(remains, d)[c] = remains[c] + d[c]
    BY <1>1, <1>2, PlusMinusTypes
  <2>2. ASSUME NEW c \in Collaterals
        PROVE  Plus(remains, d)[c] = f[c]
    <3>1. f[c] \in Nat /\ d[c] \in Nat /\ remains[c] = f[c] - d[c]
      BY <1>1, <1>2 DEF Amounts
    <3>2. Plus(remains, d)[c] = remains[c] + d[c]
      BY <2>1
    <3> QED BY <3>1, <3>2
  <2> QED BY <2>1, <2>2, AmountsAreEqual
<1>6. ValueOf(f) = ValueOf(remains) + ValueOf(d) /\ ValueOf(remains) \in Nat /\ ValueOf(d) \in Nat
  BY <1>1, <1>2, <1>5, ValueOfBoth
<1>7. ValueOf(remains) <= ValueOf(coll) /\ ValueOf(coll) \in Nat
  <2>1. Covers(coll, remains)
    BY <1>2, <1>3 DEF Covers, Amounts
  <2> QED BY <1>2, <1>4, <2>1, MoreIsWorthMore, ValueIsNat
<1>8. ValueOf(f) \in Nat /\ ValueOf(f) <= ValueOf(coll) + lot
  BY <1>1, <1>6, <1>7
<1> QED BY <1>4, <1>7, <1>8

\* A trove that is redeemed in full is closed; the others stay as they were.
LEMMA FullRedemptionSpares ==
  ASSUME Ledger, NEW met, NEW acc, NEW b, NEW amount, JustMet(acc, met, b, amount),
         RedemptionSpares(acc), NEW lot, NEW drawn, NEW remains
  PROVE  RedemptionSpares(RedeemedInFull(Exchanged(acc, lot, drawn), b, remains))
<1> DEFINE x1 == Exchanged(acc, lot, drawn)
           next == RedeemedInFull(x1, b, remains)
<1> SUFFICES ASSUME ~next.reverted
             PROVE  RedemptionSpares(next)
  BY DEF RedemptionSpares
<1>1. /\ x1.touched = acc.touched /\ x1.troveDebt = acc.troveDebt /\ x1.eToken = acc.eToken
      /\ x1.closed = acc.closed /\ x1.partial = acc.partial /\ DOMAIN x1 = DOMAIN acc
  BY ExchangedIs DEF JustMet
<1> HIDE DEF x1
<1>2. MayClose(x1.owners, x1.list) /\ PayableToPools(remains, x1.pooled)
  <2>1. SUFFICES ASSUME ~(MayClose(x1.owners, x1.list) /\ PayableToPools(remains, x1.pooled))
                 PROVE  FALSE
    OBVIOUS
  <2>2. next = [x1 EXCEPT !.reverted = TRUE]
    BY <2>1 DEF RedeemedInFull
  <2> QED BY <1>1, <2>2 DEF JustMet, RedemptionWalk
<1>3. next = [x1 EXCEPT !.closed = @ \cup {b},
                     !.gas = @ + USDE_GAS_COMPENSATION,
                     !.owners = OwnersWithout(x1.owners, x1.index, b),
                     !.index = IndexWithout(x1.owners, x1.index, b),
                     !.list = Without(@, b),
                     !.troveDebt[b] = 0,
                     !.eToken[b] = Zeros,
                     !.stakes[b] = Zeros,
                     !.surplus[b] = Plus(@, remains),
                     !.pooled = Minus(@, remains)]
  BY <1>2 DEF RedeemedInFull
<1>4. /\ next.touched = acc.touched /\ next.partial = acc.partial /\ next.closed = acc.closed \cup {b}
      /\ next.troveDebt = [acc.troveDebt EXCEPT ![b] = 0]
      /\ next.eToken = [acc.eToken EXCEPT ![b] = Zeros]
  <2>1. DOMAIN x1 = {"left", "redeemed", "drawn", "gas", "pendDebt", "pendColl", "touched",
                     "closed", "partial", "newICR", "cancelled", "reverted", "owners",
                     "index", "list", "troveDebt", "eToken", "surplus", "stakes", "pooled"}
    BY <1>1 DEF JustMet, RedemptionWalk
  <2> QED BY <1>1, <1>3, <2>1
<1> HIDE DEF next
<1>5. acc.troveDebt \in [Borrowers -> Nat] /\ acc.eToken \in [Borrowers -> Amounts]
  BY JustMetIs DEF RedemptionTypes
<1>6. \A x \in Borrowers \ {b} : next.troveDebt[x] = acc.troveDebt[x] /\ next.eToken[x] = acc.eToken[x]
  BY <1>4, <1>5
<1>7. ~acc.reverted
  BY DEF JustMet
<1>8. /\ acc.closed \subseteq next.closed /\ b \in next.closed
      /\ acc.touched \subseteq next.touched /\ next.touched \subseteq acc.touched \cup {b}
      /\ next.partial \subseteq acc.partial \cup {b}
  BY <1>4
<1> QED BY <1>6, <1>7, <1>8, OthersSpared

\* A trove that is redeemed in part loses a lot of debt, and no more of value.
LEMMA PartialRedemptionSpares ==
  ASSUME Ledger, NEW met, NEW acc, NEW b, NEW amount, JustMet(acc, met, b, amount),
         RedemptionSpares(acc), acc.troveDebt[b] = troveDebt[b] + AppliedDebt(b),
         b \in acc.touched \/ ~HasPendingRewards(b),
         NEW lot \in Nat, NEW newICR,
         NEW drawn, drawn = Drawn(acc.eToken[b], lot),
         NEW remains, remains = Minus(acc.eToken[b], drawn)
  PROVE  RedemptionSpares(RedeemedInPart(Exchanged(acc, lot, drawn), b, lot, remains, newICR))
<1> DEFINE x1 == Exchanged(acc, lot, drawn)
           next == RedeemedInPart(x1, b, lot, remains, newICR)
           coll == ResetEToken(acc.eToken[b], remains)
<1> SUFFICES ASSUME ~next.reverted
             PROVE  RedemptionSpares(next)
  BY DEF RedemptionSpares
<1>1. /\ x1.touched = acc.touched /\ x1.troveDebt = acc.troveDebt /\ x1.eToken = acc.eToken
      /\ x1.closed = acc.closed /\ x1.partial = acc.partial /\ DOMAIN x1 = DOMAIN acc
  BY ExchangedIs DEF JustMet
<1> HIDE DEF x1
<1>2. newICR # 0 /\ StakeComputable
  <2>1. SUFFICES ASSUME ~(newICR # 0 /\ StakeComputable)
                 PROVE  FALSE
    OBVIOUS
  <2>2. next = [x1 EXCEPT !.reverted = TRUE]
    BY <2>1 DEF RedeemedInPart
  <2> QED BY <1>1, <2>2 DEF JustMet, RedemptionWalk
<1>3. next = [x1 EXCEPT !.partial = {b},
                        !.newICR = newICR,
                        !.troveDebt[b] = @ - lot,
                        !.eToken[b] = coll,
                        !.stakes[b] = NewStakes(coll)]
  BY <1>1, <1>2 DEF RedeemedInPart
<1> HIDE DEF coll
<1>4. /\ next.touched = acc.touched /\ next.partial = {b} /\ next.closed = acc.closed
      /\ next.troveDebt = [acc.troveDebt EXCEPT ![b] = acc.troveDebt[b] - lot]
      /\ next.eToken = [acc.eToken EXCEPT ![b] = coll]
  <2>1. DOMAIN x1 = {"left", "redeemed", "drawn", "gas", "pendDebt", "pendColl", "touched",
                     "closed", "partial", "newICR", "cancelled", "reverted", "owners",
                     "index", "list", "troveDebt", "eToken", "surplus", "stakes", "pooled"}
    BY <1>1 DEF JustMet, RedemptionWalk
  <2> QED BY <1>1, <1>3, <2>1
<1> HIDE DEF next
<1>5. /\ acc.troveDebt \in [Borrowers -> Nat] /\ acc.eToken \in [Borrowers -> Amounts] /\ b \in Borrowers
  BY JustMetIs DEF RedemptionTypes
<1>6. /\ next.troveDebt[b] = acc.troveDebt[b] - lot /\ next.eToken[b] = coll
      /\ \A x \in Borrowers \ {b} : next.troveDebt[x] = acc.troveDebt[x] /\ next.eToken[x] = acc.eToken[x]
  BY <1>4, <1>5
<1>7. SparedByWalk(next, b)
  <2>1. acc.eToken[b] = EntireColl(b) /\ acc.eToken[b] \in Amounts /\ acc.troveDebt[b] \in Nat
    BY <1>5 DEF JustMet
  <2>2. Priced
    BY PricesArePrices DEF Ledger
  <2>3. ValueOf(acc.eToken[b]) <= ValueOf(coll) + lot
    <3> DEFINE f == acc.eToken[b]
    <3>1. f \in Amounts /\ remains = Minus(f, Drawn(f, lot)) /\ coll = ResetEToken(f, remains)
      BY <2>1 DEF coll
    <3> HIDE DEF f
    <3>2. ValueOf(f) <= ValueOf(coll) + lot
      BY <2>2, <3>1, RemainsAreWorth
    <3> QED BY <3>2 DEF f
  <2>4. next.troveDebt[b] + lot = troveDebt[b] + AppliedDebt(b)
    BY <1>6, <2>1
  <2>5. ValueOf(EntireColl(b)) <= ValueOf(next.eToken[b]) + lot
    BY <1>6, <2>1, <2>3
  <2>6. b \in next.touched \/ ~HasPendingRewards(b)
    BY <1>4
  <2> QED BY <2>4, <2>5, <2>6 DEF SparedByWalk
<1>8. ~acc.reverted
  BY DEF JustMet
<1>9. /\ acc.closed \subseteq next.closed
      /\ acc.touched \subseteq next.touched /\ next.touched \subseteq acc.touched \cup {b}
      /\ next.partial \subseteq acc.partial \cup {b}
  BY <1>4
<1> QED BY <1>6, <1>7, <1>8, <1>9, OthersSpared

\* Whatever a redemption does with the next trove, it spares those it leaves open.
LEMMA RedeemStepSpares ==
  ASSUME Books, Ledger, NEW met, NEW acc, RedemptionWalk(acc, met),
         NEW amount, RedemptionLedger(acc, met, amount), RedemptionSpares(acc),
         NEW b \in ActiveTroves, b \notin met, NEW hintFresh
  PROVE  RedemptionSpares(RedeemStep(acc, b, hintFresh))
<1> DEFINE after == Met(acc, b)
           lot == MinOf(acc.left, after.troveDebt[b])
           drawn == Drawn(after.eToken[b], lot)
           remains == Minus(after.eToken[b], drawn)
           newNet == after.troveDebt[b] - lot
           newICR == ComputeCR(ValueOf(remains), newNet + USDE_GAS_COMPENSATION)
           exchanged == Exchanged(after, lot, drawn)
           next == RedeemStep(acc, b, hintFresh)
<1>1. CASE acc.left = 0 \/ acc.cancelled \/ acc.reverted
  <2>1. next = acc
    BY <1>1 DEF RedeemStep
  <2> HIDE DEF next
  <2> QED BY <2>1 DEF next
<1>2. CASE ~(acc.left = 0 \/ acc.cancelled \/ acc.reverted)
  <2>1. next =
          IF newNet = 0 THEN RedeemedInFull(exchanged, b, remains)
          ELSE IF ~hintFresh \/ newNet < MIN_NET_DEBT THEN [after EXCEPT !.cancelled = TRUE]
          ELSE RedeemedInPart(exchanged, b, lot, remains, newICR)
    BY <1>2 DEF RedeemStep, RedeemFrom
  <2>2. RedemptionWalk(after, met)
    BY MeetingKeepsWalk
  <2>3. /\ RedemptionLedger(after, met \cup {b}, amount)
        /\ ~after.reverted /\ after.left = acc.left /\ after.closed = acc.closed /\ after.partial = acc.partial
        /\ after.eToken[b] = EntireColl(b)
        /\ after.troveDebt[b] <= EntireDebt(b) - USDE_GAS_COMPENSATION
    BY <1>2, MeetingKeepsLedger
  <2>4. /\ RedemptionSpares(after) /\ after.troveDebt[b] = troveDebt[b] + AppliedDebt(b)
        /\ b \in after.touched \/ ~HasPendingRewards(b)
    BY <1>2, MeetingSpares
  <2> HIDE DEF next, after
  <2>5. JustMet(after, met, b, amount)
    <3>1. acc.partial = {}
      BY <1>2 DEF RedemptionLedger
    <3>2. b \notin acc.closed
      BY DEF RedemptionWalk
    <3> QED BY <1>2, <2>2, <2>3, <3>1, <3>2 DEF JustMet
  <2>6. lot \in Nat
    <3>1. RedemptionTypes(after, amount) /\ b \in Borrowers
      BY <2>3 DEF RedemptionLedger, ActiveTroves
    <3>2. after.left \in Nat /\ after.troveDebt[b] \in Nat
      BY <3>1 DEF RedemptionTypes
    <3> QED BY <2>3, <3>2 DEF MinOf
  <2> HIDE DEF lot, newNet, newICR
  <2>7. drawn = Drawn(after.eToken[b], lot) /\ remains = Minus(after.eToken[b], drawn)
    OBVIOUS
  <2> HIDE DEF drawn, remains
  <2>8. CASE newNet = 0
    <3>1. next = RedeemedInFull(exchanged, b, remains)
      BY <2>1, <2>8
    <3>2. RedemptionSpares(next)
      BY <2>4, <2>5, <3>1, FullRedemptionSpares
    <3> QED BY <3>2 DEF next
  <2>9. CASE newNet # 0 /\ (~hintFresh \/ newNet < MIN_NET_DEBT)
    <3>1. next = [after EXCEPT !.cancelled = TRUE]
      BY <2>1, <2>9
    <3>2. /\ next.touched = after.touched /\ next.partial = after.partial /\ next.closed = after.closed
          /\ next.troveDebt = after.troveDebt /\ next.eToken = after.eToken /\ next.reverted = after.reverted
      BY <2>2, <3>1 DEF RedemptionWalk
    <3>3. RedemptionSpares(next)
      BY <2>4, <3>2 DEF RedemptionSpares, NotMet, SparedByWalk
    <3> QED BY <3>3 DEF next
  <2>10. CASE newNet # 0 /\ ~(~hintFresh \/ newNet < MIN_NET_DEBT)
    <3>1. next = RedeemedInPart(exchanged, b, lot, remains, newICR)
      BY <2>1, <2>10
    <3>2. RedemptionSpares(next)
      BY <2>4, <2>5, <2>6, <2>7, <3>1, PartialRedemptionSpares
    <3> QED BY <3>2 DEF next
  <2> QED BY <2>8, <2>9, <2>10
<1> QED BY <1>1, <1>2

\* A redemption spares the troves along any path of open ones.
LEMMA RedeemAlongSpares ==
  ASSUME Books, Ledger, NEW path, Len(path) \in Nat,
         \A i \in 1..Len(path) : path[i] \in ActiveTroves,
         \A i, j \in 1..Len(path) : path[i] = path[j] => i = j,
         NEW amount \in Nat, NEW hintFresh
  PROVE  \E met : /\ RedemptionWalk(RedeemAlong(path, amount, hintFresh), met)
                  /\ RedemptionLedger(RedeemAlong(path, amount, hintFresh), met, amount)
                  /\ RedemptionSpares(RedeemAlong(path, amount, hintFresh))
<1> DEFINE n == Len(path)
<1>1. PICK run : /\ run = [i \in 0..n |-> IF i = 0 THEN NothingRedeemed(amount)
                                          ELSE RedeemStep(run[i - 1], path[i], hintFresh)]
                 /\ RedeemAlong(path, amount, hintFresh) = run[n]
  BY RedeemAlongStep
<1> HIDE DEF n
<1> DEFINE before(i) == {path[j] : j \in 1..i}
           Kept(i) == \E m \in SUBSET before(i) :
                        /\ RedemptionWalk(run[i], m) /\ RedemptionLedger(run[i], m, amount)
                        /\ RedemptionSpares(run[i])
           T == {i \in 0..n : Kept(i)}
<1>2. /\ n \in Nat /\ \A i \in 1..n : path[i] \in ActiveTroves
      /\ \A i, j \in 1..n : path[i] = path[j] => i = j
  BY DEF n
<1>3. 0 \in T
  <2>1. run[0] = NothingRedeemed(amount) /\ {} \in SUBSET before(0)
    BY <1>1, <1>2
  <2>2. RedemptionSpares(NothingRedeemed(amount))
    BY DEF RedemptionSpares, NotMet, NothingRedeemed
  <2>3. RedemptionWalk(run[0], {}) /\ RedemptionLedger(run[0], {}, amount) /\ RedemptionSpares(run[0])
    BY <2>1, <2>2, StartsAsRedemptionWalk, StartsRedemptionLedger
  <2> QED BY <1>2, <2>1, <2>3
<1>4. ASSUME NEW i \in 0..(n - 1), i \in T
      PROVE  i + 1 \in T
  <2>1. i + 1 \in 1..n /\ i + 1 \in 0..n /\ (i + 1) - 1 = i /\ i + 1 # 0
    BY <1>2
  <2>2. run[i + 1] = RedeemStep(run[i], path[i + 1], hintFresh)
    BY <1>1, <2>1
  <2>3. before(i + 1) = before(i) \cup {path[i + 1]}
    BY <1>2, <2>1
  <2>4. path[i + 1] \in ActiveTroves /\ path[i + 1] \notin before(i)
    BY <1>2, <2>1
  <2>5. PICK m \in SUBSET before(i) :
          /\ RedemptionWalk(run[i], m) /\ RedemptionLedger(run[i], m, amount)
          /\ RedemptionSpares(run[i])
    BY <1>4
  <2> HIDE DEF before
  <2>6. \E k \in {m, m \cup {path[i + 1]}} :
          RedemptionWalk(run[i + 1], k) /\ RedemptionLedger(run[i + 1], k, amount)
    BY <2>2, <2>4, <2>5, RedeemStepKeepsLedger
  <2>7. RedemptionSpares(run[i + 1])
    BY <2>2, <2>4, <2>5, RedeemStepSpares
  <2>8. {m, m \cup {path[i + 1]}} \subseteq SUBSET before(i + 1)
    BY <2>3, <2>5
  <2>9. Kept(i + 1)
    BY <2>6, <2>7, <2>8
  <2> QED BY <2>1, <2>9
<1> HIDE DEF before, Kept, T
<1>5. n \in T
  <2>1. 0..n \subseteq T
    BY <1>2, <1>3, <1>4, SetInduction
  <2> QED BY <1>2, <2>1
<1>6. \E m : RedemptionWalk(run[n], m) /\ RedemptionLedger(run[n], m, amount) /\ RedemptionSpares(run[n])
  BY <1>5 DEF T, Kept
<1> QED BY <1>1, <1>6

\* Every redemption but a refresh ends in the settling of such a walk.
LEMMA RedemptionWalksSpare ==
  ASSUME Books, Ledger, Redemption
  PROVE  \/ \E b \in Borrowers : UpdateTrove(b)
         \/ \E amount \in Nat, rate \in 0..DECIMAL_PRECISION : \E acc, met :
              SettlesRedemption(acc, met, amount, rate) /\ RedemptionSpares(acc)
<1>1. ASSUME NEW amount \in Nat, NEW p \in DOMAIN list, NEW n \in Nat, NEW hintFresh,
             NEW rate \in 0..DECIMAL_PRECISION, RedeemCollateral(amount, p, n, hintFresh, rate)
      PROVE  \E acc, met : SettlesRedemption(acc, met, amount, rate) /\ RedemptionSpares(acc)
  <2>1. p \in 1..Len(list)
    BY LenProperties DEF Books, OrderedList, OrderedBy
  <2>2. amount <= wallets /\ SettleRedemption(RedeemAlong(PathFrom(p, n), amount, hintFresh), rate)
    BY <1>1 DEF RedeemCollateral
  <2> DEFINE path == PathFrom(p, n)
  <2>3. /\ Len(path) \in Nat /\ \A i \in 1..Len(path) : path[i] \in ActiveTroves
        /\ \A i, j \in 1..Len(path) : path[i] = path[j] => i = j
    BY <2>1, PathIsDistinct
  <2> HIDE DEF path
  <2>4. PICK met : /\ RedemptionWalk(RedeemAlong(path, amount, hintFresh), met)
                   /\ RedemptionLedger(RedeemAlong(path, amount, hintFresh), met, amount)
                   /\ RedemptionSpares(RedeemAlong(path, amount, hintFresh))
    BY <2>3, RedeemAlongSpares
  <2> QED BY <2>2, <2>4 DEF SettlesRedemption, path
<1>2. Cardinality(Borrowers) \in Nat
  BY TroveManagerAssumption, FS_CardinalityType
<1>3. /\ \A amount \in RedemptionAmounts : amount \in Nat
      /\ \A rate \in RedemptionRates : rate \in 0..DECIMAL_PRECISION
      /\ \A b \in Refreshed : b \in Borrowers
  BY ERDAssumption, RedemptionsAssumption
<1>4. \A n \in 1..Cardinality(Borrowers) : n \in Nat
  BY <1>2
<1> QED BY <1>1, <1>3, <1>4 DEF Redemption

\* A ratio of at least 100% does not fall when the debt loses a lot and the
\* collateral no more of value.
LEMMA RatioOfSpared ==
  ASSUME NEW value \in Nat, NEW debt \in Nat \ {0}, NEW lot \in Nat, NEW left \in Nat,
         NEW rest \in Nat \ {0}, rest + lot = debt, value <= left + lot,
         ComputeCR(value, debt) >= DECIMAL_PRECISION
  PROVE  ComputeCR(left, rest) >= ComputeCR(value, debt)
<1> DEFINE P == DECIMAL_PRECISION
           k == ComputeCR(value, debt)
<1>1. P \in Nat /\ k \in Nat /\ k >= P
  BY ConstantTypes, RatioIsNat
<1> HIDE DEF k
<1>2. k * debt <= value * P
  BY <1>1, RatioReaches DEF k
<1> HIDE DEF P
<1>3. /\ k * debt = k * rest + k * lot /\ k * lot >= P * lot
      /\ value * P <= (left + lot) * P /\ (left + lot) * P = left * P + P * lot
  BY <1>1, Z3
<1>4. /\ k * debt \in Nat /\ k * rest \in Nat /\ k * lot \in Nat /\ P * lot \in Nat
      /\ value * P \in Nat /\ (left + lot) * P \in Nat /\ left * P \in Nat
  BY <1>1
<1>5. k * rest <= left * P
  BY <1>2, <1>3, <1>4
<1>6. k <= ComputeCR(left, rest)
  BY <1>1, <1>5, RatioReaches DEF P
<1>7. ComputeCR(left, rest) \in Nat
  BY RatioIsNat
<1> QED BY <1>1, <1>6, <1>7 DEF k

\* A trove whose amounts, stakes and snapshots stay has the ratio it had.
LEMMA SameICR ==
  ASSUME NEW b \in Borrowers, IsActive(b), IsActive(b)',
         eToken'[b] = eToken[b], troveDebt'[b] = troveDebt[b], stakes'[b] = stakes[b],
         snapshotColl'[b] = snapshotColl[b], snapshotDebt'[b] = snapshotDebt[b],
         E_Coll' = E_Coll, E_USDEDebt' = E_USDEDebt, price' = price,
         USDE_GAS_COMPENSATION' = USDE_GAS_COMPENSATION
  PROVE  CurrentICR(b)' = CurrentICR(b)
<1>1. PendingCollReward(b)' = PendingCollReward(b)
  BY DEF PendingCollReward
<1>2. PendingUSDEDebtReward(b)' = PendingUSDEDebtReward(b)
  BY DEF PendingUSDEDebtReward
<1>3. EntireColl(b)' = EntireColl(b) /\ EntireDebt(b)' = EntireDebt(b)
  BY <1>1, <1>2 DEF EntireColl, EntireDebt, TroveDebtOf
<1>4. ValueOf(EntireColl(b))' = ValueOf(EntireColl(b))
  BY <1>3 DEF ValueOf, Values
<1> QED BY <1>3, <1>4 DEF CurrentICR, ComputeCR

\* The end of a redemption: a trove that stays open has the ratio it had, or
\* lost as much debt as value.
LEMMA SettlingSpares ==
  ASSUME Ledger, Ledger', RewardsSeen, NEW amount, NEW rate, NEW acc, NEW met,
         SettlesRedemption(acc, met, amount, rate), RedemptionSpares(acc),
         NEW b \in Borrowers, IsActive(b), IsActive(b)', CurrentICR(b) >= DECIMAL_PRECISION
  PROVE  CurrentICR(b)' >= CurrentICR(b)
<1>1. /\ ~acc.reverted /\ RedemptionWalk(acc, met) /\ RedemptionLedger(acc, met, amount)
      /\ status' = [x \in Borrowers |-> IF x \in acc.closed THEN "closedByRedemption" ELSE status[x]]
      /\ stakes' = acc.stakes /\ troveDebt' = acc.troveDebt /\ eToken' = acc.eToken
      /\ snapshotColl' = [x \in Borrowers |-> IF x \in acc.closed THEN Zeros
                            ELSE IF x \in acc.touched THEN E_Coll ELSE snapshotColl[x]]
      /\ snapshotDebt' = [x \in Borrowers |-> IF x \in acc.closed THEN Zeros
                            ELSE IF x \in acc.touched THEN E_USDEDebt ELSE snapshotDebt[x]]
      /\ UNCHANGED <<rewardVars, envVars>>
  BY DEF SettlesRedemption, SettleRedemption
<1>2. /\ E_Coll' = E_Coll /\ E_USDEDebt' = E_USDEDebt /\ price' = price
      /\ USDE_GAS_COMPENSATION' = USDE_GAS_COMPENSATION
  BY <1>1 DEF rewardVars, envVars
<1>3. b \notin acc.closed
  BY <1>1 DEF IsActive
<1>4. /\ snapshotColl'[b] = (IF b \in acc.touched THEN E_Coll ELSE snapshotColl[b])
      /\ snapshotDebt'[b] = (IF b \in acc.touched THEN E_USDEDebt ELSE snapshotDebt[b])
  BY <1>1, <1>3
<1>5. TypeOK /\ TypeOK' /\ SnapshotsBehind /\ Priced
  BY PricesArePrices DEF Ledger
<1>6. CurrentICR(b) \in Nat
  BY <1>5, TroveTypes, ValueIsNat, RatioIsNat DEF CurrentICR
<1>7. NotMet(acc, b) \/ SparedByWalk(acc, b)
  BY <1>1, <1>3 DEF RedemptionSpares, ActiveTroves
<1>8. CASE NotMet(acc, b)
  <2>1. stakes'[b] = stakes[b]
    BY <1>1, <1>3, <1>8 DEF NotMet, RedemptionLedger
  <2>2. /\ eToken'[b] = eToken[b] /\ troveDebt'[b] = troveDebt[b]
        /\ snapshotColl'[b] = snapshotColl[b] /\ snapshotDebt'[b] = snapshotDebt[b]
    BY <1>1, <1>4, <1>8 DEF NotMet
  <2>3. CurrentICR(b)' = CurrentICR(b)
    BY <1>2, <2>1, <2>2, SameICR
  <2> QED BY <1>6, <2>3
<1>9. CASE SparedByWalk(acc, b)
  <2>1. SettledUp(b)'
    <3>1. CASE b \in acc.touched
      BY <1>2, <1>4, <3>1 DEF SettledUp
    <3>2. CASE b \notin acc.touched
      <4>1. ~HasPendingRewards(b)
        BY <1>9, <3>2 DEF SparedByWalk
      <4>2. UNCHANGED <<snapshotColl[b], snapshotDebt[b]>>
        BY <1>4, <3>2
      <4>3. snapshotDebt[b] = E_USDEDebt
        BY <4>1 DEF RewardsSeen, ActiveTroves
      <4>4. \A c \in Collaterals : snapshotColl[b][c] = E_Coll[c]
        BY <1>5, <4>1, AppliedIsPart
      <4>5. snapshotColl[b] \in Amounts /\ E_Coll \in Amounts
        BY <1>5 DEF TypeOK
      <4>6. snapshotColl[b] = E_Coll
        BY <4>4, <4>5, AmountsAreEqual
      <4> QED BY <1>2, <1>4, <3>2, <4>3, <4>6 DEF SettledUp
    <3> QED BY <3>1, <3>2
  <2>2. CurrentICR(b)' = ComputeCR(ValueOf(eToken[b]), TroveDebtOf(b))'
    BY <1>5, <2>1, SettledICRAfter
  <2> DEFINE left == ValueOf(acc.eToken[b])
             rest == acc.troveDebt[b] + USDE_GAS_COMPENSATION
             value == ValueOf(EntireColl(b))
             debt == EntireDebt(b)
  <2>3. ValueOf(eToken[b])' = left /\ TroveDebtOf(b)' = rest
    BY <1>1, <1>2 DEF ValueOf, Values, TroveDebtOf
  <2>4. CurrentICR(b)' = ComputeCR(left, rest)
    BY <2>2, <2>3 DEF ComputeCR
  <2>5. CurrentICR(b) = ComputeCR(value, debt)
    BY DEF CurrentICR
  <2>6. PICK lot \in Nat : /\ acc.troveDebt[b] + lot = troveDebt[b] + AppliedDebt(b)
                           /\ value <= left + lot
    BY <1>9 DEF SparedByWalk
  <2>7. acc.troveDebt[b] \in Nat /\ acc.eToken[b] \in Amounts
    BY <1>1 DEF RedemptionLedger, RedemptionTypes
  <2>8. /\ troveDebt[b] \in Nat /\ debt \in Nat /\ EntireColl(b) \in Amounts
        /\ debt = troveDebt[b] + USDE_GAS_COMPENSATION + PendingUSDEDebtReward(b)
        /\ USDE_GAS_COMPENSATION \in Nat /\ USDE_GAS_COMPENSATION > 0
    BY <1>5, TroveTypes, GasTypes
  <2>9. AppliedDebt(b) = PendingUSDEDebtReward(b) /\ PendingUSDEDebtReward(b) \in Nat
    BY <1>5, PendingTypes, SeenDebtIsApplied
  <2>10. value \in Nat /\ left \in Nat
    BY <1>5, <2>7, <2>8, ValueIsNat
  <2>11. rest \in Nat \ {0} /\ debt \in Nat \ {0} /\ rest + lot = debt
    BY <2>6, <2>7, <2>8, <2>9
  <2> HIDE DEF left, rest, value, debt
  <2>12. ComputeCR(left, rest) >= ComputeCR(value, debt)
    BY <2>5, <2>6, <2>10, <2>11, RatioOfSpared
  <2> QED BY <2>4, <2>5, <2>12
<1> QED BY <1>7, <1>8, <1>9

\* A refresh changes no amounts.
LEMMA RefreshingSpares ==
  ASSUME Ledger, NEW x, UpdateTrove(x), NEW b \in Borrowers, IsActive(b), IsActive(b)'
  PROVE  CurrentICR(b)' >= CurrentICR(b)
<1>1. TypeOK /\ SnapshotsBehind /\ Priced
  BY PricesArePrices DEF Ledger
<1>2. CurrentICR(b) \in Nat
  BY <1>1, TroveTypes, ValueIsNat, RatioIsNat DEF CurrentICR
<1>3. /\ eToken' = eToken /\ troveDebt' = troveDebt /\ stakes' = stakes
      /\ snapshotColl' = snapshotColl /\ snapshotDebt' = snapshotDebt
      /\ E_Coll' = E_Coll /\ E_USDEDebt' = E_USDEDebt /\ price' = price
      /\ USDE_GAS_COMPENSATION' = USDE_GAS_COMPENSATION
  BY DEF UpdateTrove, stakeVars, snapshotVars, rewardVars, debtVars, envVars
<1>4. CurrentICR(b)' = CurrentICR(b)
  BY <1>3, SameICR
<1> QED BY <1>2, <1>4

\* As long as every trove sees its rewards, a redemption makes no trove worse
\* that stays open and was worth its debt: what is drawn from it is worth no
\* more than the debt paid off, whether the walk redeemed from it, applied its
\* rewards and gave up, or never came to it.  A partial redemption computes the
\* stake anew, so a trove with rewards of debt that it does not see could be
\* promised more of them.
THEOREM RedemptionsSpareTheRest == Spec /\ []RewardsSeen => RedemptionSparesTheRest
<1>1. ASSUME Books, Ledger, Ledger', RewardsSeen, Redemption, NEW b \in Borrowers,
             IsActive(b), IsActive(b)', CurrentICR(b) >= DECIMAL_PRECISION
      PROVE  CurrentICR(b)' >= CurrentICR(b)
  <2>1. CASE \E x \in Borrowers : UpdateTrove(x)
    BY <1>1, <2>1, RefreshingSpares
  <2>2. CASE \E amount \in Nat, rate \in 0..DECIMAL_PRECISION : \E acc, met :
               SettlesRedemption(acc, met, amount, rate) /\ RedemptionSpares(acc)
    BY <1>1, <2>2, SettlingSpares
  <2> QED BY <1>1, <2>1, <2>2, RedemptionWalksSpare
<1>2. Books /\ Ledger /\ Ledger' /\ RewardsSeen /\ [Next]_vars =>
        [Redemption =>
           \A b \in Borrowers :
             IsActive(b) /\ IsActive(b)' /\ CurrentICR(b) >= DECIMAL_PRECISION
               => CurrentICR(b)' >= CurrentICR(b)]_vars
  BY <1>1
<1> QED BY <1>2, LedgerHolds, BooksAlwaysAgree, PTL DEF Spec, RedemptionSparesTheRest
===============================================================================
