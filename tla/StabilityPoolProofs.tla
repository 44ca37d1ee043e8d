------------------------ MODULE StabilityPoolProofs -------------------------
(***************************************************************************)
(* For every number of depositors, every collateral and every precision:   *)
(* the StabilityPool keeps its types, P never becomes zero, no snapshot is *)
(* ever ahead of the pool, the pool covers the deposits and, but for the   *)
(* dust of divisions, the gains, and nobody's call touches another's.      *)
(* The types are part of the induction: a sum S never falls because the    *)
(* gain per unit staked is not negative, which holds because the error fed *)
(* back never exceeds what it was taken from.                              *)
(***************************************************************************)
EXTENDS StabilityPool, Induction, TLAPS

\* P, brought to the scale of a snapshot, is not above the P of the snapshot.
NotRisen(snap) ==
  snap.epoch = currentEpoch =>
    /\ snap.scale = currentScale => P <= snap.P
    /\ snap.scale + 1 = currentScale => P <= snap.P * SCALE_FACTOR

\* SnapshotsNotAhead with the reason why no deposit outgrows what it was.
NoneAhead ==
  /\ \A u \in Users : initialValue[u] # 0 =>
       /\ NotAhead(depositSnapshots[u]) /\ NotRisen(depositSnapshots[u])
       /\ GainComputable(u)
  /\ \A f \in FrontEnds : frontEndStakes[f] # 0 => NotAhead(frontEndSnapshots[f])

IInv == TypeOK /\ NoneAhead

-----------------------------------------------------------------------------
(* Division by floor.                                                      *)

\* The quotient and the remainder.
LEMMA DivFacts ==
  ASSUME NEW k \in Nat, NEW d \in Nat \ {0}
  PROVE  /\ k \div d \in Nat
         /\ (k \div d) * d <= k
         /\ k < (k \div d) * d + d
  BY SMT

\* Products of natural numbers are natural.
LEMMA ProductOfNats == ASSUME NEW a \in Nat, NEW b \in Nat PROVE a * b \in Nat
  BY SMT

\* What is no more than b times d is divided by d to no more than b.
LEMMA DivAtMost ==
  ASSUME NEW a \in Nat, NEW b \in Nat, NEW d \in Nat \ {0}, a <= b * d
  PROVE  a \div d <= b
<1> DEFINE q == a \div d
<1>1. q \in Nat /\ q * d <= a
  BY DivFacts
<1> HIDE DEF q
<1>2. q * d <= b * d
  BY <1>1, ProductOfNats
<1>3. q <= b
  BY <1>1, <1>2
<1> QED BY <1>3 DEF q

\* What is less than b times d is divided by d to less than b.
LEMMA DivBelow ==
  ASSUME NEW a \in Nat, NEW b \in Nat, NEW d \in Nat \ {0}, a < b * d
  PROVE  a \div d < b
<1> DEFINE q == a \div d
<1>1. q \in Nat /\ q * d <= a
  BY DivFacts
<1> HIDE DEF q
<1>2. q * d < b * d
  BY <1>1, ProductOfNats
<1>3. q < b
  BY <1>1, <1>2
<1> QED BY <1>3 DEF q

\* What is at least b times d is divided by d to at least b.
LEMMA DivAtLeast ==
  ASSUME NEW a \in Nat, NEW b \in Nat, NEW d \in Nat \ {0}, a >= b * d
  PROVE  a \div d >= b
<1> DEFINE q == a \div d
<1>1. q \in Nat /\ a < q * d + d
  BY DivFacts
<1> HIDE DEF q
<1>2. b * d < (q + 1) * d
  BY <1>1, ProductOfNats
<1>3. b < q + 1
  BY <1>1, <1>2
<1> QED BY <1>1, <1>3 DEF q

\* Divided and multiplied back by the same ratio, a number does not grow.
LEMMA RoundTrip ==
  ASSUME NEW n \in Nat, NEW p \in Nat \ {0}, NEW t \in Nat \ {0}
  PROVE  /\ (n * p) \div t \in Nat
         /\ (((n * p) \div t) * t) \div p \in Nat
         /\ (((n * p) \div t) * t) \div p <= n
<1> DEFINE g == (n * p) \div t
<1>1. n * p \in Nat
  BY ProductOfNats
<1>2. g \in Nat /\ g * t <= n * p
  BY <1>1, DivFacts
<1> HIDE DEF g
<1>3. g * t \in Nat
  BY <1>2, ProductOfNats
<1>4. (g * t) \div p \in Nat
  BY <1>3, DivFacts
<1>5. (g * t) \div p <= n
  BY <1>2, <1>3, DivAtMost
<1> QED BY <1>2, <1>4, <1>5 DEF g

-----------------------------------------------------------------------------
(* Compounded deposits and gains.                                          *)

\* A compounded stake is a part of the pool.
LEMMA CompoundedIsPart ==
  ASSUME TypeOK, NEW stake \in Nat, NEW snap \in Snapshots,
         stake # 0 => NotAhead(snap)
  PROVE  CompoundedStake(stake, snap) \in 0..totalUSDEDeposits
<1> USE StabilityPoolAssumption
<1>1. CASE stake = 0 \/ snap.epoch < currentEpoch
  BY <1>1 DEF CompoundedStake, TypeOK
<1>2. CASE stake # 0 /\ ~(snap.epoch < currentEpoch)
  <2>1. /\ snap.P \in Nat \ {0} /\ P \in Nat
        /\ currentScale - snap.scale \in Int
        /\ totalUSDEDeposits \in Nat
    BY <1>2 DEF TypeOK, NotAhead, Snapshots
  <2> DEFINE product == (stake * P) \div snap.P
  <2>2. product \in Nat
    BY <2>1, ProductOfNats, DivFacts
  <2>3. product \div SCALE_FACTOR \in Nat
    BY <2>2, DivFacts
  <2>4. Product(stake, snap) \in {product, product \div SCALE_FACTOR, 0}
    BY <2>1 DEF Product
  <2> HIDE DEF product
  <2>5. MinOf(Product(stake, snap), totalUSDEDeposits) \in 0..totalUSDEDeposits
    BY <2>1, <2>2, <2>3, <2>4 DEF MinOf
  <2> QED BY <1>2, <2>1, <2>5 DEF CompoundedStake
<1> QED BY <1>1, <1>2

\* The gain of a depositor is an amount of each collateral.
LEMMA GainIsAmount ==
  ASSUME IInv, NEW u \in Users
  PROVE  CollateralGain(u) \in Amounts
<1> USE StabilityPoolAssumption
<1> SUFFICES ASSUME NEW c \in support, initialValue[u] # 0
             PROVE  ((initialValue[u] * SumSince(depositSnapshots[u], c))
                       \div depositSnapshots[u].P) \div DECIMAL_PRECISION \in Nat
  BY DEF CollateralGain, Amounts
<1> DEFINE snap == depositSnapshots[u]
           first == epochToScaleToSum[c][snap.epoch][snap.scale]
           second == epochToScaleToSum[c][snap.epoch][snap.scale + 1]
<1>1. /\ snap \in Snapshots /\ initialValue[u] \in Nat /\ c \in Collaterals
      /\ snap.P \in Nat \ {0} /\ first >= snap.S[c]
  BY DEF IInv, TypeOK, NoneAhead, NotAhead, NotRisen, GainComputable, Snapshots
<1>2. /\ snap.epoch \in Epochs /\ snap.scale \in Scales /\ snap.scale + 1 \in Scales
      /\ snap.S[c] \in Nat
  BY <1>1 DEF Snapshots, Scales, Amounts
<1>3. first \in Nat /\ second \in Nat
  BY <1>1, <1>2 DEF IInv, TypeOK
<1>4. SCALE_FACTOR \in Nat \ {0} /\ DECIMAL_PRECISION \in Nat \ {0}
  BY ProductOfNats
<1>5. second \div SCALE_FACTOR \in Nat
  BY <1>3, <1>4, DivFacts
<1>6. SumSince(snap, c) \in Nat
  BY <1>1, <1>2, <1>3, <1>5 DEF SumSince
<1>7. (initialValue[u] * SumSince(snap, c)) \div snap.P \in Nat
  BY <1>1, <1>6, ProductOfNats, DivFacts
<1> QED BY <1>4, <1>7, DivFacts

-----------------------------------------------------------------------------
(* Writing deposits and stakes.                                            *)

\* A snapshot of the pool as it is, is not ahead of it.
LEMMA FreshSnapshot ==
  ASSUME TypeOK, NEW S \in Amounts
  PROVE  LET snap == [S |-> S, P |-> P, scale |-> currentScale, epoch |-> currentEpoch]
         IN  snap \in Snapshots /\ NotAhead(snap) /\ NotRisen(snap)
  BY StabilityPoolAssumption DEF TypeOK, Snapshots, NotAhead, NotRisen, Epochs

\* The empty snapshot has the right type.
LEMMA NoSnapshotTyped ==
  ASSUME NEW S \in Amounts
  PROVE  NoSnapshot \in Snapshots /\ [NoSnapshot EXCEPT !.S = S] \in Snapshots
  BY StabilityPoolAssumption DEF NoSnapshot, Snapshots, Amounts, Epochs

\* What the invariant says of deposits, and of the stakes of front ends.
DepositsFine ==
  /\ initialValue \in [Users -> Nat] /\ frontEndTag \in [Users -> FrontEnds]
  /\ depositSnapshots \in [Users -> Snapshots]
  /\ \A u \in Users : initialValue[u] # 0 =>
       /\ NotAhead(depositSnapshots[u]) /\ NotRisen(depositSnapshots[u])
       /\ GainComputable(u)
StakesFine ==
  /\ frontEndStakes \in [FrontEnds -> Nat] /\ frontEndSnapshots \in [FrontEnds -> Snapshots]
  /\ \A f \in FrontEnds : frontEndStakes[f] # 0 => NotAhead(frontEndSnapshots[f])
PoolFine ==
  /\ registered \subseteq Users /\ totalUSDEDeposits \in Nat
  /\ P \in 1..DECIMAL_PRECISION
  /\ currentScale \in 0..MaxScale /\ currentEpoch \in Epochs
  /\ epochToScaleToSum \in [Collaterals -> [Epochs -> [Scales -> Nat]]]
  /\ lastUSDELossError \in Nat /\ lastCollError \in Amounts
  /\ collBalance \in Amounts /\ support \subseteq Collaterals /\ paused \in BOOLEAN

\* The invariant in these three parts, which the actions disturb separately.
LEMMA IInvParts == IInv <=> DepositsFine /\ StakesFine /\ PoolFine
  BY DEF IInv, TypeOK, NoneAhead, DepositsFine, StakesFine, PoolFine

\* _updateDepositAndSnapshots keeps what is said of deposits.
LEMMA UpdateDepositFine ==
  ASSUME IInv, NEW u \in Users, NEW newValue \in Nat, NEW tag \in FrontEnds,
         UpdateDeposit(u, newValue, tag), UNCHANGED <<offsetVars, ownerVars>>
  PROVE  DepositsFine'
<1> DEFINE S == [c \in Collaterals |-> CASE c \notin support -> depositSnapshots[u].S[c]
                                         [] newValue = 0 -> 0
                                         [] OTHER -> CurrentS(c)]
           snap == depositSnapshots'[u]
<1>1. /\ TypeOK /\ depositSnapshots[u].S \in Amounts
  BY DEF IInv, TypeOK, Snapshots
<1>2. \A c \in Collaterals : CurrentS(c) \in Nat
  BY <1>1, StabilityPoolAssumption DEF TypeOK, CurrentS, Scales, Epochs
<1>3. S \in Amounts
  <2>1. \A c \in Collaterals : S[c] \in {depositSnapshots[u].S[c], 0, CurrentS(c)}
    OBVIOUS
  <2> QED BY <1>1, <1>2, <2>1 DEF Amounts
<1>4. newValue # 0 => \A c \in support : S[c] = CurrentS(c)
  BY <1>1 DEF TypeOK
<1> HIDE DEF S
<1>5. /\ initialValue' = [initialValue EXCEPT ![u] = newValue]
      /\ frontEndTag' \in [Users -> FrontEnds]
      /\ depositSnapshots' = [depositSnapshots EXCEPT ![u] =
           IF newValue = 0 THEN [NoSnapshot EXCEPT !.S = S]
           ELSE [S |-> S, P |-> P, scale |-> currentScale, epoch |-> currentEpoch]]
  BY <1>1 DEF UpdateDeposit, S, TypeOK, FrontEnds
<1>6. snap \in Snapshots /\ (newValue # 0 => NotAhead(snap) /\ NotRisen(snap))
  BY <1>1, <1>3, <1>5, FreshSnapshot, NoSnapshotTyped DEF TypeOK
<1>7. \A w \in Users :
        initialValue'[w] # 0 => NotAhead(depositSnapshots'[w]) /\ NotRisen(depositSnapshots'[w])
  BY <1>1, <1>5, <1>6 DEF IInv, TypeOK, NoneAhead
<1>8. \A w \in Users : initialValue'[w] # 0 => GainComputable(w)'
  <2> SUFFICES ASSUME NEW w \in Users, initialValue'[w] # 0, NEW c \in support
               PROVE  epochToScaleToSum[c][depositSnapshots'[w].epoch][depositSnapshots'[w].scale]
                        >= depositSnapshots'[w].S[c]
    BY DEF GainComputable, offsetVars, ownerVars
  <2>1. CASE w = u
    <3>1. /\ newValue # 0
          /\ snap = [S |-> S, P |-> P, scale |-> currentScale, epoch |-> currentEpoch]
      BY <1>1, <1>5, <2>1 DEF TypeOK
    <3>2. S[c] = CurrentS(c) /\ CurrentS(c) \in Nat
      BY <1>1, <1>2, <1>4, <3>1 DEF TypeOK
    <3> QED BY <2>1, <3>1, <3>2 DEF CurrentS
  <2>2. CASE w # u
    <3>1. depositSnapshots'[w] = depositSnapshots[w] /\ initialValue[w] # 0
      BY <1>1, <1>5, <2>2 DEF TypeOK
    <3> QED BY <3>1 DEF IInv, NoneAhead, GainComputable
  <2> QED BY <2>1, <2>2
<1>9. /\ initialValue' \in [Users -> Nat]
      /\ depositSnapshots' \in [Users -> Snapshots]
  BY <1>1, <1>5, <1>6 DEF TypeOK
<1>10. \A w \in Users :
         /\ NotAhead(depositSnapshots'[w]) <=> NotAhead(depositSnapshots[w])'
         /\ NotRisen(depositSnapshots'[w]) <=> NotRisen(depositSnapshots[w])'
  BY DEF NotAhead, NotRisen, offsetVars
<1> QED BY <1>5, <1>7, <1>8, <1>9, <1>10 DEF DepositsFine

\* _updateFrontEndStakeAndSnapshots keeps what is said of stakes.
LEMMA UpdateStakeFine ==
  ASSUME IInv, NEW f \in FrontEnds, NEW newValue \in Nat,
         UpdateFrontEndStake(f, newValue), UNCHANGED offsetVars
  PROVE  StakesFine'
<1>1. TypeOK /\ Zeros \in Amounts
  BY DEF IInv, Zeros, Amounts
<1>2. /\ frontEndSnapshots'[f] \in Snapshots
      /\ newValue # 0 => NotAhead(frontEndSnapshots'[f])
  BY <1>1, FreshSnapshot, NoSnapshotTyped DEF UpdateFrontEndStake, TypeOK
<1>3. \A g \in FrontEnds : frontEndStakes'[g] # 0 => NotAhead(frontEndSnapshots'[g])
  BY <1>1, <1>2 DEF UpdateFrontEndStake, IInv, TypeOK, NoneAhead
<1>4. \A g \in FrontEnds : NotAhead(frontEndSnapshots'[g]) <=> NotAhead(frontEndSnapshots[g])'
  BY DEF NotAhead, offsetVars
<1> QED BY <1>1, <1>2, <1>3, <1>4 DEF UpdateFrontEndStake, StakesFine, TypeOK

\* Paying a gain leaves an amount of each collateral.
LEMMA PayGainFine ==
  ASSUME IInv, NEW u \in Users, PayGain(u)
  PROVE  collBalance' \in Amounts
<1>1. CollateralGain(u) \in Amounts /\ collBalance \in Amounts
  BY GainIsAmount DEF IInv, TypeOK
<1>2. \A c \in Collaterals : collBalance[c] - CollateralGain(u)[c] \in Nat
  BY <1>1 DEF PayGain, Amounts
<1> QED BY <1>2 DEF PayGain, Amounts

-----------------------------------------------------------------------------
(* One lemma per action.                                                   *)

\* A depositor's compounded deposit, and the stake of any front end.
LEMMA CompoundedParts ==
  ASSUME IInv
  PROVE  /\ \A u \in Users : CompoundedDeposit(u) \in 0..totalUSDEDeposits
         /\ \A f \in FrontEnds : CompoundedFrontEndStake(f) \in 0..totalUSDEDeposits
         /\ totalUSDEDeposits \in Nat
<1>1. TypeOK
  BY DEF IInv
<1>2. ASSUME NEW u \in Users PROVE CompoundedDeposit(u) \in 0..totalUSDEDeposits
  <2>1. /\ initialValue[u] \in Nat /\ depositSnapshots[u] \in Snapshots
        /\ initialValue[u] # 0 => NotAhead(depositSnapshots[u])
    BY DEF IInv, TypeOK, NoneAhead
  <2> QED BY <1>1, <2>1, CompoundedIsPart DEF CompoundedDeposit
<1>3. ASSUME NEW f \in FrontEnds PROVE CompoundedFrontEndStake(f) \in 0..totalUSDEDeposits
  <2>1. /\ frontEndStakes[f] \in Nat /\ frontEndSnapshots[f] \in Snapshots
        /\ frontEndStakes[f] # 0 => NotAhead(frontEndSnapshots[f])
    BY DEF IInv, TypeOK, NoneAhead
  <2> QED BY <1>1, <2>1, CompoundedIsPart DEF CompoundedFrontEndStake
<1> QED BY <1>1, <1>2, <1>3 DEF TypeOK

\* A call that writes one deposit and one stake and pays the gain.
LEMMA DepositorCallKeeps ==
  ASSUME IInv, NEW u \in Users, NEW f \in FrontEnds, NEW tag \in FrontEnds,
         NEW stake \in Nat, NEW value \in Nat,
         PayGain(u), UpdateFrontEndStake(f, stake), UpdateDeposit(u, value, tag),
         totalUSDEDeposits' \in Nat, UNCHANGED <<registered, offsetVars, ownerVars>>
  PROVE  IInv'
<1>1. DepositsFine'
  BY UpdateDepositFine
<1>2. StakesFine'
  BY UpdateStakeFine
<1>3. collBalance' \in Amounts
  BY PayGainFine
<1>4. PoolFine'
  BY <1>3 DEF PoolFine, IInv, TypeOK, offsetVars, ownerVars
<1>5. (IInv <=> DepositsFine /\ StakesFine /\ PoolFine)'
  BY DEF IInv, TypeOK, NoneAhead, DepositsFine, StakesFine, PoolFine
<1> QED BY <1>1, <1>2, <1>4, <1>5

\* provideToSP.
LEMMA ProvideKeeps ==
  ASSUME IInv, NEW u \in Users, NEW amount \in ProvideAmounts, NEW tag \in FrontEnds,
         ProvideToSP(u, amount, tag)
  PROVE  IInv'
<1> DEFINE frontEnd == IF initialValue[u] = 0 THEN tag ELSE frontEndTag[u]
<1>1. frontEnd \in FrontEnds /\ amount \in Nat
  BY StabilityPoolAssumption DEF IInv, TypeOK
<1>2. /\ CompoundedFrontEndStake(frontEnd) + amount \in Nat
      /\ CompoundedDeposit(u) + amount \in Nat
      /\ totalUSDEDeposits + amount \in Nat
  BY <1>1, CompoundedParts
<1>3. /\ PayGain(u)
      /\ UpdateFrontEndStake(frontEnd, CompoundedFrontEndStake(frontEnd) + amount)
      /\ UpdateDeposit(u, CompoundedDeposit(u) + amount, frontEnd)
      /\ totalUSDEDeposits' \in Nat
      /\ UNCHANGED <<registered, offsetVars, ownerVars>>
  BY <1>2 DEF ProvideToSP
<1> HIDE DEF frontEnd
<1> QED BY <1>1, <1>2, <1>3, DepositorCallKeeps

\* withdrawFromSP.
LEMMA WithdrawKeeps ==
  ASSUME IInv, NEW u \in Users, NEW amount \in WithdrawAmounts, WithdrawFromSP(u, amount)
  PROVE  IInv'
<1> DEFINE frontEnd == frontEndTag[u]
           withdrawn == MinOf(amount, CompoundedDeposit(u))
<1>1. frontEnd \in FrontEnds /\ amount \in Nat
  BY StabilityPoolAssumption DEF IInv, TypeOK
<1>2. withdrawn \in 0..CompoundedDeposit(u)
  BY <1>1, CompoundedParts DEF MinOf
<1>3. /\ PayGain(u)
      /\ CompoundedFrontEndStake(frontEnd) >= withdrawn
      /\ UpdateFrontEndStake(frontEnd, CompoundedFrontEndStake(frontEnd) - withdrawn)
      /\ UpdateDeposit(u, CompoundedDeposit(u) - withdrawn, frontEnd)
      /\ totalUSDEDeposits' = totalUSDEDeposits - withdrawn
      /\ UNCHANGED <<registered, offsetVars, ownerVars>>
  BY DEF WithdrawFromSP
<1> HIDE DEF frontEnd, withdrawn
<1>4. /\ CompoundedFrontEndStake(frontEnd) - withdrawn \in Nat
      /\ CompoundedDeposit(u) - withdrawn \in Nat
      /\ totalUSDEDeposits - withdrawn \in Nat
  BY <1>1, <1>2, <1>3, CompoundedParts
<1> QED BY <1>1, <1>3, <1>4, DepositorCallKeeps

\* withdrawCollateralGainToTrove.
LEMMA GainToTroveKeeps ==
  ASSUME IInv, NEW u \in Users, WithdrawCollateralGainToTrove(u)
  PROVE  IInv'
<1>1. frontEndTag[u] \in FrontEnds
  BY DEF IInv, TypeOK
<1>2. /\ CompoundedFrontEndStake(frontEndTag[u]) \in Nat
      /\ CompoundedDeposit(u) \in Nat /\ totalUSDEDeposits \in Nat
  BY <1>1, CompoundedParts
<1>3. /\ PayGain(u)
      /\ UpdateFrontEndStake(frontEndTag[u], CompoundedFrontEndStake(frontEndTag[u]))
      /\ UpdateDeposit(u, CompoundedDeposit(u), frontEndTag[u])
      /\ totalUSDEDeposits' \in Nat
      /\ UNCHANGED <<registered, offsetVars, ownerVars>>
  BY <1>2 DEF WithdrawCollateralGainToTrove
<1> QED BY <1>1, <1>2, <1>3, DepositorCallKeeps

\* The loss of an offset is a natural number of at least one, and so is the
\* error it leaves for the next one natural.
LEMMA LossFine ==
  ASSUME IInv, NEW debt \in Nat \ {0}, debt <= totalUSDEDeposits,
         debt # totalUSDEDeposits => LossNumerator(debt) >= 0
  PROVE  LossPerUnitStaked(debt) \in Nat \ {0} /\ LossError(debt) \in Nat
<1>1. /\ totalUSDEDeposits \in Nat \ {0} /\ lastUSDELossError \in Nat
      /\ DECIMAL_PRECISION \in Nat \ {0}
  BY StabilityPoolAssumption, ProductOfNats DEF IInv, TypeOK
<1>2. CASE debt = totalUSDEDeposits
  BY <1>1, <1>2 DEF LossPerUnitStaked, LossError
<1>3. CASE debt # totalUSDEDeposits
  <2> DEFINE n == LossNumerator(debt)
             q == n \div totalUSDEDeposits
  <2>1. n \in Nat
    BY <1>1, <1>3, ProductOfNats DEF LossNumerator
  <2> HIDE DEF n
  <2>2. q \in Nat /\ n < q * totalUSDEDeposits + totalUSDEDeposits
    BY <1>1, <2>1, DivFacts
  <2>3. LossPerUnitStaked(debt) = q + 1 /\ LossError(debt) = (q + 1) * totalUSDEDeposits - n
    BY <1>3 DEF LossPerUnitStaked, LossError, n
  <2> HIDE DEF q
  <2>4. (q + 1) * totalUSDEDeposits = q * totalUSDEDeposits + totalUSDEDeposits
    BY <1>1, <2>2
  <2>5. q * totalUSDEDeposits \in Nat
    BY <1>1, <2>2, ProductOfNats
  <2> QED BY <1>1, <2>1, <2>2, <2>3, <2>4, <2>5
<1> QED BY <1>2, <1>3

\* Gains per unit staked are not negative, and neither are the errors fed back.
LEMMA SumsFine ==
  ASSUME IInv, NEW coll \in Amounts, totalUSDEDeposits # 0, NEW c \in Collaterals
  PROVE  /\ GainPerUnitStaked(coll, c) \in Nat
         /\ CollNumerator(coll, c)
              - (GainPerUnitStaked(coll, c) * totalUSDEDeposits) \div P \in Nat
<1>1. /\ coll[c] \in Nat /\ lastCollError[c] \in Nat /\ DECIMAL_PRECISION \in Nat
      /\ P \in Nat \ {0} /\ totalUSDEDeposits \in Nat \ {0}
  BY StabilityPoolAssumption DEF IInv, TypeOK, Amounts
<1> DEFINE n == CollNumerator(coll, c)
<1>2. n \in Nat
  BY <1>1, ProductOfNats DEF CollNumerator
<1>3. GainPerUnitStaked(coll, c) = (n * P) \div totalUSDEDeposits
  BY DEF GainPerUnitStaked
<1> HIDE DEF n
<1>4. /\ (n * P) \div totalUSDEDeposits \in Nat
      /\ (((n * P) \div totalUSDEDeposits) * totalUSDEDeposits) \div P \in Nat
      /\ (((n * P) \div totalUSDEDeposits) * totalUSDEDeposits) \div P <= n
  BY <1>1, <1>2, RoundTrip
<1>5. n - (((n * P) \div totalUSDEDeposits) * totalUSDEDeposits) \div P \in Nat
  BY <1>2, <1>4
<1> QED BY <1>3, <1>4, <1>5 DEF n

\* An offset adds to the sums of the current scale and takes from none.
LEMMA UpdateSumsFine ==
  ASSUME IInv, NEW coll \in Amounts, totalUSDEDeposits # 0, UpdateSums(coll)
  PROVE  /\ epochToScaleToSum' \in [Collaterals -> [Epochs -> [Scales -> Nat]]]
         /\ lastCollError' \in Amounts
         /\ \A c \in Collaterals, e \in Epochs, s \in Scales :
              epochToScaleToSum'[c][e][s] >= epochToScaleToSum[c][e][s]
<1> DEFINE sum == epochToScaleToSum
           added(c) == [sum[c] EXCEPT ![currentEpoch][currentScale] =
                          @ + GainPerUnitStaked(coll, c)]
<1>1. /\ sum \in [Collaterals -> [Epochs -> [Scales -> Nat]]]
      /\ currentEpoch \in Epochs /\ currentScale \in Scales /\ lastCollError \in Amounts
  BY StabilityPoolAssumption DEF IInv, TypeOK, Scales
<1>2. ASSUME NEW c \in Collaterals
      PROVE  /\ added(c) \in [Epochs -> [Scales -> Nat]]
             /\ \A e \in Epochs, s \in Scales : added(c)[e][s] >= sum[c][e][s]
  <2> DEFINE row == sum[c][currentEpoch]
             gain == GainPerUnitStaked(coll, c)
  <2>1. gain \in Nat
    BY SumsFine
  <2> HIDE DEF gain
  <2>2. row \in [Scales -> Nat] /\ sum[c] \in [Epochs -> [Scales -> Nat]]
    BY <1>1
  <2> DEFINE newRow == [row EXCEPT ![currentScale] = @ + gain]
  <2>3. /\ newRow \in [Scales -> Nat]
        /\ \A s \in Scales : newRow[s] >= row[s]
    BY <1>1, <2>1, <2>2
  <2>4. added(c) = [sum[c] EXCEPT ![currentEpoch] = newRow]
    BY DEF gain
  <2> HIDE DEF newRow, added
  <2>5. added(c) \in [Epochs -> [Scales -> Nat]]
    BY <1>1, <2>2, <2>3, <2>4
  <2>6. \A e \in Epochs, s \in Scales : added(c)[e][s] >= sum[c][e][s]
    BY <1>1, <2>2, <2>3, <2>4
  <2> QED BY <2>5, <2>6
<1>3. epochToScaleToSum' = [c \in Collaterals |-> IF c \notin support THEN sum[c] ELSE added(c)]
  BY DEF UpdateSums
<1>4. \A c \in Collaterals :
        CollNumerator(coll, c) - (GainPerUnitStaked(coll, c) * totalUSDEDeposits) \div P \in Nat
  BY SumsFine
<1>5. lastCollError' \in Amounts
  BY <1>1, <1>4 DEF UpdateSums, Amounts
<1> HIDE DEF added
<1> QED BY <1>1, <1>2, <1>3, <1>5

\* P stays between one and DECIMAL_PRECISION and does not rise, or the scale
\* counts that it was multiplied.
LEMMA ShrinkFine ==
  ASSUME IInv, NEW factor \in 1..DECIMAL_PRECISION, ShrinkProduct(factor)
  PROVE  /\ P' \in 1..DECIMAL_PRECISION /\ currentScale' \in 0..MaxScale
         /\ currentEpoch' = currentEpoch
         /\ \/ currentScale' = currentScale /\ P' <= P
            \/ currentScale' = currentScale + 1 /\ P' <= P * SCALE_FACTOR
<1> DEFINE product == P * factor
<1>1. /\ P \in Nat /\ P <= DECIMAL_PRECISION /\ factor \in Nat
      /\ DECIMAL_PRECISION \in Nat \ {0} /\ SCALE_FACTOR \in Nat \ {0}
      /\ SCALE_FACTOR * SCALE_FACTOR <= DECIMAL_PRECISION
      /\ MaxScale \in Nat /\ currentScale \in 0..MaxScale
  BY StabilityPoolAssumption, ProductOfNats DEF IInv, TypeOK
<1>2. product \in Nat
  BY <1>1, ProductOfNats
<1>3. product <= P * DECIMAL_PRECISION
  BY <1>1, ProductOfNats
<1> HIDE DEF product
<1>4. CASE product \div DECIMAL_PRECISION < SCALE_FACTOR
  <2>1. /\ P' = (product * SCALE_FACTOR) \div DECIMAL_PRECISION /\ P' # 0
        /\ currentScale < MaxScale /\ currentScale' = currentScale + 1
        /\ currentEpoch' = currentEpoch
    BY <1>4 DEF ShrinkProduct, product
  <2>2. product < SCALE_FACTOR * DECIMAL_PRECISION
    <3>1. SUFFICES ASSUME product >= SCALE_FACTOR * DECIMAL_PRECISION PROVE FALSE
      BY <1>1, <1>2, ProductOfNats
    <3>2. product \div DECIMAL_PRECISION >= SCALE_FACTOR
      BY <1>1, <1>2, <3>1, DivAtLeast
    <3>3. product \div DECIMAL_PRECISION \in Nat
      BY <1>1, <1>2, DivFacts
    <3> QED BY <1>1, <1>4, <3>2, <3>3
  <2>3. product * SCALE_FACTOR \in Nat
    BY <1>1, <1>2, ProductOfNats
  <2>4. product * SCALE_FACTOR <= (SCALE_FACTOR * SCALE_FACTOR) * DECIMAL_PRECISION
    BY <1>1, <1>2, <2>2
  <2>5. SCALE_FACTOR * SCALE_FACTOR \in Nat /\ P * SCALE_FACTOR \in Nat
    BY <1>1, ProductOfNats
  <2>6. (product * SCALE_FACTOR) \div DECIMAL_PRECISION <= SCALE_FACTOR * SCALE_FACTOR
    BY <1>1, <2>3, <2>4, <2>5, DivAtMost
  <2>7. (product * SCALE_FACTOR) \div DECIMAL_PRECISION \in Nat
    BY <1>1, <2>3, DivFacts
  <2>8. product * SCALE_FACTOR <= (P * SCALE_FACTOR) * DECIMAL_PRECISION
    <3>1. product * SCALE_FACTOR <= (P * DECIMAL_PRECISION) * SCALE_FACTOR
      BY <1>1, <1>2, <1>3, ProductOfNats
    <3>2. (P * DECIMAL_PRECISION) * SCALE_FACTOR = (P * SCALE_FACTOR) * DECIMAL_PRECISION
      BY <1>1
    <3> QED BY <3>1, <3>2
  <2>9. (product * SCALE_FACTOR) \div DECIMAL_PRECISION <= P * SCALE_FACTOR
    BY <1>1, <2>3, <2>5, <2>8, DivAtMost
  <2> QED BY <1>1, <2>1, <2>5, <2>6, <2>7, <2>9
<1>5. CASE ~(product \div DECIMAL_PRECISION < SCALE_FACTOR)
  <2>1. /\ P' = product \div DECIMAL_PRECISION
        /\ currentScale' = currentScale /\ currentEpoch' = currentEpoch
    BY <1>5 DEF ShrinkProduct, product
  <2>2. product \div DECIMAL_PRECISION \in Nat
    BY <1>1, <1>2, DivFacts
  <2>3. product \div DECIMAL_PRECISION <= P
    BY <1>1, <1>2, <1>3, DivAtMost
  <2> QED BY <1>1, <1>5, <2>1, <2>2, <2>3
<1> QED BY <1>4, <1>5

\* What an offset does to the product: the pool is emptied, or P falls as it
\* stands in the scale before.
PoolShrinks ==
  \/ currentEpoch' > currentEpoch
  \/ /\ currentEpoch' = currentEpoch
     /\ \/ currentScale' = currentScale /\ P' <= P
        \/ currentScale' = currentScale + 1 /\ P' <= P * SCALE_FACTOR

\* A snapshot that is not ahead is still not ahead after an offset.
LEMMA SnapshotsStayBehind ==
  ASSUME TypeOK, PoolShrinks, P' \in Nat, currentScale' \in 0..MaxScale, currentEpoch' \in Epochs,
         NEW snap \in Snapshots, NotAhead(snap)
  PROVE  /\ snap.P # 0 /\ snap.epoch <= currentEpoch'
         /\ snap.epoch = currentEpoch' => snap.scale <= currentScale'
         /\ NotRisen(snap) /\ snap.epoch = currentEpoch' =>
              /\ snap.scale = currentScale' => P' <= snap.P
              /\ snap.scale + 1 = currentScale' => P' <= snap.P * SCALE_FACTOR
<1>1. /\ currentEpoch' \in Nat /\ currentScale' \in Nat /\ currentEpoch \in Nat
      /\ currentScale \in Nat /\ snap.epoch \in Nat /\ snap.scale \in Nat
      /\ P \in Nat /\ snap.P \in Nat /\ SCALE_FACTOR \in Nat \ {0}
  BY StabilityPoolAssumption DEF Epochs, Snapshots, TypeOK
<1>2. /\ snap.P # 0 /\ snap.epoch <= currentEpoch'
      /\ snap.epoch = currentEpoch' => snap.scale <= currentScale'
  BY <1>1 DEF NotAhead, PoolShrinks
<1>3. ASSUME NotRisen(snap), snap.epoch = currentEpoch'
      PROVE  /\ snap.scale = currentScale' => P' <= snap.P
             /\ snap.scale + 1 = currentScale' => P' <= snap.P * SCALE_FACTOR
  <2>1. currentEpoch' = currentEpoch /\ snap.scale <= currentScale
    BY <1>1, <1>3 DEF NotAhead, PoolShrinks
  <2>2. CASE currentScale' = currentScale /\ P' <= P
    <3>1. snap.P * SCALE_FACTOR \in Nat
      BY <1>1, ProductOfNats
    <3> QED BY <1>1, <1>3, <2>1, <2>2, <3>1 DEF NotRisen
  <2>3. CASE currentScale' = currentScale + 1 /\ P' <= P * SCALE_FACTOR
    <3>1. ASSUME snap.scale + 1 = currentScale' PROVE P' <= snap.P * SCALE_FACTOR
      <4>1. P <= snap.P
        BY <1>1, <1>3, <2>1, <2>3, <3>1 DEF NotRisen
      <4>2. P * SCALE_FACTOR <= snap.P * SCALE_FACTOR
        BY <1>1, <4>1
      <4> QED BY <1>1, <2>3, <4>2, ProductOfNats
    <3> QED BY <1>1, <2>1, <2>3, <3>1
  <2> QED BY <1>1, <2>1, <2>2, <2>3 DEF PoolShrinks
<1> QED BY <1>2, <1>3

\* An offset shrinks the pool and adds to the sums.
LEMMA OffsetFine ==
  ASSUME IInv, NEW o \in Offsets, Offset(o.debt, o.coll)
  PROVE  /\ TypeOK' /\ PoolShrinks /\ totalUSDEDeposits' <= totalUSDEDeposits
         /\ P' \in 1..DECIMAL_PRECISION /\ currentScale' \in 0..MaxScale /\ currentEpoch' \in Epochs
         /\ epochToScaleToSum' \in [Collaterals -> [Epochs -> [Scales -> Nat]]]
         /\ \A c \in Collaterals, e \in Epochs, s \in Scales :
              epochToScaleToSum'[c][e][s] >= epochToScaleToSum[c][e][s]
         /\ UNCHANGED <<depositVars, frontEndVars, ownerVars>>
<1>1. /\ o.debt \in Nat \ {0} /\ o.coll \in Amounts
      /\ totalUSDEDeposits \in Nat \ {0} /\ o.debt <= totalUSDEDeposits
      /\ o.debt # totalUSDEDeposits => LossNumerator(o.debt) >= 0
      /\ DECIMAL_PRECISION \in Nat
  BY StabilityPoolAssumption DEF Offset, IInv, TypeOK
<1> DEFINE loss == LossPerUnitStaked(o.debt)
           factor == DECIMAL_PRECISION - loss
<1>2. loss \in Nat \ {0} /\ lastUSDELossError' \in Nat
  BY <1>1, LossFine DEF Offset
<1>3. /\ factor >= 0
      /\ IF factor = 0 THEN EmptyPool ELSE ShrinkProduct(factor)
      /\ UpdateSums(o.coll)
  BY DEF Offset
<1> HIDE DEF loss
<1>4. factor \in 0..DECIMAL_PRECISION
  BY <1>1, <1>2, <1>3
<1>5. /\ epochToScaleToSum' \in [Collaterals -> [Epochs -> [Scales -> Nat]]]
      /\ lastCollError' \in Amounts
      /\ \A c \in Collaterals, e \in Epochs, s \in Scales :
           epochToScaleToSum'[c][e][s] >= epochToScaleToSum[c][e][s]
  BY <1>1, <1>3, UpdateSumsFine
<1>6. /\ P' \in 1..DECIMAL_PRECISION /\ currentScale' \in 0..MaxScale /\ currentEpoch' \in Epochs
      /\ PoolShrinks
  <2>1. CASE factor = 0
    BY <1>1, <1>2, <1>3, <2>1, StabilityPoolAssumption
       DEF EmptyPool, PoolShrinks, IInv, TypeOK, Epochs
  <2>2. CASE factor # 0
    <3>1. factor \in 1..DECIMAL_PRECISION /\ ShrinkProduct(factor)
      BY <1>3, <1>4, <2>2
    <3> HIDE DEF factor
    <3> QED BY <3>1, ShrinkFine DEF PoolShrinks, IInv, TypeOK
  <2> QED BY <2>1, <2>2
<1> HIDE DEF factor
<1>7. /\ totalUSDEDeposits' = totalUSDEDeposits - o.debt
      /\ collBalance' = [c \in Collaterals |-> collBalance[c] + o.coll[c]]
      /\ UNCHANGED <<depositVars, frontEndVars, ownerVars>>
  BY DEF Offset
<1>8. totalUSDEDeposits' \in Nat
  BY <1>1, <1>7
<1>9. collBalance' \in Amounts
  BY <1>1, <1>7 DEF IInv, TypeOK, Amounts
<1>10. TypeOK'
  BY <1>2, <1>5, <1>6, <1>7, <1>8, <1>9 DEF IInv, TypeOK, depositVars, frontEndVars, ownerVars
<1>11. totalUSDEDeposits' <= totalUSDEDeposits
  BY <1>1, <1>7
<1> QED BY <1>5, <1>6, <1>7, <1>10, <1>11

\* offset.
LEMMA OffsetKeeps ==
  ASSUME IInv, NEW o \in Offsets, Offset(o.debt, o.coll)
  PROVE  IInv'
<1>1. /\ TypeOK' /\ PoolShrinks /\ totalUSDEDeposits' <= totalUSDEDeposits
      /\ P' \in 1..DECIMAL_PRECISION /\ currentScale' \in 0..MaxScale /\ currentEpoch' \in Epochs
      /\ epochToScaleToSum' \in [Collaterals -> [Epochs -> [Scales -> Nat]]]
      /\ \A c \in Collaterals, e \in Epochs, s \in Scales :
           epochToScaleToSum'[c][e][s] >= epochToScaleToSum[c][e][s]
      /\ UNCHANGED <<depositVars, frontEndVars, ownerVars>>
  BY OffsetFine
<1>2. ASSUME NEW snap \in Snapshots, NotAhead(snap)
       PROVE  /\ snap.P # 0 /\ snap.epoch <= currentEpoch'
              /\ snap.epoch = currentEpoch' => snap.scale <= currentScale'
              /\ NotRisen(snap) /\ snap.epoch = currentEpoch' =>
                   /\ snap.scale = currentScale' => P' <= snap.P
                   /\ snap.scale + 1 = currentScale' => P' <= snap.P * SCALE_FACTOR
  BY <1>1, <1>2, SnapshotsStayBehind DEF IInv
<1>3. ASSUME NEW u \in Users, initialValue[u] # 0
       PROVE  /\ NotAhead(depositSnapshots[u])' /\ NotRisen(depositSnapshots[u])'
              /\ GainComputable(u)'
  <2>1. /\ depositSnapshots[u] \in Snapshots
        /\ NotAhead(depositSnapshots[u]) /\ NotRisen(depositSnapshots[u])
        /\ depositSnapshots' = depositSnapshots /\ support' = support
        /\ support \subseteq Collaterals /\ initialValue' = initialValue
    BY <1>1, <1>3 DEF IInv, TypeOK, NoneAhead, depositVars, ownerVars
  <2>2. NotAhead(depositSnapshots[u])' /\ NotRisen(depositSnapshots[u])'
    BY <1>2, <2>1 DEF NotAhead, NotRisen
  <2>3. ASSUME NEW c \in support, NEW snap \in Snapshots, snap = depositSnapshots[u]
        PROVE  epochToScaleToSum'[c][snap.epoch][snap.scale] >= snap.S[c]
    <3>1. /\ c \in Collaterals /\ snap.epoch \in Epochs /\ snap.scale \in Scales
          /\ snap.S[c] \in Nat
      BY <2>1, StabilityPoolAssumption DEF Snapshots, Scales, Amounts
    <3>2. epochToScaleToSum[c][snap.epoch][snap.scale] >= snap.S[c]
      BY <1>3, <2>3 DEF IInv, NoneAhead, GainComputable
    <3>3. /\ epochToScaleToSum[c][snap.epoch][snap.scale] \in Nat
          /\ epochToScaleToSum'[c][snap.epoch][snap.scale] \in Nat
      BY <1>1, <3>1 DEF IInv, TypeOK
    <3>4. epochToScaleToSum'[c][snap.epoch][snap.scale]
            >= epochToScaleToSum[c][snap.epoch][snap.scale]
      BY <1>1, <3>1
    <3> QED BY <3>1, <3>2, <3>3, <3>4
  <2>4. GainComputable(u)'
    BY <2>1, <2>3 DEF GainComputable
  <2> QED BY <2>2, <2>4
<1>4. ASSUME NEW f \in FrontEnds, frontEndStakes[f] # 0
       PROVE  NotAhead(frontEndSnapshots[f])'
  <2>1. /\ frontEndSnapshots[f] \in Snapshots /\ NotAhead(frontEndSnapshots[f])
        /\ frontEndSnapshots' = frontEndSnapshots
    BY <1>1, <1>4 DEF IInv, TypeOK, NoneAhead, frontEndVars
  <2> QED BY <1>2, <2>1 DEF NotAhead
<1>5. NoneAhead'
  BY <1>1, <1>3, <1>4 DEF NoneAhead, depositVars, frontEndVars
<1> QED BY <1>1, <1>5 DEF IInv

\* registerFrontEnd and setPause touch nothing the invariant speaks of.
LEMMA OthersKeep ==
  ASSUME IInv, \/ \E u \in Users : RegisterFrontEnd(u)
               \/ \E val \in BOOLEAN : SetPause(val)
               \/ UNCHANGED vars
  PROVE  IInv'
<1>1. /\ UNCHANGED <<initialValue, frontEndTag, depositSnapshots, frontEndVars,
                     totalUSDEDeposits, offsetVars, collBalance, support>>
      /\ registered' \subseteq Users /\ paused' \in BOOLEAN
  BY DEF RegisterFrontEnd, SetPause, vars, depositVars, ownerVars, IInv, TypeOK
<1> QED BY <1>1 DEF IInv, TypeOK, NoneAhead, NotAhead, NotRisen, GainComputable,
                    frontEndVars, offsetVars

\* The initial state has no deposit, no stake and sums of zero.
LEMMA InitFine == Init => IInv
<1> SUFFICES ASSUME Init PROVE IInv
  OBVIOUS
<1>1. Zeros \in Amounts
  BY DEF Zeros, Amounts
<1>2. NoSnapshot \in Snapshots
  BY <1>1, NoSnapshotTyped
<1>3. TypeOK
  <2>1. 0 \in Epochs /\ 0 \in 0..MaxScale
    BY StabilityPoolAssumption DEF Epochs
  <2>2. DECIMAL_PRECISION \in 1..DECIMAL_PRECISION
    <3>1. SCALE_FACTOR * SCALE_FACTOR # 0
      BY StabilityPoolAssumption
    <3> QED BY <3>1, StabilityPoolAssumption, ProductOfNats
  <2>3. /\ initialValue \in [Users -> Nat] /\ frontEndTag \in [Users -> FrontEnds]
        /\ depositSnapshots \in [Users -> Snapshots]
        /\ frontEndStakes \in [FrontEnds -> Nat] /\ frontEndSnapshots \in [FrontEnds -> Snapshots]
    BY <1>2 DEF Init, FrontEnds
  <2>4. epochToScaleToSum \in [Collaterals -> [Epochs -> [Scales -> Nat]]]
    BY DEF Init
  <2> QED BY <1>1, <2>1, <2>2, <2>3, <2>4 DEF Init, TypeOK
<1>4. NoneAhead
  BY DEF Init, NoneAhead
<1> QED BY <1>3, <1>4 DEF IInv

\* Every action keeps the invariant.
LEMMA NextFine == IInv /\ [Next]_vars => IInv'
<1> SUFFICES ASSUME IInv, [Next]_vars PROVE IInv'
  OBVIOUS
<1>1. CASE \E u \in Users : DepositorCall(u)
  <2>1. PICK u \in Users : DepositorCall(u)
    BY <1>1
  <2>2. CASE \E amount \in ProvideAmounts, tag \in FrontEnds : ProvideToSP(u, amount, tag)
    BY <2>2, ProvideKeeps
  <2>3. CASE \E amount \in WithdrawAmounts : WithdrawFromSP(u, amount)
    BY <2>3, WithdrawKeeps
  <2>4. CASE WithdrawCollateralGainToTrove(u)
    BY <2>4, GainToTroveKeeps
  <2> QED BY <2>1, <2>2, <2>3, <2>4 DEF DepositorCall
<1>2. CASE OffsetStep
  BY <1>2, OffsetKeeps DEF OffsetStep
<1>3. CASE \/ \E u \in Users : RegisterFrontEnd(u)
           \/ \E val \in BOOLEAN : SetPause(val)
           \/ UNCHANGED vars
  BY <1>3, OthersKeep
<1> QED BY <1>1, <1>2, <1>3 DEF Next

-----------------------------------------------------------------------------
\* Brought to the present scale, a product that has not risen makes no
\* deposit larger than it was.
LEMMA NoneOutgrown ==
  ASSUME IInv, NEW u \in Users
  PROVE  LossComputable(u)
<1> DEFINE stake == initialValue[u]
           snap == depositSnapshots[u]
<1>1. /\ stake \in Nat /\ snap \in Snapshots
      /\ stake # 0 => NotAhead(snap) /\ NotRisen(snap)
      /\ P \in Nat /\ currentScale \in Nat /\ currentEpoch \in Nat
      /\ SCALE_FACTOR \in Nat \ {0} /\ totalUSDEDeposits \in Nat
  BY StabilityPoolAssumption DEF IInv, TypeOK, NoneAhead, Epochs
<1> HIDE DEF stake, snap
<1>2. CASE stake = 0 \/ snap.epoch < currentEpoch
  BY <1>1, <1>2 DEF LossComputable, CompoundedDeposit, CompoundedStake, stake, snap
<1>3. CASE stake # 0 /\ ~(snap.epoch < currentEpoch)
  <2>1. /\ snap.P \in Nat \ {0} /\ snap.scale \in Nat /\ snap.epoch = currentEpoch
        /\ snap.scale <= currentScale
    BY <1>1, <1>3 DEF NotAhead, Snapshots, Epochs
  <2>2. stake * P \in Nat /\ stake * SCALE_FACTOR \in Nat
    BY <1>1, ProductOfNats
  <2>3. Product(stake, snap) \in 0..stake
    <3>1. CASE snap.scale = currentScale
      <4>1. stake * P <= stake * snap.P
        BY <1>1, <1>3, <2>1, <3>1 DEF NotRisen
      <4>2. (stake * P) \div snap.P <= stake
        BY <1>1, <2>1, <2>2, <4>1, DivAtMost
      <4>3. (stake * P) \div snap.P \in Nat
        BY <2>1, <2>2, DivFacts
      <4>4. Product(stake, snap) = (stake * P) \div snap.P
        BY <1>1, <3>1 DEF Product
      <4> QED BY <1>1, <4>2, <4>3, <4>4
    <3>2. CASE snap.scale + 1 = currentScale
      <4> DEFINE product == (stake * P) \div snap.P
      <4>1. P <= snap.P * SCALE_FACTOR /\ snap.P * SCALE_FACTOR \in Nat
        BY <1>1, <1>3, <2>1, <3>2, ProductOfNats DEF NotRisen
      <4>2. stake * P <= stake * (snap.P * SCALE_FACTOR)
        BY <1>1, <4>1
      <4>3. stake * (snap.P * SCALE_FACTOR) = (stake * SCALE_FACTOR) * snap.P
        BY <1>1, <2>1
      <4>4. product <= stake * SCALE_FACTOR
        BY <2>1, <2>2, <4>2, <4>3, DivAtMost
      <4>5. product \in Nat
        BY <2>1, <2>2, DivFacts
      <4>6. Product(stake, snap) = product \div SCALE_FACTOR
        BY <1>1, <2>1, <3>2 DEF Product
      <4> HIDE DEF product
      <4>7. product \div SCALE_FACTOR <= stake
        BY <1>1, <4>4, <4>5, DivAtMost
      <4>8. product \div SCALE_FACTOR \in Nat
        BY <1>1, <4>5, DivFacts
      <4> QED BY <1>1, <4>6, <4>7, <4>8
    <3>3. CASE snap.scale # currentScale /\ snap.scale + 1 # currentScale
      BY <1>1, <2>1, <3>3 DEF Product
    <3> QED BY <3>1, <3>2, <3>3
  <2>4. MinOf(Product(stake, snap), totalUSDEDeposits) <= stake
    BY <1>1, <2>3 DEF MinOf
  <2> QED BY <1>1, <2>4 DEF LossComputable, CompoundedDeposit, CompoundedStake, stake, snap
<1> QED BY <1>2, <1>3

-----------------------------------------------------------------------------
(* What an offset does to deposits and gains.                              *)

\* Multiplication keeps the order.
LEMMA ProductMonotone ==
  ASSUME NEW v \in Nat, NEW a \in Nat, NEW b \in Nat, a <= b
  PROVE  v * a <= v * b
  BY SMT

\* Division keeps the order.
LEMMA DivMonotone ==
  ASSUME NEW a \in Nat, NEW b \in Nat, NEW d \in Nat \ {0}, a <= b
  PROVE  a \div d <= b \div d
<1> DEFINE q == b \div d
<1>1. q \in Nat /\ b < q * d + d
  BY DivFacts
<1> HIDE DEF q
<1>2. a < (q + 1) * d
  BY <1>1, ProductOfNats
<1>3. a \div d < q + 1 /\ a \div d \in Nat
  BY <1>1, <1>2, DivBelow, DivFacts
<1> QED BY <1>1, <1>3 DEF q

\* Rescaling first and dividing twice is never more than dividing once.
LEMMA RescaledDivision ==
  ASSUME NEW a \in Nat, NEW b \in Nat, NEW d \in Nat \ {0}, NEW f \in Nat \ {0}, a <= b * f
  PROVE  (a \div d) \div f <= b \div d
<1> DEFINE q == b \div d
           r == a \div d
<1>1. q \in Nat /\ b < q * d + d /\ r \in Nat
  BY DivFacts
<1>2. b + 1 <= (q + 1) * d
  BY <1>1, ProductOfNats
<1>3. (b + 1) * f <= ((q + 1) * d) * f
  BY <1>1, <1>2, ProductOfNats
<1>4. ((q + 1) * d) * f = ((q + 1) * f) * d /\ (b + 1) * f = b * f + f
  BY <1>1
<1>5. a < ((q + 1) * f) * d
  BY <1>1, <1>3, <1>4, ProductOfNats
<1>6. (q + 1) * f \in Nat
  BY <1>1, ProductOfNats
<1>7. r < (q + 1) * f
  BY <1>5, <1>6, DivBelow
<1> HIDE DEF q, r
<1>8. r \div f < q + 1 /\ r \div f \in Nat
  BY <1>1, <1>7, DivBelow, DivFacts
<1> QED BY <1>1, <1>8 DEF q, r

\* What an offset leaves of a stake made since the pool was last emptied.
LEMMA ProductFalls ==
  ASSUME TypeOK, TypeOK', PoolShrinks, currentEpoch' = currentEpoch,
         NEW stake \in Nat, NEW snap \in Snapshots, snap.P # 0, snap.scale <= currentScale
  PROVE  Product(stake, snap)' <= Product(stake, snap) /\ Product(stake, snap)' \in Nat
<1>1. /\ P \in Nat /\ P' \in Nat /\ currentScale \in Nat /\ currentScale' \in Nat
      /\ snap.P \in Nat \ {0} /\ snap.scale \in Nat /\ SCALE_FACTOR \in Nat \ {0}
      /\ currentEpoch \in Nat
  BY StabilityPoolAssumption DEF TypeOK, Snapshots, Epochs
<1> DEFINE before == (stake * P) \div snap.P
           after == (stake * P') \div snap.P
<1>2. stake * P \in Nat /\ stake * P' \in Nat
  BY <1>1, ProductOfNats
<1>3. /\ before \in Nat /\ after \in Nat
      /\ before \div SCALE_FACTOR \in Nat /\ after \div SCALE_FACTOR \in Nat
  BY <1>1, <1>2, DivFacts
<1>4. /\ currentScale = snap.scale => Product(stake, snap) = before
      /\ currentScale = snap.scale + 1 => Product(stake, snap) = before \div SCALE_FACTOR
      /\ currentScale > snap.scale + 1 => Product(stake, snap) = 0
  BY <1>1 DEF Product
<1>5. /\ currentScale' = snap.scale => Product(stake, snap)' = after
      /\ currentScale' = snap.scale + 1 => Product(stake, snap)' = after \div SCALE_FACTOR
      /\ currentScale' > snap.scale + 1 => Product(stake, snap)' = 0
  BY <1>1 DEF Product
<1>6. CASE currentScale' = currentScale /\ P' <= P
  <2>1. stake * P' <= stake * P
    BY <1>1, <1>6, ProductMonotone
  <2>2. after <= before
    BY <1>1, <1>2, <2>1, DivMonotone
  <2>3. after \div SCALE_FACTOR <= before \div SCALE_FACTOR
    BY <1>1, <1>3, <2>2, DivMonotone
  <2> HIDE DEF before, after
  <2> QED BY <1>1, <1>3, <1>4, <1>5, <1>6, <2>2, <2>3
<1>7. CASE currentScale' = currentScale + 1 /\ P' <= P * SCALE_FACTOR
  <2>1. stake * P' <= stake * (P * SCALE_FACTOR)
    BY <1>1, <1>7, ProductOfNats, ProductMonotone
  <2>2. stake * (P * SCALE_FACTOR) = (stake * P) * SCALE_FACTOR
    BY <1>1
  <2>3. after \div SCALE_FACTOR <= before
    BY <1>1, <1>2, <2>1, <2>2, RescaledDivision
  <2> HIDE DEF before, after
  <2> QED BY <1>1, <1>3, <1>4, <1>5, <1>7, <2>3
<1> QED BY <1>1, <1>6, <1>7 DEF PoolShrinks

\* An offset enlarges no compounded stake.
LEMMA CompoundedFalls ==
  ASSUME TypeOK, TypeOK', PoolShrinks, totalUSDEDeposits' <= totalUSDEDeposits,
         NEW stake \in Nat, NEW snap \in Snapshots, stake # 0 => NotAhead(snap)
  PROVE  CompoundedStake(stake, snap)' <= CompoundedStake(stake, snap)
<1>1. /\ currentEpoch \in Nat /\ currentEpoch' \in Nat /\ snap.epoch \in Nat
      /\ totalUSDEDeposits \in Nat /\ totalUSDEDeposits' \in Nat
  BY StabilityPoolAssumption DEF TypeOK, Snapshots, Epochs
<1>2. CompoundedStake(stake, snap) \in Nat
  BY <1>1, CompoundedIsPart
<1>3. CASE stake = 0 \/ snap.epoch < currentEpoch'
  <2>1. CompoundedStake(stake, snap)' = 0
    BY <1>3 DEF CompoundedStake
  <2> QED BY <1>2, <2>1
<1>4. CASE stake # 0 /\ ~(snap.epoch < currentEpoch')
  <2>1. /\ NotAhead(snap) /\ currentEpoch' = currentEpoch /\ snap.epoch = currentEpoch
        /\ snap.P # 0 /\ snap.scale <= currentScale
    BY <1>1, <1>4 DEF NotAhead, PoolShrinks
  <2> DEFINE before == MinOf(Product(stake, snap), totalUSDEDeposits)
             after == MinOf(Product(stake, snap)', totalUSDEDeposits')
             least == stake \div SCALE_FACTOR
  <2>2. Product(stake, snap)' <= Product(stake, snap) /\ Product(stake, snap)' \in Nat
    BY <2>1, ProductFalls
  <2>3. Product(stake, snap) \in Int /\ least \in Nat
    <3>1. /\ SCALE_FACTOR \in Nat \ {0} /\ snap.P \in Nat \ {0} /\ stake * P \in Nat
      BY <2>1, StabilityPoolAssumption, ProductOfNats DEF TypeOK, Snapshots
    <3> DEFINE product == (stake * P) \div snap.P
    <3>2. product \in Nat
      BY <3>1, DivFacts
    <3>3. product \div SCALE_FACTOR \in Nat /\ least \in Nat
      BY <3>1, <3>2, DivFacts
    <3>4. Product(stake, snap) \in {product, product \div SCALE_FACTOR, 0}
      BY <1>1, StabilityPoolAssumption DEF Product, TypeOK, Snapshots
    <3> QED BY <3>2, <3>3, <3>4
  <2>4. after <= before /\ before \in Int /\ after \in Nat
    BY <1>1, <2>2, <2>3 DEF MinOf
  <2>5. /\ CompoundedStake(stake, snap) = IF before < least THEN 0 ELSE before
        /\ CompoundedStake(stake, snap)' = IF after < least THEN 0 ELSE after
    BY <1>1, <1>4, <2>1 DEF CompoundedStake, MinOf
  <2> HIDE DEF before, after, least
  <2> QED BY <1>2, <2>3, <2>4, <2>5
<1> QED BY <1>3, <1>4

\* An offset takes from nobody's gain.
LEMMA GainsGrow ==
  ASSUME IInv, TypeOK',
         \A c \in Collaterals, e \in Epochs, s \in Scales :
           epochToScaleToSum'[c][e][s] >= epochToScaleToSum[c][e][s],
         UNCHANGED <<depositVars, ownerVars>>,
         NEW u \in Users, NEW c \in Collaterals
  PROVE  CollateralGain(u)'[c] >= CollateralGain(u)[c]
<1>1. /\ initialValue' = initialValue /\ depositSnapshots' = depositSnapshots
      /\ support' = support
  BY DEF depositVars, ownerVars
<1>2. CASE initialValue[u] = 0 \/ c \notin support
  BY <1>1, <1>2 DEF CollateralGain
<1>3. CASE initialValue[u] # 0 /\ c \in support
  <2> DEFINE value == initialValue[u]
             snap == depositSnapshots[u]
             first == epochToScaleToSum[c][snap.epoch][snap.scale]
             second == epochToScaleToSum[c][snap.epoch][snap.scale + 1]
             since == first - snap.S[c] + second \div SCALE_FACTOR
             since2 == first' - snap.S[c] + second' \div SCALE_FACTOR
  <2>1. /\ snap \in Snapshots /\ value \in Nat
        /\ snap.P \in Nat \ {0} /\ first >= snap.S[c]
        /\ SCALE_FACTOR \in Nat \ {0} /\ DECIMAL_PRECISION \in Nat \ {0}
    BY <1>3, StabilityPoolAssumption, ProductOfNats
       DEF IInv, TypeOK, NoneAhead, NotAhead, GainComputable, Snapshots
  <2>2. /\ snap.epoch \in Epochs /\ snap.scale \in Scales /\ snap.scale + 1 \in Scales
        /\ snap.S[c] \in Nat
    BY <2>1, StabilityPoolAssumption DEF Snapshots, Scales, Amounts
  <2>3. first \in Nat /\ second \in Nat
    BY <2>2 DEF IInv, TypeOK
  <2>4. /\ epochToScaleToSum'[c][snap.epoch][snap.scale] \in Nat
        /\ epochToScaleToSum'[c][snap.epoch][snap.scale + 1] \in Nat
    BY <2>2 DEF TypeOK
  <2>5. first' \in Nat /\ second' \in Nat /\ first' >= first /\ second' >= second
    BY <1>1, <2>2, <2>4
  <2>6. second \div SCALE_FACTOR <= second' \div SCALE_FACTOR
    BY <2>1, <2>3, <2>5, DivMonotone
  <2>7. second \div SCALE_FACTOR \in Nat /\ second' \div SCALE_FACTOR \in Nat
    BY <2>1, <2>3, <2>5, DivFacts
  <2>8. since \in Nat /\ since2 \in Nat /\ since <= since2
    BY <2>1, <2>2, <2>3, <2>5, <2>6, <2>7
  <2>9. /\ CollateralGain(u)[c] = ((value * since) \div snap.P) \div DECIMAL_PRECISION
        /\ CollateralGain(u)'[c] = ((value * since2) \div snap.P) \div DECIMAL_PRECISION
    BY <1>1, <1>3 DEF CollateralGain, SumSince
  <2> HIDE DEF value, snap, since, since2
  <2>10. value * since \in Nat /\ value * since2 \in Nat /\ value * since <= value * since2
    BY <2>1, <2>8, ProductOfNats
  <2>11. /\ (value * since) \div snap.P <= (value * since2) \div snap.P
         /\ (value * since) \div snap.P \in Nat /\ (value * since2) \div snap.P \in Nat
    BY <2>1, <2>10, DivMonotone, DivFacts
  <2>12. /\ ((value * since) \div snap.P) \div DECIMAL_PRECISION
              <= ((value * since2) \div snap.P) \div DECIMAL_PRECISION
         /\ ((value * since) \div snap.P) \div DECIMAL_PRECISION \in Nat
         /\ ((value * since2) \div snap.P) \div DECIMAL_PRECISION \in Nat
    BY <2>1, <2>11, DivMonotone, DivFacts
  <2> QED BY <2>9, <2>12
<1> QED BY <1>2, <1>3

-----------------------------------------------------------------------------
(* Deposits and what the pool holds.                                       *)

\* A deposit that no emptying of the pool has wiped out.
Live(u) == initialValue[u] # 0 /\ depositSnapshots[u].epoch = currentEpoch

\* P, brought to the scale of the snapshot, is worth w[u] / K of a deposit per
\* unit: a common denominator K for the shares, so that they can be added up.
Shared(K, w, u) ==
  /\ depositSnapshots[u].scale = currentScale =>
       K * initialValue[u] <= w[u] * depositSnapshots[u].P
  /\ depositSnapshots[u].scale + 1 = currentScale =>
       K * initialValue[u] <= w[u] * (depositSnapshots[u].P * SCALE_FACTOR)

\* What stands behind the deposits: the pool, the error not yet fed back, and
\* the most any error can be.
Backing == totalUSDEDeposits * DECIMAL_PRECISION - lastUSDELossError + DepositCap

CoveredBy(K, w) ==
  /\ K \in Nat \ {0} /\ w \in [Users -> Nat]
  /\ \A u \in Users : Live(u) => Shared(K, w, u)
  /\ (SumFunctionOnSet(w, Users) * P) * DECIMAL_PRECISION <= K * Backing

\* The invariant behind DepositsCovered.
Coverage ==
  /\ totalUSDEDeposits <= DepositCap /\ lastUSDELossError <= DepositCap
  /\ \E K, w : CoveredBy(K, w)

\* A positive factor can be taken off both sides.
LEMMA CancelFactor ==
  ASSUME NEW a \in Int, NEW b \in Int, NEW c \in Nat \ {0}, a * c <= b * c
  PROVE  a <= b
<1>1. SUFFICES ASSUME a >= b + 1 PROVE FALSE
  OBVIOUS
<1>2. a * c >= (b + 1) * c
  BY <1>1, Z3
<1>3. (b + 1) * c = b * c + c /\ b * c \in Int /\ a * c \in Int
  BY Z3
<1> QED BY <1>2, <1>3

\* And put on both.
LEMMA PutFactor ==
  ASSUME NEW a \in Int, NEW b \in Int, NEW c \in Nat, a <= b
  PROVE  a * c <= b * c /\ a * c \in Int /\ b * c \in Int
BY Z3

\* The quotient of a share, through one division and through two.
LEMMA ShareWorth ==
  ASSUME NEW K \in Nat, NEW d \in Nat, NEW p \in Nat, NEW s \in Nat \ {0}, NEW w \in Nat,
         K * d <= w * s
  PROVE  K * ((d * p) \div s) <= w * p
<1> DEFINE q == (d * p) \div s
<1>1. d * p \in Nat
  BY ProductOfNats
<1>2. q \in Nat /\ q * s <= d * p
  BY <1>1, DivFacts
<1> HIDE DEF q
<1>3. K * q \in Nat /\ w * p \in Nat /\ K * d \in Nat /\ w * s \in Nat /\ q * s \in Nat
  BY <1>2, ProductOfNats
<1>4. (q * s) * K <= (d * p) * K
  BY <1>1, <1>2, <1>3, PutFactor
<1>5. (K * d) * p <= (w * s) * p
  BY <1>3, PutFactor
<1>6. (q * s) * K = (K * q) * s /\ (d * p) * K = (K * d) * p /\ (w * s) * p = (w * p) * s
  BY <1>2, Z3
<1>7. (K * q) * s <= (w * p) * s
  <2>1. (K * q) * s \in Int /\ (K * d) * p \in Int /\ (w * p) * s \in Int
    BY <1>3, ProductOfNats
  <2> QED BY <2>1, <1>4, <1>5, <1>6
<1>8. K * q <= w * p
  BY <1>3, <1>7, CancelFactor
<1> QED BY <1>8 DEF q

\* Dividing twice is dividing by the product, or less.
LEMMA DividedTwice ==
  ASSUME NEW n \in Nat, NEW s \in Nat \ {0}, NEW f \in Nat \ {0}
  PROVE  /\ s * f \in Nat \ {0}
         /\ (n \div s) \div f \in Nat
         /\ (n \div s) \div f <= n \div (s * f)
<1> DEFINE q == n \div s
           r == q \div f
<1>1. q \in Nat /\ q * s <= n
  BY DivFacts
<1> HIDE DEF q
<1>2. r \in Nat /\ r * f <= q
  BY <1>1, DivFacts
<1> HIDE DEF r
<1>3. s * f \in Nat \ {0} /\ r * f \in Nat
  BY <1>2, Z3
<1>4. (r * f) * s <= q * s
  BY <1>1, <1>2, <1>3, PutFactor
<1>5. (r * f) * s = r * (s * f) /\ q * s \in Nat
  BY <1>1, <1>2, Z3
<1>6. n >= r * (s * f)
  BY <1>1, <1>3, <1>4, <1>5, ProductOfNats
<1>7. n \div (s * f) >= r /\ n \div (s * f) \in Nat
  BY <1>2, <1>3, <1>6, DivAtLeast, DivFacts
<1> QED BY <1>2, <1>3, <1>7 DEF r, q

\* No deposit, uncapped, is worth more than its share of P.
LEMMA WorthAtMost ==
  ASSUME IInv, NEW K, NEW w, CoveredBy(K, w), NEW u \in Users
  PROVE  /\ Uncapped(u) \in Nat
         /\ K * Uncapped(u) <= w[u] * P
<1> USE StabilityPoolAssumption
<1> DEFINE d == initialValue[u]
           snap == depositSnapshots[u]
           s == snap.P
<1>1. /\ K \in Nat \ {0} /\ w[u] \in Nat /\ d \in Nat /\ snap \in Snapshots
      /\ s \in Nat /\ P \in Nat \ {0} /\ currentScale \in Nat /\ snap.scale \in Nat
      /\ currentEpoch \in Nat /\ snap.epoch \in Nat
  BY DEF CoveredBy, IInv, TypeOK, Snapshots, Epochs
<1>2. w[u] * P \in Nat
  BY <1>1, ProductOfNats
<1>3. CASE ~Live(u)
  <2>1. Uncapped(u) = 0
    <3>1. d # 0 => snap.epoch <= currentEpoch
      BY DEF IInv, NoneAhead, NotAhead
    <3> QED BY <1>1, <1>3, <3>1 DEF Live, Uncapped
  <2> QED BY <1>1, <1>2, <2>1
<1>4. CASE Live(u)
  <2>1. /\ d # 0 /\ s \in Nat \ {0} /\ snap.scale <= currentScale
        /\ Uncapped(u) = Product(d, snap) /\ Shared(K, w, u)
    BY <1>1, <1>4 DEF Live, Uncapped, IInv, NoneAhead, NotAhead, CoveredBy
  <2> DEFINE q == (d * P) \div s
  <2>2. d * P \in Nat /\ q \in Nat
    BY <1>1, <2>1, ProductOfNats, DivFacts
  <2>3. /\ currentScale = snap.scale => Product(d, snap) = q
        /\ currentScale = snap.scale + 1 => Product(d, snap) = q \div SCALE_FACTOR
        /\ currentScale > snap.scale + 1 => Product(d, snap) = 0
    BY <1>1 DEF Product
  <2>4. CASE currentScale = snap.scale
    <3>1. K * d <= w[u] * s
      BY <2>1, <2>4 DEF Shared
    <3>2. K * q <= w[u] * P
      BY <1>1, <2>1, <3>1, ShareWorth
    <3> QED BY <2>1, <2>2, <2>3, <2>4, <3>2
  <2>5. CASE currentScale = snap.scale + 1
    <3>1. K * d <= w[u] * (s * SCALE_FACTOR)
      BY <2>1, <2>5 DEF Shared
    <3> DEFINE t == s * SCALE_FACTOR
               r == (d * P) \div t
    <3>2. /\ t \in Nat \ {0} /\ q \div SCALE_FACTOR \in Nat
          /\ q \div SCALE_FACTOR <= r
      BY <2>1, <2>2, DividedTwice
    <3>3. K * r <= w[u] * P
      <4> HIDE DEF t
      <4> QED BY <1>1, <3>1, <3>2, ShareWorth DEF t
    <3>4. r \in Nat
      <4> HIDE DEF t
      <4> QED BY <2>2, <3>2, DivFacts
    <3> DEFINE x == q \div SCALE_FACTOR
    <3>5. Uncapped(u) = x
      BY <2>1, <2>3, <2>5
    <3> HIDE DEF r, x
    <3>6. x * K <= r * K /\ x * K = K * x /\ r * K = K * r
      BY <1>1, <3>2, <3>4, PutFactor DEF x, r
    <3>7. K * x \in Nat /\ K * r \in Nat
      BY <1>1, <3>2, <3>4, ProductOfNats DEF x, r
    <3> QED BY <1>2, <3>2, <3>3, <3>5, <3>6, <3>7 DEF x, r
  <2>6. CASE currentScale > snap.scale + 1
    BY <1>1, <1>2, <2>1, <2>3, <2>6
  <2> QED BY <1>1, <2>1, <2>4, <2>5, <2>6
<1> QED BY <1>3, <1>4

\* Coverage is what DepositsCovered says.
LEMMA CoverageCovers ==
  ASSUME IInv, Coverage
  PROVE  DepositsCovered
<1> USE StabilityPoolAssumption
<1>1. PICK K, w : CoveredBy(K, w)
  BY DEF Coverage
<1> DEFINE f == [u \in Users |-> Uncapped(u)]
           g == [u \in Users |-> K * Uncapped(u)]
           h == [u \in Users |-> w[u] * P]
           F == SumFunctionOnSet(f, Users)
           W == SumFunctionOnSet(w, Users)
<1>2. /\ K \in Nat \ {0} /\ w \in [Users -> Nat] /\ P \in Nat /\ DECIMAL_PRECISION \in Nat
      /\ totalUSDEDeposits \in Nat /\ lastUSDELossError \in Nat /\ DepositCap \in Nat
      /\ IsFiniteSet(Users) /\ Users \in SUBSET Users
  BY <1>1 DEF CoveredBy, IInv, TypeOK
<1>3. ASSUME NEW u \in Users
      PROVE  /\ f[u] \in Nat /\ g[u] \in Nat /\ h[u] \in Nat /\ w[u] \in Nat
             /\ g[u] = K * f[u] /\ h[u] = P * w[u] /\ g[u] <= h[u]
  <2>1. Uncapped(u) \in Nat /\ K * Uncapped(u) <= w[u] * P /\ w[u] \in Nat
    BY <1>1, <1>2, WorthAtMost
  <2>2. K * Uncapped(u) \in Nat /\ w[u] * P \in Nat /\ w[u] * P = P * w[u]
    BY <1>2, <2>1, ProductOfNats
  <2> QED BY <2>1, <2>2
<1>4. TotalUncapped = F /\ DOMAIN f = Users
  BY DEF TotalUncapped, SumFunction
<1>5. W * P \in Nat /\ W \in Nat /\ F \in Nat /\ K * F \in Nat
  <2>1. W \in Nat
    BY <1>2, SumOfNaturals
  <2>2. F \in Nat
    <3>1. \A u \in Users : f[u] \in Nat
      BY <1>3
    <3> HIDE DEF f
    <3> QED BY <1>2, <3>1, SumOfNaturals
  <2> HIDE DEF W, F
  <2> QED BY <1>2, <2>1, <2>2, ProductOfNats
<1>6. K * F <= W * P
  <2>1. /\ \A u \in Users : f[u] \in Int /\ g[u] = K * f[u]
        /\ \A u \in Users : w[u] \in Int /\ h[u] = P * w[u]
        /\ \A u \in Users : g[u] \in Int /\ h[u] \in Int /\ g[u] <= h[u]
    <3> HIDE DEF f, g, h
    <3> QED BY <1>3
  <2> HIDE DEF f, g, h
  <2>2. SumFunctionOnSet(g, Users) = K * F
    <3>1. K \in Int
      BY <1>2
    <3> QED BY <1>2, <2>1, <3>1, SumScaled
  <2>3. SumFunctionOnSet(h, Users) = P * W
    BY <1>2, <2>1, SumScaled
  <2>4. SumFunctionOnSet(g, Users) <= SumFunctionOnSet(h, Users)
    BY <1>2, <2>1, SumMonotone
  <2>5. P * W = W * P
    BY <1>2, <1>5
  <2> QED BY <2>2, <2>3, <2>4, <2>5
<1> HIDE DEF f, g, h, F, W
<1>7. (K * F) * DECIMAL_PRECISION <= (W * P) * DECIMAL_PRECISION
  BY <1>2, <1>5, <1>6, PutFactor
<1>8. (W * P) * DECIMAL_PRECISION <= K * Backing
  BY <1>1 DEF CoveredBy, W
<1>9. (F * DECIMAL_PRECISION) * K <= Backing * K
  <2>1. Backing \in Int
    BY <1>2, ProductOfNats DEF Backing
  <2>2. (K * F) * DECIMAL_PRECISION = (F * DECIMAL_PRECISION) * K /\ K * Backing = Backing * K
    BY <1>2, <1>5, <2>1, Z3
  <2>3. (K * F) * DECIMAL_PRECISION \in Int /\ (W * P) * DECIMAL_PRECISION \in Int /\ K * Backing \in Int
    BY <1>2, <1>5, <2>1, Z3
  <2> QED BY <1>7, <1>8, <2>2, <2>3
<1>10. F * DECIMAL_PRECISION <= Backing
  <2>1. Backing \in Int /\ F * DECIMAL_PRECISION \in Int
    BY <1>2, <1>5, ProductOfNats DEF Backing
  <2> QED BY <1>2, <1>9, <2>1, CancelFactor
<1>11. (F - totalUSDEDeposits) * DECIMAL_PRECISION
         = F * DECIMAL_PRECISION - totalUSDEDeposits * DECIMAL_PRECISION
  BY <1>2, <1>5, Z3
<1>12. F * DECIMAL_PRECISION \in Nat /\ totalUSDEDeposits * DECIMAL_PRECISION \in Nat
  BY <1>2, <1>5, ProductOfNats
<1> QED BY <1>2, <1>4, <1>10, <1>11, <1>12 DEF Backing, DepositsCovered

-----------------------------------------------------------------------------
(* Depositors' calls keep the coverage.                                    *)

\* A capped deposit is no more than the uncapped one.
LEMMA CapLowers ==
  ASSUME IInv, NEW u \in Users, Uncapped(u) \in Nat
  PROVE  CompoundedDeposit(u) \in Nat /\ CompoundedDeposit(u) <= Uncapped(u)
<1>1. /\ totalUSDEDeposits \in Nat /\ CompoundedDeposit(u) \in Nat
  BY CompoundedParts
<1>2. MinOf(Uncapped(u), totalUSDEDeposits) <= Uncapped(u)
  BY <1>1 DEF MinOf
<1>3. CASE initialValue[u] = 0 \/ depositSnapshots[u].epoch < currentEpoch
  BY <1>1, <1>3 DEF CompoundedDeposit, CompoundedStake, Uncapped
<1>4. CASE ~(initialValue[u] = 0 \/ depositSnapshots[u].epoch < currentEpoch)
  <2>1. Uncapped(u) = Product(initialValue[u], depositSnapshots[u])
    BY <1>4 DEF Uncapped
  <2>2. \/ CompoundedDeposit(u) = 0
        \/ CompoundedDeposit(u) = MinOf(Uncapped(u), totalUSDEDeposits)
    BY <1>4, <2>1 DEF CompoundedDeposit, CompoundedStake
  <2> QED BY <1>1, <1>2, <2>2
<1> QED BY <1>3, <1>4

\* The arithmetic of a deposit or withdrawal of delta: the shares W are
\* brought to the denominator K * P, and the caller's x becomes K * value.
LEMMA CallArithmetic ==
  ASSUME NEW K \in Nat \ {0}, NEW W \in Nat, NEW p \in Nat \ {0}, NEW D \in Nat,
         NEW x \in Nat, NEW value \in Nat, NEW worth \in Nat, NEW delta \in Int, NEW backing \in Int,
         (W * p) * D <= K * backing, K * worth <= x * p, value <= worth + delta
  PROVE  ((p * W - p * x + K * value) * p) * D <= (K * p) * (backing + delta * D)
<1>1. K * value <= K * worth + K * delta
  <2>1. value * K <= (worth + delta) * K
    BY PutFactor
  <2> QED BY <2>1, Z3
<1> DEFINE sum == p * W - p * x + K * value
<1>2. /\ p * W \in Int /\ p * x \in Int /\ K * value \in Int /\ K * worth \in Int /\ K * delta \in Int
      /\ W * p = p * W /\ x * p = p * x
  BY Z3
<1>3. sum <= W * p + K * delta /\ sum \in Int /\ W * p + K * delta \in Int
  BY <1>1, <1>2
<1> HIDE DEF sum
<1>4. sum * D <= (W * p + K * delta) * D /\ sum * D \in Int
  BY <1>3, PutFactor
<1>5. (W * p + K * delta) * D = (W * p) * D + K * (delta * D)
  BY Z3
<1>6. K * (backing + delta * D) = K * backing + K * (delta * D)
  BY Z3
<1>7. sum * D <= K * (backing + delta * D)
  <2>1. /\ (W * p) * D \in Int /\ K * (delta * D) \in Int /\ K * backing \in Int
    BY Z3
  <2> QED BY <1>4, <1>5, <1>6, <2>1
<1>8. (sum * D) * p <= (K * (backing + delta * D)) * p
  <2>1. K * (backing + delta * D) \in Int
    BY Z3
  <2> QED BY <1>4, <1>7, <2>1, PutFactor
<1>9. /\ (sum * D) * p = (sum * p) * D
      /\ (K * (backing + delta * D)) * p = (K * p) * (backing + delta * D)
  BY <1>3, Z3
<1> QED BY <1>8, <1>9 DEF sum

\* A call of a depositor that moves delta in or out of the pool.
LEMMA CallCovers ==
  ASSUME IInv, Coverage, NEW u \in Users, NEW value \in Nat, NEW tag, NEW delta \in Int,
         UpdateDeposit(u, value, tag), value = CompoundedDeposit(u) + delta,
         totalUSDEDeposits' = totalUSDEDeposits + delta, totalUSDEDeposits' <= DepositCap,
         UNCHANGED offsetVars
  PROVE  Coverage'
<1> USE StabilityPoolAssumption
<1>1. PICK K, w : CoveredBy(K, w)
  BY DEF Coverage
<1> DEFINE h == [v \in Users |-> P * w[v]]
           w2 == [v \in Users |-> IF v = u THEN K * value ELSE P * w[v]]
           K2 == K * P
           W == SumFunctionOnSet(w, Users)
           W2 == SumFunctionOnSet(w2, Users)
<1>2. /\ K \in Nat \ {0} /\ w \in [Users -> Nat] /\ P \in Nat \ {0} /\ DECIMAL_PRECISION \in Nat
      /\ totalUSDEDeposits \in Nat /\ lastUSDELossError \in Nat /\ DepositCap \in Nat
      /\ IsFiniteSet(Users) /\ Users \in SUBSET Users /\ w[u] \in Nat
      /\ initialValue \in [Users -> Nat] /\ depositSnapshots \in [Users -> Snapshots]
  BY <1>1 DEF CoveredBy, IInv, TypeOK
<1>3. /\ P' = P /\ currentScale' = currentScale /\ currentEpoch' = currentEpoch
      /\ lastUSDELossError' = lastUSDELossError
  BY DEF offsetVars
<1>4. K2 \in Nat \ {0} /\ K * value \in Nat
  BY <1>2, Z3
<1>5. ASSUME NEW v \in Users
      PROVE  /\ h[v] \in Nat /\ w2[v] \in Nat /\ h[v] = P * w[v] /\ w[v] \in Nat
             /\ v # u => w2[v] = h[v]
  <2>1. w[v] \in Nat /\ P * w[v] \in Nat
    BY <1>2, ProductOfNats
  <2> QED BY <1>4, <2>1
<1>6. w2 \in [Users -> Nat] /\ w2[u] = K * value /\ h[u] = P * w[u]
  BY <1>5
<1>7. /\ W \in Nat
      /\ W2 = P * W - P * w[u] + K * value
  <2>1. W \in Nat
    BY <1>2, SumOfNaturals
  <2>2. /\ \A v \in Users : w[v] \in Int /\ h[v] = P * w[v]
        /\ \A v \in Users : h[v] \in Int /\ w2[v] \in Int
        /\ \A v \in Users \ {u} : w2[v] = h[v]
    <3> HIDE DEF h, w2
    <3> QED BY <1>5
  <2>3. P \in Int
    BY <1>2
  <2> HIDE DEF h, w2
  <2>4. SumFunctionOnSet(h, Users) = P * W
    BY <1>2, <2>2, <2>3, SumScaled
  <2>5. W2 = SumFunctionOnSet(h, Users) - h[u] + w2[u]
    BY <1>2, <2>2, SumReplacedAt
  <2> QED BY <1>6, <2>1, <2>4, <2>5
<1> HIDE DEF W, W2
<1>8. (W2 * P) * DECIMAL_PRECISION <= K2 * (Backing + delta * DECIMAL_PRECISION)
  <2>1. Uncapped(u) \in Nat /\ K * Uncapped(u) <= w[u] * P
    BY <1>1, WorthAtMost
  <2>2. CompoundedDeposit(u) \in Nat /\ CompoundedDeposit(u) <= Uncapped(u)
    BY <2>1, CapLowers
  <2>3. value <= Uncapped(u) + delta
    BY <2>1, <2>2
  <2>4. Backing \in Int
    BY <1>2, ProductOfNats DEF Backing
  <2>5. (W * P) * DECIMAL_PRECISION <= K * Backing
    BY <1>1 DEF CoveredBy, W
  <2>6. ((P * W - P * w[u] + K * value) * P) * DECIMAL_PRECISION
          <= (K * P) * (Backing + delta * DECIMAL_PRECISION)
    BY <1>2, <1>7, <2>1, <2>3, <2>4, <2>5, CallArithmetic
  <2> QED BY <1>7, <2>6
<1>9. Backing' = Backing + delta * DECIMAL_PRECISION
  <2>1. Backing' = (totalUSDEDeposits + delta) * DECIMAL_PRECISION - lastUSDELossError + DepositCap
    BY <1>3 DEF Backing
  <2>2. (totalUSDEDeposits + delta) * DECIMAL_PRECISION
          = totalUSDEDeposits * DECIMAL_PRECISION + delta * DECIMAL_PRECISION
    BY <1>2, Z3
  <2>3. totalUSDEDeposits * DECIMAL_PRECISION \in Int /\ delta * DECIMAL_PRECISION \in Int
    BY <1>2, Z3
  <2> QED BY <1>2, <2>1, <2>2, <2>3 DEF Backing
<1>13. PICK K3, w3 : K3 = K2 /\ w3 = w2
  OBVIOUS
<1>10. ASSUME NEW v \in Users, Live(v)'
       PROVE  Shared(K3, w3, v)'
  <2>1. CASE v = u
    <3>1. value # 0
      BY <1>2, <1>3, <2>1, <1>10 DEF Live, UpdateDeposit
    <3>2. /\ initialValue'[u] = value /\ depositSnapshots'[u].P = P
          /\ depositSnapshots'[u].scale = currentScale
      BY <1>2, <3>1 DEF UpdateDeposit
    <3>3. K2 * value = w2[u] * P
      BY <1>2, <1>6, Z3
    <3>4. currentScale \in Int /\ w2[u] * P \in Nat
      BY <1>2, <1>4, <1>6, ProductOfNats DEF IInv, TypeOK
    <3> HIDE DEF w2, K2
    <3> QED BY <1>3, <1>13, <2>1, <3>2, <3>3, <3>4 DEF Shared
  <2>2. CASE v # u
    <3> DEFINE d == initialValue[v]
               s == depositSnapshots[v].P
    <3>1. initialValue'[v] = initialValue[v] /\ depositSnapshots'[v] = depositSnapshots[v]
      BY <1>2, <2>2 DEF UpdateDeposit
    <3>2. Shared(K, w, v)
      BY <1>1, <1>3, <1>10, <3>1 DEF Live, CoveredBy
    <3>3. /\ d \in Nat /\ s \in Nat /\ w[v] \in Nat /\ w2[v] = P * w[v]
          /\ K * d \in Nat /\ w[v] * s \in Nat /\ s * SCALE_FACTOR \in Nat
          /\ w[v] * (s * SCALE_FACTOR) \in Nat
      BY <1>2, <1>5, <2>2, ProductOfNats DEF Snapshots
    <3>4. /\ K2 * d = (K * d) * P
          /\ w2[v] * s = (w[v] * s) * P
          /\ w2[v] * (s * SCALE_FACTOR) = (w[v] * (s * SCALE_FACTOR)) * P
      BY <1>2, <3>3, Z3
    <3> HIDE DEF w2, K2, d, s
    <3>5. K * d <= w[v] * s => K2 * d <= w2[v] * s
      BY <1>2, <3>3, <3>4, PutFactor
    <3>6. K * d <= w[v] * (s * SCALE_FACTOR) => K2 * d <= w2[v] * (s * SCALE_FACTOR)
      BY <1>2, <3>3, <3>4, PutFactor
    <3> QED BY <1>3, <1>13, <3>1, <3>2, <3>5, <3>6 DEF Shared, d, s
  <2> QED BY <2>1, <2>2
<1>11. CoveredBy(K3, w3)'
  <2> HIDE DEF w2, K2
  <2>1. (SumFunctionOnSet(w3, Users) * P') * DECIMAL_PRECISION <= K3 * Backing'
    BY <1>3, <1>8, <1>9, <1>13 DEF W2
  <2> QED BY <1>4, <1>6, <1>10, <1>13, <2>1 DEF CoveredBy
<1>12. totalUSDEDeposits' <= DepositCap /\ lastUSDELossError' <= DepositCap
  BY <1>3 DEF Coverage
<1> HIDE DEF w2, K2
<1> QED BY <1>11, <1>12 DEF Coverage

-----------------------------------------------------------------------------
(* Offsets keep the coverage.                                              *)

\* The error left for the next offset is no more than the pool, and what stands
\* behind the deposits shrinks with the factor but for the error fed back.
LEMMA LossBounded ==
  ASSUME IInv, NEW debt \in Nat \ {0}, debt <= totalUSDEDeposits,
         debt # totalUSDEDeposits => LossNumerator(debt) >= 0
  PROVE  /\ LossError(debt) <= totalUSDEDeposits
         /\ debt # totalUSDEDeposits =>
              (totalUSDEDeposits - debt) * DECIMAL_PRECISION - LossError(debt)
                = totalUSDEDeposits * (DECIMAL_PRECISION - LossPerUnitStaked(debt)) - lastUSDELossError
<1> DEFINE T == totalUSDEDeposits
           D == DECIMAL_PRECISION
           e == lastUSDELossError
<1>1. T \in Nat \ {0} /\ e \in Nat /\ D \in Nat \ {0}
  BY StabilityPoolAssumption, ProductOfNats DEF IInv, TypeOK
<1>2. CASE debt = T
  BY <1>1, <1>2 DEF LossError
<1>3. CASE debt # T
  <2> DEFINE n == LossNumerator(debt)
             l == LossPerUnitStaked(debt)
             q == n \div T
  <2>1. n = debt * D - e /\ n \in Nat
    BY <1>1, <1>3, ProductOfNats DEF LossNumerator
  <2>2. LossError(debt) = l * T - n /\ l = q + 1
    BY <1>3 DEF LossError, LossPerUnitStaked
  <2> HIDE DEF n, l
  <2>3. q \in Nat /\ q * T <= n
    BY <1>1, <2>1, DivFacts
  <2> HIDE DEF q
  <2>4. l \in Nat /\ l * T = q * T + T /\ l * T \in Nat /\ q * T \in Nat
    BY <1>1, <2>2, <2>3, Z3
  <2>5. LossError(debt) <= T
    BY <1>1, <2>1, <2>2, <2>3, <2>4
  <2>6. (T - debt) * D - (l * T - (debt * D - e)) = T * (D - l) - e
    BY <1>1, <2>4, Z3
  <2> QED BY <2>1, <2>2, <2>5, <2>6 DEF l
<1> QED BY <1>2, <1>3

\* The arithmetic of an offset: W shares of P were backed, and P falls at least
\* as fast as factor / D, so the same shares are backed after it.
LEMMA OffsetArithmetic ==
  ASSUME NEW K \in Nat \ {0}, NEW W \in Nat, NEW p \in Nat, NEW D \in Nat \ {0}, NEW f \in Nat, f <= D,
         NEW T \in Nat, NEW e \in Nat, NEW C \in Nat, e <= C, NEW q \in Nat, NEW scaled \in Nat,
         (W * p) * D <= K * (T * D - e + C), q * D <= (p * f) * scaled
  PROVE  (W * q) * D <= (K * scaled) * (T * f - e + C)
<1> DEFINE before == T * D - e + C
           after == T * f - e + C
<1>1. /\ W * p \in Nat /\ T * D \in Nat /\ T * f \in Nat /\ p * f \in Nat /\ q * D \in Nat
      /\ before \in Nat /\ after \in Nat
  BY Z3
<1>2. before * f <= after * D
  <2>1. before * f = (T * D) * f + (C - e) * f /\ after * D = (T * f) * D + (C - e) * D
    BY Z3
  <2>2. (T * D) * f = (T * f) * D
    BY Z3
  <2>3. f * (C - e) <= D * (C - e)
    <3>1. C - e \in Nat
      OBVIOUS
    <3> QED BY <3>1, PutFactor
  <2>4. (C - e) * f = f * (C - e) /\ (C - e) * D = D * (C - e)
    BY Z3
  <2>5. (T * f) * D \in Int /\ f * (C - e) \in Int /\ D * (C - e) \in Int
    BY Z3
  <2> QED BY <2>1, <2>2, <2>3, <2>4, <2>5
<1> HIDE DEF before, after
<1>3. ((W * p) * D) * f <= (K * before) * f
  <2>1. (W * p) * D \in Int /\ K * before \in Int
    BY <1>1, Z3
  <2> QED BY <2>1, PutFactor DEF before
<1>4. (before * f) * K <= (after * D) * K
  <2>1. before * f \in Int /\ after * D \in Int
    BY <1>1, Z3
  <2> QED BY <1>2, <2>1, PutFactor
<1>5. ((W * p) * f) * D <= (K * after) * D
  <2>1. /\ ((W * p) * D) * f = ((W * p) * f) * D
        /\ (K * before) * f = (before * f) * K
        /\ (after * D) * K = (K * after) * D
    BY <1>1, Z3
  <2>2. ((W * p) * f) * D \in Int /\ (before * f) * K \in Int /\ (K * after) * D \in Int
    BY <1>1, Z3
  <2> QED BY <1>3, <1>4, <2>1, <2>2
<1>6. (W * p) * f <= K * after
  <2>1. (W * p) * f \in Int /\ K * after \in Int
    BY <1>1, Z3
  <2> QED BY <1>5, <2>1, CancelFactor
<1>7. ((W * p) * f) * scaled <= (K * after) * scaled
  <2>1. (W * p) * f \in Int /\ K * after \in Int
    BY <1>1, Z3
  <2> QED BY <1>6, <2>1, PutFactor
<1>8. (q * D) * W <= ((p * f) * scaled) * W
  <2>1. (p * f) * scaled \in Int
    BY <1>1, Z3
  <2> QED BY <1>1, <2>1, PutFactor
<1>9. /\ (q * D) * W = (W * q) * D
      /\ ((p * f) * scaled) * W = ((W * p) * f) * scaled
      /\ (K * after) * scaled = (K * scaled) * after
  BY <1>1, Z3
<1>10. (q * D) * W \in Int /\ ((W * p) * f) * scaled \in Int /\ (K * after) * scaled \in Int
  BY <1>1, Z3
<1> QED BY <1>7, <1>8, <1>9, <1>10 DEF after

\* How far the product falls, where it is rescaled, too.
LEMMA ShrinkBounded ==
  ASSUME IInv, NEW factor \in 1..DECIMAL_PRECISION, ShrinkProduct(factor)
  PROVE  /\ currentEpoch' = currentEpoch
         /\ \/ /\ currentScale' = currentScale
               /\ P' * DECIMAL_PRECISION <= (P * factor) * 1
            \/ /\ currentScale' = currentScale + 1
               /\ P' * DECIMAL_PRECISION <= (P * factor) * SCALE_FACTOR
<1>1. /\ P \in Nat /\ factor \in Nat /\ SCALE_FACTOR \in Nat
      /\ DECIMAL_PRECISION \in Nat \ {0}
  BY StabilityPoolAssumption, ProductOfNats DEF IInv, TypeOK
<1>2. P * factor \in Nat /\ (P * factor) * SCALE_FACTOR \in Nat
  BY <1>1, ProductOfNats
<1>3. /\ ((P * factor) \div DECIMAL_PRECISION) * DECIMAL_PRECISION <= P * factor
      /\ ((P * factor * SCALE_FACTOR) \div DECIMAL_PRECISION) * DECIMAL_PRECISION
           <= (P * factor) * SCALE_FACTOR
  BY <1>1, <1>2, DivFacts
<1>4. (P * factor) * 1 = P * factor
  BY <1>2
<1> QED BY <1>3, <1>4 DEF ShrinkProduct

\* offset.
LEMMA OffsetCovers ==
  ASSUME IInv, IInv', Coverage, NEW o \in Offsets, Offset(o.debt, o.coll)
  PROVE  Coverage'
<1> USE StabilityPoolAssumption
<1> DEFINE debt == o.debt
           f == DECIMAL_PRECISION - LossPerUnitStaked(debt)
           T == totalUSDEDeposits
           D == DECIMAL_PRECISION
           e == lastUSDELossError
           C == DepositCap
<1>1. /\ debt \in Nat \ {0} /\ debt <= T
      /\ debt # T => LossNumerator(debt) >= 0
      /\ T \in Nat /\ T <= C /\ e \in Nat /\ e <= C /\ C \in Nat /\ D \in Nat \ {0} /\ P \in Nat
      /\ SCALE_FACTOR \in Nat \ {0}
  BY ProductOfNats DEF Offset, IInv, TypeOK, Coverage
<1>2. /\ f >= 0 /\ IF f = 0 THEN EmptyPool ELSE ShrinkProduct(f)
      /\ T' = T - debt /\ e' = LossError(debt)
      /\ UNCHANGED depositVars
  BY DEF Offset
<1>3. /\ LossError(debt) <= T
      /\ debt # T => (T - debt) * D - LossError(debt) = T * f - e
      /\ LossPerUnitStaked(debt) \in Nat \ {0} /\ LossError(debt) \in Nat
  BY <1>1, LossBounded, LossFine
<1>4. T' <= C /\ e' <= C /\ T' \in Nat /\ e' \in Nat
  BY <1>1, <1>2, <1>3
<1>5. /\ initialValue' = initialValue /\ depositSnapshots' = depositSnapshots
      /\ currentEpoch \in Nat /\ currentScale \in Nat
  BY <1>2 DEF depositVars, IInv, TypeOK, Epochs
<1>6. CASE f = 0
  <2>1. PICK w : w = [u \in Users |-> 0]
    OBVIOUS
  <2>2. ASSUME NEW u \in Users PROVE ~Live(u)'
    <3>1. currentEpoch' = currentEpoch + 1
      BY <1>2, <1>6 DEF EmptyPool
    <3>2. initialValue[u] # 0 =>
            depositSnapshots[u].epoch <= currentEpoch /\ depositSnapshots[u].epoch \in Nat
      BY DEF IInv, TypeOK, NoneAhead, NotAhead, Snapshots, Epochs
    <3> QED BY <1>5, <3>1, <3>2 DEF Live
  <2>3. SumFunctionOnSet(w, Users) = 0 /\ w \in [Users -> Nat]
    BY <2>1, SumOfZeros
  <2>4. Backing' = T' * D - e' + C /\ T' * D \in Nat
    BY <1>1, <1>4, ProductOfNats DEF Backing
  <2>5. P' \in Nat
    BY DEF IInv, TypeOK
  <2>6. (SumFunctionOnSet(w, Users) * P') * D <= 1 * Backing'
    <3>1. (0 * P') * D = 0
      <4>1. ASSUME NEW x \in Nat, NEW y \in Nat PROVE (0 * x) * y = 0
        BY Z3
      <4> QED BY <1>1, <2>5, <4>1
    <3>2. Backing' \in Nat
      <4>1. ASSUME NEW x \in Nat, NEW y \in Nat, y <= C PROVE x - y + C \in Nat
        BY <1>1, <4>1
      <4> QED BY <1>4, <2>4, <4>1
    <3> QED BY <2>3, <3>1, <3>2
  <2>7. CoveredBy(1, w)'
    BY <2>2, <2>3, <2>6 DEF CoveredBy
  <2> QED BY <1>4, <2>7 DEF Coverage
<1>7. CASE f # 0
  <2>1. PICK K, w : CoveredBy(K, w)
    BY DEF Coverage
  <2> DEFINE W == SumFunctionOnSet(w, Users)
  <2>2. K \in Nat \ {0} /\ w \in [Users -> Nat] /\ W \in Nat
    BY <2>1, SumOfNaturals DEF CoveredBy
  <2>3. f \in 1..D /\ ShrinkProduct(f)
    BY <1>1, <1>2, <1>3, <1>7
  <2>4. /\ currentEpoch' = currentEpoch
        /\ \/ currentScale' = currentScale /\ P' * D <= (P * f) * 1
           \/ currentScale' = currentScale + 1 /\ P' * D <= (P * f) * SCALE_FACTOR
    <3> HIDE DEF f
    <3> QED BY <2>3, ShrinkBounded
  <2>5. debt # T
    BY <1>1, <1>7 DEF LossPerUnitStaked
  <2>6. Backing' = T * f - e + C
    BY <1>2, <1>3, <2>5 DEF Backing
  <2>7. (W * P) * D <= K * (T * D - e + C)
    BY <2>1 DEF CoveredBy, Backing
  <2>8. P' \in Nat
    BY DEF IInv, TypeOK
  <2> HIDE DEF f, W
  <2>9. CASE currentScale' = currentScale /\ P' * D <= (P * f) * 1
    <3>1. f \in Nat /\ f <= D /\ K * 1 = K /\ K \in Nat
      BY <1>1, <2>2, <2>3
    <3>2. (W * P') * D <= (K * 1) * (T * f - e + C)
      BY <1>1, <2>2, <2>7, <2>8, <2>9, <3>1, OffsetArithmetic
    <3>3. ASSUME NEW u \in Users, Live(u)' PROVE Shared(K, w, u)'
      <4>1. Shared(K, w, u)
        BY <1>5, <2>1, <2>4, <3>3 DEF Live, CoveredBy
      <4> QED BY <1>5, <2>9, <4>1 DEF Shared
    <3>4. (SumFunctionOnSet(w, Users) * P') * D <= K * Backing'
      BY <2>6, <3>1, <3>2 DEF W
    <3>5. CoveredBy(K, w)'
      BY <2>2, <3>3, <3>4 DEF CoveredBy
    <3> QED BY <1>4, <3>5 DEF Coverage
  <2>10. CASE currentScale' = currentScale + 1 /\ P' * D <= (P * f) * SCALE_FACTOR
    <3>1. PICK K2 : K2 = K * SCALE_FACTOR
      OBVIOUS
    <3>2. f \in Nat /\ f <= D /\ K2 \in Nat \ {0}
      <4>1. K * SCALE_FACTOR \in Nat \ {0}
        BY <1>1, <2>2, Z3
      <4> QED BY <1>1, <2>3, <3>1, <4>1
    <3>3. (W * P') * D <= (K * SCALE_FACTOR) * (T * f - e + C)
      BY <1>1, <2>2, <2>7, <2>8, <2>10, <3>2, OffsetArithmetic
    <3>4. ASSUME NEW u \in Users, Live(u)' PROVE Shared(K2, w, u)'
      <4> DEFINE d == initialValue[u]
                 s == depositSnapshots[u].P
                 scale == depositSnapshots[u].scale
      <4>1. /\ Shared(K, w, u) /\ d \in Nat /\ s \in Nat /\ w[u] \in Nat /\ scale \in Nat
            /\ scale <= currentScale
        BY <1>5, <2>1, <2>2, <2>4, <3>4
           DEF Live, CoveredBy, IInv, TypeOK, Snapshots, NoneAhead, NotAhead
      <4>2. K * d <= w[u] * s => K2 * d <= w[u] * (s * SCALE_FACTOR)
        <5>1. /\ K2 * d = (K * d) * SCALE_FACTOR
              /\ w[u] * (s * SCALE_FACTOR) = (w[u] * s) * SCALE_FACTOR
              /\ K * d \in Int /\ w[u] * s \in Int
          <6> HIDE DEF d, s
          <6> QED BY <1>1, <2>2, <3>1, <4>1, Z3
        <5> HIDE DEF d, s
        <5> QED BY <1>1, <5>1, PutFactor
      <4>3. scale = currentScale => K * d <= w[u] * s
        BY <4>1 DEF Shared
      <4>4. /\ initialValue'[u] = d /\ depositSnapshots'[u].P = s /\ depositSnapshots'[u].scale = scale
            /\ scale # currentScale'
            /\ scale + 1 = currentScale' => scale = currentScale
        BY <1>5, <2>10, <4>1
      <4> HIDE DEF d, s, scale
      <4> QED BY <4>2, <4>3, <4>4 DEF Shared
    <3>5. (SumFunctionOnSet(w, Users) * P') * D <= K2 * Backing'
      BY <2>6, <3>1, <3>3 DEF W
    <3>6. CoveredBy(K2, w)'
      BY <2>2, <3>2, <3>4, <3>5 DEF CoveredBy
    <3> QED BY <1>4, <3>6 DEF Coverage
  <2> QED BY <2>4, <2>9, <2>10
<1> QED BY <1>6, <1>7

\* The initial pool is empty.
LEMMA InitCovered == Init => Coverage
<1> SUFFICES ASSUME Init PROVE Coverage
  OBVIOUS
<1> USE StabilityPoolAssumption
<1>1. PICK w : w = [u \in Users |-> 0]
  OBVIOUS
<1>2. SumFunctionOnSet(w, Users) = 0 /\ w \in [Users -> Nat]
  BY <1>1, SumOfZeros
<1>3. DECIMAL_PRECISION \in Nat /\ P = DECIMAL_PRECISION /\ DepositCap \in Nat
      /\ totalUSDEDeposits = 0 /\ lastUSDELossError = 0
  BY DEF Init
<1>4. (SumFunctionOnSet(w, Users) * P) * DECIMAL_PRECISION <= 1 * Backing
  <2>1. ASSUME NEW x \in Nat, NEW y \in Nat
        PROVE (0 * x) * x = 0 /\ 0 <= 1 * (0 * x - 0 + y)
    BY Z3
  <2> QED BY <1>2, <1>3, <2>1 DEF Backing
<1>5. \A u \in Users : ~Live(u)
  BY DEF Init, Live
<1>6. CoveredBy(1, w)
  BY <1>2, <1>4, <1>5 DEF CoveredBy
<1> QED BY <1>3, <1>6 DEF Coverage

\* Every action keeps the coverage.
LEMMA NextCovers == IInv /\ Coverage /\ [Next]_vars => Coverage'
<1> SUFFICES ASSUME IInv, Coverage, [Next]_vars PROVE Coverage'
  OBVIOUS
<1>1. IInv'
  BY NextFine
<1>2. /\ totalUSDEDeposits \in Nat /\ totalUSDEDeposits <= DepositCap
      /\ \A u \in Users : CompoundedDeposit(u) \in Nat /\ CompoundedDeposit(u) <= totalUSDEDeposits
      /\ DepositCap \in Nat
  BY CompoundedParts, StabilityPoolAssumption DEF Coverage
<1>3. ASSUME NEW u \in Users, NEW amount \in ProvideAmounts, NEW tag \in FrontEnds,
             ProvideToSP(u, amount, tag)
      PROVE  Coverage'
  <2> DEFINE frontEnd == IF initialValue[u] = 0 THEN tag ELSE frontEndTag[u]
             value == CompoundedDeposit(u) + amount
  <2>1. amount \in Nat
    BY StabilityPoolAssumption
  <2>2. /\ UpdateDeposit(u, value, frontEnd) /\ totalUSDEDeposits' = totalUSDEDeposits + amount
        /\ totalUSDEDeposits' <= DepositCap /\ UNCHANGED offsetVars
    BY <1>3 DEF ProvideToSP
  <2>3. value \in Nat /\ amount \in Int
    BY <1>2, <2>1
  <2> HIDE DEF frontEnd
  <2> QED BY <2>2, <2>3, CallCovers
<1>4. ASSUME NEW u \in Users, NEW amount \in WithdrawAmounts, WithdrawFromSP(u, amount)
      PROVE  Coverage'
  <2> DEFINE withdrawn == MinOf(amount, CompoundedDeposit(u))
             delta == 0 - withdrawn
             value == CompoundedDeposit(u) + delta
  <2>1. withdrawn \in 0..CompoundedDeposit(u)
    BY <1>2, StabilityPoolAssumption DEF MinOf
  <2>2. /\ UpdateDeposit(u, CompoundedDeposit(u) - withdrawn, frontEndTag[u])
        /\ totalUSDEDeposits' = totalUSDEDeposits - withdrawn /\ UNCHANGED offsetVars
    BY <1>4 DEF WithdrawFromSP
  <2> HIDE DEF withdrawn
  <2>3. /\ delta \in Int /\ value \in Nat /\ value = CompoundedDeposit(u) - withdrawn
        /\ totalUSDEDeposits' = totalUSDEDeposits + delta /\ totalUSDEDeposits' <= DepositCap
    BY <1>2, <2>1, <2>2
  <2>4. UpdateDeposit(u, value, frontEndTag[u])
    BY <2>2, <2>3
  <2> HIDE DEF delta
  <2> QED BY <2>2, <2>3, <2>4, CallCovers
<1>5. ASSUME NEW u \in Users, WithdrawCollateralGainToTrove(u)
      PROVE  Coverage'
  <2>1. /\ UpdateDeposit(u, CompoundedDeposit(u), frontEndTag[u])
        /\ totalUSDEDeposits' = totalUSDEDeposits /\ UNCHANGED offsetVars
    BY <1>5 DEF WithdrawCollateralGainToTrove
  <2>2. /\ CompoundedDeposit(u) = CompoundedDeposit(u) + 0 /\ 0 \in Int
        /\ totalUSDEDeposits' = totalUSDEDeposits + 0 /\ totalUSDEDeposits' <= DepositCap
    BY <1>2, <2>1
  <2> QED BY <1>2, <2>1, <2>2, CallCovers
<1>6. CASE \E u \in Users : DepositorCall(u)
  BY <1>3, <1>4, <1>5, <1>6 DEF DepositorCall
<1>7. CASE OffsetStep
  BY <1>1, <1>7, OffsetCovers DEF OffsetStep
<1>8. CASE \/ \E u \in Users : RegisterFrontEnd(u)
           \/ \E val \in BOOLEAN : SetPause(val)
           \/ UNCHANGED vars
  <2>1. UNCHANGED <<initialValue, depositSnapshots, totalUSDEDeposits, offsetVars>>
    BY <1>8 DEF RegisterFrontEnd, SetPause, vars, depositVars
  <2>2. PICK K, w : CoveredBy(K, w)
    BY DEF Coverage
  <2>3. CoveredBy(K, w)'
    BY <2>1, <2>2 DEF CoveredBy, Live, Shared, Backing, offsetVars
  <2> QED BY <2>1, <2>3 DEF Coverage, offsetVars
<1> QED BY <1>6, <1>7, <1>8 DEF Next

-----------------------------------------------------------------------------
(* Gains and what the pool holds.                                          *)

VARIABLE dust  \* history: what the roundings may have promised too much

\* What an offset may promise more than it brings, in parts of
\* 1 / DECIMAL_PRECISION of a unit of collateral: two for the divisions of the
\* sum and of the error, and the share of the deposits that the pool does not
\* cover, which is at most one part in DECIMAL_PRECISION of DepositCap.
OffsetDust(coll, c) ==
  (CollNumerator(coll, c) * DepositCap) \div (DECIMAL_PRECISION * totalUSDEDeposits) + 2

DustStep ==
  \/ \E o \in Offsets :
       /\ Offset(o.debt, o.coll)
       /\ dust' = [c \in Collaterals |-> dust[c] + OffsetDust(o.coll, c)]
  \/ ~OffsetStep /\ dust' = dust

\* The history of any behaviour: it restricts none.
DustRecorded == dust = Zeros /\ [][DustStep]_<<vars, dust>>

\* All gains together exceed what the pool holds by no more than the dust.
GainsNearlyCovered ==
  \A c \in Collaterals :
    (SumFunction([u \in Users |-> CollateralGain(u)[c]]) - collBalance[c]) * DECIMAL_PRECISION
      <= dust[c]

\* Of scales and epochs to come there are no sums yet.
LaterSumsEmpty ==
  \A c \in Collaterals, e \in Epochs, s \in Scales :
    \/ e > currentEpoch
    \/ e = currentEpoch /\ s > currentScale
    => epochToScaleToSum[c][e][s] = 0

\* A deposit's gain before any division, SCALE_FACTOR times the P of its snapshot too large.
Claim(u, c) ==
  LET snap == depositSnapshots[u]
  IN  initialValue[u] * (SCALE_FACTOR * (epochToScaleToSum[c][snap.epoch][snap.scale] - snap.S[c])
                           + epochToScaleToSum[c][snap.epoch][snap.scale + 1])

\* The claims as v[u] / L parts of 1 / DECIMAL_PRECISION of a unit, with a
\* common denominator L, so that they can be added up.
Promised(c, L, v) ==
  /\ L \in Nat \ {0} /\ v \in [Users -> Nat]
  /\ \A u \in Users : initialValue[u] # 0 =>
       Claim(u, c) * L <= v[u] * (depositSnapshots[u].P * SCALE_FACTOR)
  /\ SumFunctionOnSet(v, Users)
       <= L * (collBalance[c] * DECIMAL_PRECISION - lastCollError[c] + dust[c])

\* The invariant behind GainsNearlyCovered.
GainsBacked ==
  /\ support = Collaterals /\ dust \in Amounts /\ LaterSumsEmpty
  /\ \A c \in Collaterals : \E L, v : Promised(c, L, v)

\* The parts of a claim.
LEMMA ClaimParts ==
  ASSUME IInv, NEW u \in Users, initialValue[u] # 0, NEW c \in support,
         NEW snap, snap = depositSnapshots[u]
  PROVE  /\ initialValue[u] \in Nat \ {0} /\ c \in Collaterals
         /\ snap.P \in Nat \ {0} /\ snap.P * SCALE_FACTOR \in Nat \ {0}
         /\ snap.epoch \in Epochs /\ snap.scale \in Scales /\ snap.scale + 1 \in Scales
         /\ snap.epoch <= currentEpoch /\ (snap.epoch = currentEpoch => snap.scale <= currentScale)
         /\ epochToScaleToSum[c][snap.epoch][snap.scale] - snap.S[c] \in Nat
         /\ epochToScaleToSum[c][snap.epoch][snap.scale + 1] \in Nat
         /\ Claim(u, c) \in Nat
<1> USE StabilityPoolAssumption
<1> DEFINE first == epochToScaleToSum[c][snap.epoch][snap.scale]
           second == epochToScaleToSum[c][snap.epoch][snap.scale + 1]
           since == first - snap.S[c]
<1>1. /\ snap \in Snapshots /\ initialValue[u] \in Nat \ {0} /\ c \in Collaterals
      /\ snap.P \in Nat \ {0} /\ first >= snap.S[c] /\ SCALE_FACTOR \in Nat \ {0}
      /\ snap.epoch <= currentEpoch /\ (snap.epoch = currentEpoch => snap.scale <= currentScale)
  BY DEF IInv, TypeOK, NoneAhead, NotAhead, GainComputable, Snapshots
<1>2. /\ snap.epoch \in Epochs /\ snap.scale \in Scales /\ snap.scale + 1 \in Scales
      /\ snap.S[c] \in Nat
  BY <1>1 DEF Snapshots, Scales, Amounts
<1>3. first \in Nat /\ second \in Nat
  BY <1>1, <1>2 DEF IInv, TypeOK
<1>4. since \in Nat
  BY <1>1, <1>2, <1>3
<1>5. snap.P * SCALE_FACTOR \in Nat \ {0}
  <2>1. ASSUME NEW a \in Nat \ {0}, NEW b \in Nat \ {0} PROVE a * b \in Nat \ {0}
    BY Z3
  <2> QED BY <1>1, <2>1
<1>6. Claim(u, c) = initialValue[u] * (SCALE_FACTOR * since + second)
  BY DEF Claim
<1> HIDE DEF first, second, since
<1>7. initialValue[u] * (SCALE_FACTOR * since + second) \in Nat
  <2>1. SCALE_FACTOR * since \in Nat
    BY <1>1, <1>4, ProductOfNats
  <2>2. SCALE_FACTOR * since + second \in Nat
    BY <1>3, <2>1
  <2> QED BY <1>1, <2>2, ProductOfNats
<1> QED BY <1>1, <1>2, <1>3, <1>4, <1>5, <1>6, <1>7 DEF first, second, since

\* The divisions of a gain only lose.
LEMMA GainArithmetic ==
  ASSUME NEW d \in Nat, NEW first \in Nat, NEW second \in Nat, NEW p \in Nat \ {0},
         NEW F \in Nat \ {0}, NEW D \in Nat \ {0},
         NEW gain, gain = ((d * (first + second \div F)) \div p) \div D
  PROVE  gain \in Nat /\ (gain * D) * (p * F) <= d * (F * first + second)
<1> DEFINE part == second \div F
           since == first + part
           q == (d * since) \div p
<1>1. part \in Nat /\ part * F <= second
  BY DivFacts
<1> HIDE DEF part
<1>2. since \in Nat
  BY <1>1
<1> HIDE DEF since
<1>3. d * since \in Nat
  BY <1>2, ProductOfNats
<1>4. q \in Nat /\ q * p <= d * since
  BY <1>3, DivFacts
<1> HIDE DEF q
<1>5. gain \in Nat /\ gain * D <= q
  BY <1>4, DivFacts DEF q, since, part
<1>6. since * F <= F * first + second
  <2>1. since * F = F * first + part * F /\ F * first \in Int /\ part * F \in Int
    BY <1>1, Z3 DEF since
  <2> QED BY <1>1, <2>1
<1>7. (gain * D) * p <= d * since
  <2>1. gain * D \in Nat
    BY <1>5, ProductOfNats
  <2>2. (gain * D) * p <= q * p /\ (gain * D) * p \in Int /\ q * p \in Int
    BY <1>4, <1>5, <2>1, PutFactor
  <2> QED BY <1>3, <1>4, <2>2
<1>8. ((gain * D) * p) * F <= (d * since) * F
  <2>1. (gain * D) * p \in Nat
    BY <1>5, ProductOfNats
  <2> QED BY <1>3, <1>7, <2>1, PutFactor
<1>9. (since * F) * d <= (F * first + second) * d
  <2>1. since * F \in Nat /\ F * first + second \in Nat
    BY <1>2, Z3
  <2> QED BY <1>6, <2>1, PutFactor
<1>10. /\ ((gain * D) * p) * F = (gain * D) * (p * F)
       /\ (d * since) * F = (since * F) * d
       /\ (F * first + second) * d = d * (F * first + second)
       /\ (gain * D) * (p * F) \in Int /\ (since * F) * d \in Int
       /\ d * (F * first + second) \in Int
  BY <1>2, <1>5, Z3
<1> QED BY <1>5, <1>8, <1>9, <1>10

\* No gain is more than what it is promised.
LEMMA GainPromised ==
  ASSUME IInv, support = Collaterals, NEW c \in Collaterals, NEW L, NEW v, Promised(c, L, v),
         NEW u \in Users
  PROVE  /\ CollateralGain(u)[c] \in Nat
         /\ (CollateralGain(u)[c] * DECIMAL_PRECISION) * L <= v[u]
<1> USE StabilityPoolAssumption
<1> DEFINE gain == CollateralGain(u)[c]
           D == DECIMAL_PRECISION
<1>1. gain \in Nat /\ L \in Nat \ {0} /\ v[u] \in Nat /\ D \in Nat \ {0} /\ SCALE_FACTOR \in Nat \ {0}
  BY GainIsAmount, ProductOfNats DEF Amounts, Promised
<1>2. CASE initialValue[u] = 0
  <2>1. gain = 0
    BY <1>2 DEF CollateralGain
  <2>2. (0 * D) * L = 0
    BY <1>1, Z3
  <2> QED BY <1>1, <2>1, <2>2
<1>3. CASE initialValue[u] # 0
  <2>1. PICK snap : snap = depositSnapshots[u]
    OBVIOUS
  <2> DEFINE first == epochToScaleToSum[c][snap.epoch][snap.scale] - snap.S[c]
             second == epochToScaleToSum[c][snap.epoch][snap.scale + 1]
             d == initialValue[u]
             p == snap.P
             x == p * SCALE_FACTOR
  <2>2. /\ d \in Nat /\ p \in Nat \ {0} /\ x \in Nat \ {0} /\ first \in Nat /\ second \in Nat
        /\ Claim(u, c) \in Nat
    BY <1>3, <2>1, ClaimParts
  <2>3. gain = ((d * (first + second \div SCALE_FACTOR)) \div p) \div D
    BY <1>3, <2>1 DEF CollateralGain, SumSince
  <2>4. Claim(u, c) = d * (SCALE_FACTOR * first + second)
    BY <2>1 DEF Claim
  <2>5. Claim(u, c) * L <= v[u] * x
    BY <1>3, <2>1 DEF Promised
  <2> HIDE DEF first, second, d, p, gain
  <2>6. (gain * D) * x <= d * (SCALE_FACTOR * first + second)
    BY <1>1, <2>2, <2>3, GainArithmetic
  <2> HIDE DEF x
  <2>7. gain * D \in Nat /\ (gain * D) * x \in Nat /\ (gain * D) * L \in Nat
    BY <1>1, <2>2, ProductOfNats
  <2>8. ((gain * D) * x) * L <= Claim(u, c) * L
    BY <1>1, <2>2, <2>4, <2>6, <2>7, PutFactor
  <2>9. ((gain * D) * L) * x <= v[u] * x
    <3>1. ((gain * D) * x) * L = ((gain * D) * L) * x
      BY <1>1, <2>2, <2>7, Z3
    <3>2. ((gain * D) * L) * x \in Int /\ Claim(u, c) * L \in Int /\ v[u] * x \in Int
      BY <1>1, <2>2, <2>7, ProductOfNats
    <3> QED BY <2>5, <2>8, <3>1, <3>2
  <2>10. (gain * D) * L <= v[u]
    BY <1>1, <2>2, <2>7, <2>9, CancelFactor
  <2> QED BY <1>1, <2>10 DEF gain
<1> QED BY <1>2, <1>3

\* What is promised is what GainsNearlyCovered says.
LEMMA BackedCovers ==
  ASSUME IInv, GainsBacked
  PROVE  /\ GainsNearlyCovered
         /\ (\A c \in Collaterals : dust[c] < DECIMAL_PRECISION) => GainsCovered
<1> USE StabilityPoolAssumption
<1> SUFFICES ASSUME NEW c \in Collaterals
             PROVE  LET G == SumFunction([u \in Users |-> CollateralGain(u)[c]])
                    IN  /\ (G - collBalance[c]) * DECIMAL_PRECISION <= dust[c]
                        /\ dust[c] < DECIMAL_PRECISION => G <= collBalance[c]
  BY DEF GainsNearlyCovered, GainsCovered
<1>1. PICK L, v : Promised(c, L, v)
  BY DEF GainsBacked
<1> DEFINE D == DECIMAL_PRECISION
           b == collBalance[c]
           e == lastCollError[c]
           f == [u \in Users |-> CollateralGain(u)[c]]
           k == D * L
           g == [u \in Users |-> k * CollateralGain(u)[c]]
           G == SumFunctionOnSet(f, Users)
           V == SumFunctionOnSet(v, Users)
<1>2. /\ D \in Nat \ {0} /\ L \in Nat \ {0} /\ b \in Nat /\ e \in Nat /\ dust[c] \in Nat
      /\ v \in [Users -> Nat] /\ IsFiniteSet(Users) /\ Users \in SUBSET Users
      /\ V <= L * (b * D - e + dust[c])
  BY <1>1, ProductOfNats DEF Promised, GainsBacked, IInv, TypeOK, Amounts
<1>3. k \in Nat
  BY <1>2, ProductOfNats
<1>4. ASSUME NEW u \in Users
      PROVE  /\ f[u] \in Nat /\ g[u] \in Int /\ g[u] = k * f[u] /\ v[u] \in Int /\ g[u] <= v[u]
  <2>1. CollateralGain(u)[c] \in Nat /\ (CollateralGain(u)[c] * D) * L <= v[u] /\ v[u] \in Nat
    BY <1>1, <1>2, GainPromised DEF GainsBacked
  <2>2. ASSUME NEW x \in Nat PROVE k * x = (x * D) * L /\ k * x \in Nat
    BY <1>2, Z3
  <2> HIDE DEF k
  <2> QED BY <2>1, <2>2
<1> HIDE DEF k, f, g
<1>5. G \in Nat
  BY <1>2, <1>4, SumOfNaturals
<1>6. SumFunctionOnSet(g, Users) = k * G
  <2>1. /\ \A u \in Users : f[u] \in Int /\ g[u] = k * f[u]
        /\ k \in Int
    BY <1>3, <1>4
  <2> QED BY <1>2, <2>1, SumScaled
<1>7. SumFunctionOnSet(g, Users) <= V
  <2>1. \A u \in Users : g[u] \in Int /\ v[u] \in Int /\ g[u] <= v[u]
    BY <1>4
  <2> QED BY <1>2, <2>1, SumMonotone
<1>8. V \in Nat
  BY <1>2, SumOfNaturals
<1> HIDE DEF G, V, D, b, e
<1>9. G * D <= b * D - e + dust[c]
  <2> DEFINE all == b * D - e + dust[c]
  <2>1. all \in Int /\ G * D \in Int /\ k * G = (G * D) * L /\ L * all = all * L
        /\ (G * D) * L \in Int /\ all * L \in Int
    <3>1. b * D \in Nat
      BY <1>2, ProductOfNats
    <3>2. all \in Int
      BY <1>2, <3>1
    <3> HIDE DEF all
    <3> QED BY <1>2, <1>5, <3>2, Z3 DEF k
  <2>2. (G * D) * L <= L * all
    BY <1>2, <1>3, <1>5, <1>6, <1>7, <1>8, <2>1
  <2> HIDE DEF all
  <2>3. G * D <= all
    BY <1>2, <2>1, <2>2, CancelFactor
  <2> QED BY <2>3 DEF all
<1>10. (G - b) * D = G * D - b * D /\ G * D \in Int /\ b * D \in Int
  BY <1>2, <1>5, Z3
<1>11. (G - b) * D <= dust[c]
  BY <1>2, <1>9, <1>10
<1>12. dust[c] < D => G <= b
  <2> SUFFICES ASSUME dust[c] < D, G >= b + 1 PROVE FALSE
    BY <1>2, <1>5
  <2>1. 1 * D <= (G - b) * D
    BY <1>2, <1>5, PutFactor
  <2> QED BY <1>2, <1>10, <1>11, <2>1
<1>13. G = SumFunction([u \in Users |-> CollateralGain(u)[c]])
  BY DEF G, f, SumFunction
<1> QED BY <1>11, <1>12, <1>13 DEF D, b

\* A fresh snapshot has no claim, as the sums of the next scale are empty.
LEMMA FreshClaim ==
  ASSUME IInv, GainsBacked, NEW u \in Users, NEW value \in Nat, NEW tag,
         UpdateDeposit(u, value, tag), UNCHANGED offsetVars, NEW c \in Collaterals, value # 0
  PROVE  Claim(u, c)' = 0
<1> USE StabilityPoolAssumption
<1>1. /\ initialValue \in [Users -> Nat] /\ depositSnapshots \in [Users -> Snapshots]
      /\ c \in support
  BY DEF IInv, TypeOK, GainsBacked
<1>2. /\ initialValue'[u] = value
      /\ depositSnapshots'[u].S[c] = CurrentS(c)
      /\ depositSnapshots'[u].epoch = currentEpoch /\ depositSnapshots'[u].scale = currentScale
  BY <1>1 DEF UpdateDeposit
<1>3. /\ currentEpoch \in Epochs /\ currentScale + 1 \in Scales /\ currentScale \in Int
      /\ currentScale + 1 > currentScale /\ currentScale \in Scales
  BY DEF IInv, TypeOK, Scales
<1>4. epochToScaleToSum[c][currentEpoch][currentScale + 1] = 0
  BY <1>3 DEF GainsBacked, LaterSumsEmpty
<1>5. CurrentS(c) \in Nat /\ epochToScaleToSum[c][currentEpoch][currentScale] = CurrentS(c)
  BY <1>3 DEF CurrentS, IInv, TypeOK
<1>6. epochToScaleToSum' = epochToScaleToSum
  BY DEF offsetVars
<1>7. Claim(u, c)' = value * (SCALE_FACTOR * (CurrentS(c) - CurrentS(c)) + 0)
  BY <1>2, <1>4, <1>5, <1>6 DEF Claim
<1>8. ASSUME NEW a \in Nat, NEW s \in Nat, NEW n \in Nat PROVE n * (a * (s - s) + 0) = 0
  BY Z3
<1> QED BY <1>5, <1>7, <1>8

\* A call of a depositor pays what the depositor was promised, and less where
\* the divisions lost some.
LEMMA CallBacks ==
  ASSUME IInv, GainsBacked, NEW u \in Users, NEW value \in Nat, NEW tag,
         PayGain(u), UpdateDeposit(u, value, tag), UNCHANGED <<offsetVars, support, dust>>
  PROVE  GainsBacked'
<1> USE StabilityPoolAssumption
<1>1. /\ support' = support /\ dust' = dust /\ epochToScaleToSum' = epochToScaleToSum
      /\ currentEpoch' = currentEpoch /\ currentScale' = currentScale
      /\ lastCollError' = lastCollError
  BY DEF offsetVars
<1>2. LaterSumsEmpty'
  BY <1>1 DEF GainsBacked, LaterSumsEmpty
<1>3. ASSUME NEW c \in Collaterals PROVE \E L, v : Promised(c, L, v)'
  <2>1. PICK L, v : Promised(c, L, v)
    BY DEF GainsBacked
  <2> DEFINE D == DECIMAL_PRECISION
             b == collBalance[c]
             e == lastCollError[c]
             gain == CollateralGain(u)[c]
             V == SumFunctionOnSet(v, Users)
  <2>2. PICK w : w = [x \in Users |-> IF x = u THEN 0 ELSE v[x]]
    OBVIOUS
  <2>3. /\ L \in Nat \ {0} /\ v \in [Users -> Nat] /\ D \in Nat /\ b \in Nat /\ e \in Nat
        /\ dust[c] \in Nat /\ V <= L * (b * D - e + dust[c])
        /\ IsFiniteSet(Users) /\ Users \in SUBSET Users
        /\ initialValue \in [Users -> Nat] /\ depositSnapshots \in [Users -> Snapshots]
    BY <2>1 DEF Promised, GainsBacked, IInv, TypeOK, Amounts
  <2>4. gain \in Nat /\ (gain * D) * L <= v[u] /\ v[u] \in Nat
    BY <2>1, <2>3, GainPromised DEF GainsBacked
  <2>5. collBalance'[c] = b - gain
    BY DEF PayGain
  <2>6. w \in [Users -> Nat] /\ w[u] = 0 /\ \A x \in Users \ {u} : w[x] = v[x]
    BY <2>2, <2>3
  <2>7. SumFunctionOnSet(w, Users) = V - v[u] + 0
    <3>1. \A x \in Users : v[x] \in Int /\ w[x] \in Int
      BY <2>3, <2>6
    <3> QED BY <2>3, <2>6, <3>1, SumReplacedAt
  <2>8. V \in Nat
    BY <2>3, SumOfNaturals
  <2> HIDE DEF V, D, b, e, gain
  <2>9. SumFunctionOnSet(w, Users) <= L * ((b - gain) * D - e + dust[c])
    <3>1. /\ L * ((b - gain) * D - e + dust[c])
               = L * (b * D - e + dust[c]) - (gain * D) * L
          /\ L * (b * D - e + dust[c]) \in Int /\ (gain * D) * L \in Int
      BY <2>3, <2>4, Z3
    <3> QED BY <2>3, <2>4, <2>7, <2>8, <3>1
  <2>10. ASSUME NEW x \in Users, initialValue'[x] # 0
         PROVE  Claim(x, c)' * L <= w[x] * (depositSnapshots'[x].P * SCALE_FACTOR)
    <3>1. CASE x = u
      <4>1. value # 0
        BY <2>3, <2>10, <3>1 DEF UpdateDeposit
      <4>2. Claim(u, c)' = 0
        BY <4>1, FreshClaim DEF offsetVars
      <4>3. depositSnapshots'[u].P = P /\ P \in Nat
        BY <2>3, <4>1 DEF UpdateDeposit, IInv, TypeOK
      <4>4. ASSUME NEW y \in Nat, NEW z \in Nat, NEW s \in Nat PROVE 0 * y = 0 * (z * s)
        BY Z3
      <4>5. 0 * L = 0 * (P * SCALE_FACTOR) /\ 0 * L \in Int
        BY <2>3, <4>3, <4>4
      <4> QED BY <2>6, <3>1, <4>2, <4>3, <4>5
    <3>2. CASE x # u
      <4>1. initialValue'[x] = initialValue[x] /\ depositSnapshots'[x] = depositSnapshots[x]
        BY <2>3, <3>2 DEF UpdateDeposit
      <4>2. Claim(x, c)' = Claim(x, c)
        BY <1>1, <4>1 DEF Claim
      <4> QED BY <2>1, <2>6, <2>10, <3>2, <4>1, <4>2 DEF Promised
    <3> QED BY <3>1, <3>2
  <2>11. Promised(c, L, w)'
    BY <1>1, <2>3, <2>5, <2>6, <2>9, <2>10 DEF Promised, D, b, e
  <2> QED BY <2>11
<1> QED BY <1>1, <1>2, <1>3 DEF GainsBacked

\* The sums after an offset: those of the current scale and epoch grow by the
\* gain per unit staked.
LEMMA SumsAfterOffset ==
  ASSUME IInv, support = Collaterals, NEW coll \in Amounts, UpdateSums(coll), totalUSDEDeposits # 0,
         NEW c \in Collaterals, NEW e \in Epochs, NEW s \in Scales
  PROVE  /\ e = currentEpoch /\ s = currentScale =>
              epochToScaleToSum'[c][e][s] = epochToScaleToSum[c][e][s] + GainPerUnitStaked(coll, c)
         /\ ~(e = currentEpoch /\ s = currentScale) =>
              epochToScaleToSum'[c][e][s] = epochToScaleToSum[c][e][s]
<1> DEFINE row == epochToScaleToSum[c][currentEpoch]
           gain == GainPerUnitStaked(coll, c)
           newRow == [row EXCEPT ![currentScale] = @ + gain]
<1>1. /\ epochToScaleToSum[c] \in [Epochs -> [Scales -> Nat]] /\ row \in [Scales -> Nat]
      /\ currentEpoch \in Epochs /\ currentScale \in Scales
  BY StabilityPoolAssumption DEF IInv, TypeOK, Scales
<1>2. epochToScaleToSum'[c] = [epochToScaleToSum[c] EXCEPT ![currentEpoch] = newRow]
  BY DEF UpdateSums
<1> HIDE DEF gain
<1>3. /\ s = currentScale => newRow[s] = row[s] + gain
      /\ s # currentScale => newRow[s] = row[s]
  BY <1>1
<1> HIDE DEF newRow
<1>4. /\ e = currentEpoch => epochToScaleToSum'[c][e] = newRow
      /\ e # currentEpoch => epochToScaleToSum'[c][e] = epochToScaleToSum[c][e]
  BY <1>1, <1>2
<1> QED BY <1>3, <1>4 DEF gain

\* Products regrouped.
LEMMA Regroup ==
  ASSUME NEW a \in Nat, NEW b \in Nat, NEW c \in Nat
  PROVE  /\ (a * b) * c = (c * a) * b /\ (a * b) * c = (b * c) * a /\ a * b = b * a
         /\ (a + b) * c = a * c + b * c
         /\ (a + 1) * c + (b + 1) * c = (a + b + 2) * c
  BY Z3

\* W shares of p were backed by T and C; at g each they are promised what x and
\* y bound.
LEMMA SharesPromised ==
  ASSUME NEW K \in Nat \ {0}, NEW W \in Nat, NEW m \in Nat \ {0}, NEW g \in Nat,
         NEW TD \in Nat, NEW C \in Nat, NEW x \in Nat, NEW y \in Nat,
         W * m <= K * (TD + C), TD * g <= x * m, C * g <= y * m
  PROVE  g * W <= K * (x + y)
<1>1. (TD + C) * g <= (x + y) * m
  <2>1. (TD + C) * g = TD * g + C * g /\ (x + y) * m = x * m + y * m
    BY Regroup
  <2>2. TD * g \in Nat /\ C * g \in Nat /\ x * m \in Nat /\ y * m \in Nat
    BY ProductOfNats
  <2> QED BY <2>1, <2>2
<1> DEFINE all == TD + C
           bound == x + y
<1>2. all \in Nat /\ bound \in Nat /\ W * m <= K * all /\ all * g <= bound * m
  BY <1>1
<1> HIDE DEF all, bound
<1>3. (W * m) * g <= (K * all) * g
  BY <1>2, PutFactor, ProductOfNats
<1>4. (all * g) * K <= (bound * m) * K
  BY <1>2, PutFactor, ProductOfNats
<1>5. /\ (W * m) * g = (g * W) * m /\ (K * all) * g = (all * g) * K
      /\ (bound * m) * K = (K * bound) * m
  <2>1. K \in Nat /\ m \in Nat
    OBVIOUS
  <2> QED BY <1>2, <2>1, Regroup
<1>6. (g * W) * m <= (K * bound) * m
  <2>1. (g * W) * m \in Nat /\ (all * g) * K \in Nat /\ (K * bound) * m \in Nat
    BY <1>2, ProductOfNats
  <2> QED BY <1>3, <1>4, <1>5, <2>1
<1>7. g * W <= K * bound
  BY <1>2, <1>6, CancelFactor, ProductOfNats
<1> QED BY <1>7 DEF bound

\* The same with the factors as an offset has them.
LEMMA PromiseBounds ==
  ASSUME NEW K \in Nat \ {0}, NEW W \in Nat, NEW p \in Nat \ {0}, NEW D \in Nat \ {0},
         NEW T \in Nat \ {0}, NEW C \in Nat, NEW g \in Nat, NEW F \in Nat, NEW Q \in Nat
  PROVE  /\ (W * p) * D <= K * (T * D + C)
         /\ (g * T) * D <= ((F + 1) * p) * D
         /\ g * C <= ((Q + 1) * p) * D
         => g * W <= K * (F + Q + 2)
<1> DEFINE m == p * D
           x == F + 1
           y == Q + 1
           TD == T * D
<1>1. m \in Nat \ {0} /\ x \in Nat /\ y \in Nat /\ TD \in Nat
  <2>1. ASSUME NEW i \in Nat \ {0}, NEW j \in Nat \ {0} PROVE i * j \in Nat \ {0}
    BY Z3
  <2>2. p * D \in Nat \ {0} /\ T * D \in Nat \ {0}
    BY <2>1
  <2> QED BY <2>2
<1>2. x + y = F + Q + 2
  OBVIOUS
<1>3. /\ (W * p) * D = W * m /\ (g * T) * D = TD * g
      /\ (x * p) * D = x * m /\ (y * p) * D = y * m /\ g * C = C * g
  <2>1. ASSUME NEW i \in Nat, NEW j \in Nat, NEW k \in Nat
        PROVE  (i * j) * k = i * (j * k) /\ i * j = j * i
    BY Z3
  <2>2. W \in Nat /\ p \in Nat /\ D \in Nat /\ T \in Nat /\ g \in Nat /\ x \in Nat /\ y \in Nat
    BY <1>1
  <2>3. (g * T) * D = g * (T * D) /\ g * TD = TD * g
    BY <1>1, <2>1, <2>2
  <2> HIDE DEF x, y
  <2> QED BY <2>1, <2>2, <2>3
<1>4. SUFFICES ASSUME (W * p) * D <= K * (T * D + C), (g * T) * D <= (x * p) * D,
                      g * C <= (y * p) * D
               PROVE  g * W <= K * (F + Q + 2)
  OBVIOUS
<1> HIDE DEF m, x, y
<1>5. W * m <= K * (TD + C) /\ TD * g <= x * m /\ C * g <= y * m
  BY <1>3, <1>4
<1> HIDE DEF TD
<1>6. g * W <= K * (x + y)
  BY <1>1, <1>5, SharesPromised
<1> QED BY <1>2, <1>6

\* The arithmetic of what an offset promises: the W / K shares of P, at g each,
\* against what the offset brings, F, with the deposits backed by T and C.
LEMMA PromiseArithmetic ==
  ASSUME NEW K \in Nat \ {0}, NEW W \in Nat, NEW p \in Nat \ {0}, NEW D \in Nat \ {0},
         NEW T \in Nat \ {0}, NEW C \in Nat, NEW n \in Nat, (W * p) * D <= K * (T * D + C),
         NEW g, g = (n * p) \div T, NEW F, F = (g * T) \div p, NEW Q, Q = (n * C) \div (D * T)
  PROVE  /\ g \in Nat /\ F \in Nat /\ Q \in Nat
         /\ g * W <= K * (F + Q + 2)
<1>1. g \in Nat /\ g * T <= n * p
  BY ProductOfNats, DivFacts
<1>2. F \in Nat /\ g * T < F * p + p
  <2>1. g * T \in Nat
    BY <1>1, ProductOfNats
  <2> QED BY <2>1, DivFacts
<1>3. Q \in Nat /\ n * C < Q * (D * T) + D * T /\ D * T \in Nat \ {0} /\ n * C \in Nat
  <2>1. n * C \in Nat /\ D * T \in Nat \ {0}
    BY Z3
  <2> QED BY <2>1, DivFacts
<1>4. (g * T) * D <= ((F + 1) * p) * D
  <2>1. (F + 1) * p = F * p + p /\ (F + 1) * p \in Int /\ g * T \in Int /\ F * p \in Int
    BY <1>1, <1>2, Z3
  <2> QED BY <1>2, <2>1, PutFactor
<1>5. g * C <= ((Q + 1) * p) * D
  <2>1. (g * T) * C <= (n * p) * C
    BY <1>1, PutFactor, ProductOfNats
  <2>2. (n * C) * p <= ((Q + 1) * (D * T)) * p
    <3> DEFINE m == D * T
    <3>1. m \in Nat /\ n * C < Q * m + m /\ n * C \in Nat
      BY <1>3
    <3> HIDE DEF m
    <3>2. (Q + 1) * m = Q * m + m /\ (Q + 1) * m \in Int /\ Q * m \in Int
      BY <1>3, <3>1, Z3
    <3>3. n * C <= (Q + 1) * m
      BY <3>1, <3>2
    <3> QED BY <3>1, <3>2, <3>3, PutFactor DEF m
  <2>3. /\ (g * T) * C = (g * C) * T /\ (n * p) * C = (n * C) * p
        /\ ((Q + 1) * (D * T)) * p = (((Q + 1) * p) * D) * T
        /\ g * C \in Int /\ ((Q + 1) * p) * D \in Int
    BY <1>1, <1>3, Z3
  <2>4. (g * C) * T <= (((Q + 1) * p) * D) * T
    <3>1. (g * C) * T \in Int /\ (n * C) * p \in Int /\ (((Q + 1) * p) * D) * T \in Int
      BY <1>3, <2>3, Z3
    <3> QED BY <2>1, <2>2, <2>3, <3>1
  <2> QED BY <2>3, <2>4, CancelFactor
<1> QED BY <1>1, <1>2, <1>3, <1>4, <1>5, PromiseBounds

\* What an offset adds to a claim is covered by the share of the deposit.
LEMMA ClaimGrows ==
  ASSUME IInv, support = Collaterals, NEW o \in Offsets, Offset(o.debt, o.coll),
         NEW K, NEW w, CoveredBy(K, w), NEW c \in Collaterals, NEW u \in Users, initialValue[u] # 0
  PROVE  \E more \in Nat :
           /\ Claim(u, c)' = Claim(u, c) + more
           /\ K * more <= (w[u] * GainPerUnitStaked(o.coll, c))
                             * (depositSnapshots[u].P * SCALE_FACTOR)
<1> USE StabilityPoolAssumption
<1> DEFINE d == initialValue[u]
           g == GainPerUnitStaked(o.coll, c)
           sum(s) == epochToScaleToSum[c][depositSnapshots[u].epoch][s]
           sum2(s) == epochToScaleToSum'[c][depositSnapshots[u].epoch][s]
<1>1. PICK snap : snap = depositSnapshots[u]
  OBVIOUS
<1> DEFINE p == snap.P
           t == snap.scale
           S == snap.S[c]
<1>2. /\ d \in Nat /\ p \in Nat \ {0} /\ snap.epoch \in Epochs /\ t \in Scales /\ t + 1 \in Scales
      /\ snap.epoch <= currentEpoch /\ (snap.epoch = currentEpoch => t <= currentScale)
      /\ sum(t) - S \in Nat /\ sum(t + 1) \in Nat /\ S \in Nat
      /\ currentEpoch \in Nat /\ currentScale \in Nat /\ t \in Nat
      /\ sum(t) \in Nat /\ SCALE_FACTOR \in Nat \ {0} /\ p * SCALE_FACTOR \in Nat
  <2>1. snap \in Snapshots /\ c \in support
    BY <1>1 DEF IInv, TypeOK
  <2>2. S \in Nat /\ t \in Nat
    BY <2>1 DEF Snapshots, Amounts
  <2>3. currentEpoch \in Nat /\ currentScale \in Nat
    BY DEF IInv, TypeOK, Epochs
  <2>4. /\ d \in Nat \ {0} /\ p \in Nat \ {0} /\ p * SCALE_FACTOR \in Nat \ {0}
        /\ snap.epoch \in Epochs /\ t \in Scales /\ t + 1 \in Scales
        /\ snap.epoch <= currentEpoch /\ (snap.epoch = currentEpoch => t <= currentScale)
        /\ sum(t) - S \in Nat /\ sum(t + 1) \in Nat
    BY <1>1, <2>1, ClaimParts
  <2>5. sum(t) \in Nat
    BY <1>1, <2>4 DEF IInv, TypeOK
  <2> QED BY <2>2, <2>3, <2>4, <2>5
<1>3. /\ initialValue' = initialValue /\ depositSnapshots' = depositSnapshots
      /\ totalUSDEDeposits # 0 /\ UpdateSums(o.coll) /\ o.coll \in Amounts
  BY DEF Offset, depositVars
<1>4. /\ K \in Nat \ {0} /\ w[u] \in Nat /\ g \in Nat
      /\ snap.epoch = currentEpoch => Shared(K, w, u)
  BY <1>1, <1>3, SumsFine DEF CoveredBy, Live
<1>5. /\ Claim(u, c) = d * (SCALE_FACTOR * (sum(t) - S) + sum(t + 1))
      /\ Claim(u, c)' = d * (SCALE_FACTOR * (sum2(t) - S) + sum2(t + 1))
  BY <1>1, <1>3 DEF Claim
<1>6. \A s \in Scales :
        /\ snap.epoch = currentEpoch /\ s = currentScale => sum2(s) = sum(s) + g
        /\ ~(snap.epoch = currentEpoch /\ s = currentScale) => sum2(s) = sum(s)
  BY <1>1, <1>2, <1>3, SumsAfterOffset
<1>7. SUFFICES \E more \in Nat : /\ Claim(u, c)' = Claim(u, c) + more
                                 /\ K * more <= (w[u] * g) * (p * SCALE_FACTOR)
  BY <1>1
<1>8. CASE snap.epoch = currentEpoch /\ t = currentScale
  <2>1. sum2(t) = sum(t) + g /\ sum2(t + 1) = sum(t + 1)
    BY <1>2, <1>6, <1>8
  <2>2. K * d <= w[u] * p
    BY <1>1, <1>4, <1>8 DEF Shared
  <2> DEFINE more == d * (SCALE_FACTOR * g)
  <2> HIDE DEF d, g, sum, sum2, p, t, S
  <2>3. Claim(u, c)' = Claim(u, c) + more /\ more \in Nat
    <3>1. ASSUME NEW x \in Nat, NEW y \in Nat, NEW z \in Nat
          PROVE  d * (SCALE_FACTOR * ((x + g) - z) + y)
                   = d * (SCALE_FACTOR * (x - z) + y) + d * (SCALE_FACTOR * g)
      BY <1>2, <1>4, Z3
    <3>2. more \in Nat
      BY <1>2, <1>4, ProductOfNats
    <3>3. PICK x \in Nat, y \in Nat, z \in Nat : x = sum(t) /\ y = sum(t + 1) /\ z = S
      BY <1>2
    <3>4. d * (SCALE_FACTOR * ((x + g) - z) + y) = d * (SCALE_FACTOR * (x - z) + y) + more
      BY <3>1
    <3> HIDE DEF more
    <3> QED BY <1>5, <2>1, <3>2, <3>3, <3>4
  <2>4. (K * d) * (SCALE_FACTOR * g) <= (w[u] * p) * (SCALE_FACTOR * g)
    BY <1>2, <1>4, <2>2, PutFactor, ProductOfNats
  <2>5. /\ (K * d) * (SCALE_FACTOR * g) = K * more
        /\ (w[u] * p) * (SCALE_FACTOR * g) = (w[u] * g) * (p * SCALE_FACTOR)
    BY <1>2, <1>4, Z3
  <2> QED BY <2>3, <2>4, <2>5
<1>9. CASE snap.epoch = currentEpoch /\ t + 1 = currentScale
  <2>1. sum2(t) = sum(t) /\ sum2(t + 1) = sum(t + 1) + g
    BY <1>2, <1>6, <1>9
  <2>2. K * d <= w[u] * (p * SCALE_FACTOR)
    BY <1>1, <1>4, <1>9 DEF Shared
  <2> DEFINE more == d * g
  <2> HIDE DEF d, g, sum, sum2, p, t, S
  <2>3. Claim(u, c)' = Claim(u, c) + more /\ more \in Nat
    <3>1. ASSUME NEW x \in Nat, NEW y \in Nat
          PROVE  d * (SCALE_FACTOR * x + (y + g)) = d * (SCALE_FACTOR * x + y) + d * g
      BY <1>2, <1>4, Z3
    <3>2. more \in Nat
      BY <1>2, <1>4, ProductOfNats
    <3>3. d * (SCALE_FACTOR * (sum(t) - S) + (sum(t + 1) + g))
            = d * (SCALE_FACTOR * (sum(t) - S) + sum(t + 1)) + more
      BY <1>2, <3>1
    <3> HIDE DEF more
    <3> QED BY <1>5, <2>1, <3>2, <3>3
  <2>4. (K * d) * g <= (w[u] * (p * SCALE_FACTOR)) * g
    BY <1>2, <1>4, <2>2, PutFactor, ProductOfNats
  <2>5. /\ (K * d) * g = K * more
        /\ (w[u] * (p * SCALE_FACTOR)) * g = (w[u] * g) * (p * SCALE_FACTOR)
    BY <1>2, <1>4, Z3
  <2> QED BY <2>3, <2>4, <2>5
<1>10. CASE ~(snap.epoch = currentEpoch /\ (t = currentScale \/ t + 1 = currentScale))
  <2>1. sum2(t) = sum(t) /\ sum2(t + 1) = sum(t + 1)
    BY <1>2, <1>6, <1>10
  <2>2. Claim(u, c)' = Claim(u, c) + 0
    <3>1. Claim(u, c) \in Nat
      BY <1>1, ClaimParts
    <3> QED BY <1>5, <2>1, <3>1
  <2>3. K * 0 <= (w[u] * g) * (p * SCALE_FACTOR)
    <3>1. (w[u] * g) * (p * SCALE_FACTOR) \in Nat /\ K * 0 = 0
      BY <1>2, <1>4, ProductOfNats
    <3> QED BY <3>1
  <2> QED BY <2>2, <2>3
<1> QED BY <1>8, <1>9, <1>10

\* An offset fills the sums of the current scale and epoch, and moves on.
LEMMA LaterStayEmpty ==
  ASSUME IInv, GainsBacked, NEW o \in Offsets, Offset(o.debt, o.coll)
  PROVE  LaterSumsEmpty'
<1>1. /\ PoolShrinks /\ currentScale' \in 0..MaxScale /\ currentEpoch' \in Epochs
  BY OffsetFine
<1>2. /\ currentEpoch \in Nat /\ currentScale \in Nat /\ currentEpoch' \in Nat /\ currentScale' \in Nat
  BY <1>1, StabilityPoolAssumption DEF IInv, TypeOK, Epochs
<1>3. totalUSDEDeposits # 0 /\ UpdateSums(o.coll) /\ o.coll \in Amounts
  BY StabilityPoolAssumption DEF Offset
<1>4. ASSUME NEW c \in Collaterals, NEW e \in Epochs, NEW s \in Scales,
             e > currentEpoch' \/ (e = currentEpoch' /\ s > currentScale')
      PROVE  epochToScaleToSum'[c][e][s] = 0
  <2>1. e \in Nat /\ s \in Nat
    BY DEF Epochs, Scales
  <2>2. /\ e > currentEpoch \/ (e = currentEpoch /\ s > currentScale)
        /\ ~(e = currentEpoch /\ s = currentScale)
    BY <1>1, <1>2, <1>4, <2>1 DEF PoolShrinks
  <2>3. epochToScaleToSum'[c][e][s] = epochToScaleToSum[c][e][s]
    BY <1>3, <2>2, SumsAfterOffset DEF GainsBacked
  <2> QED BY <2>2, <2>3 DEF GainsBacked, LaterSumsEmpty
<1> QED BY <1>4 DEF LaterSumsEmpty

\* An offset promises what it brings, but for the dust.
LEMMA OffsetBacks ==
  ASSUME IInv, IInv', Coverage, GainsBacked, NEW o \in Offsets, Offset(o.debt, o.coll),
         dust' = [c \in Collaterals |-> dust[c] + OffsetDust(o.coll, c)]
  PROVE  GainsBacked'
<1> USE StabilityPoolAssumption
<1>1. PICK K, w : CoveredBy(K, w)
  BY DEF Coverage
<1>2. /\ o.coll \in Amounts /\ totalUSDEDeposits \in Nat \ {0} /\ P \in Nat \ {0}
      /\ DECIMAL_PRECISION \in Nat \ {0} /\ DepositCap \in Nat /\ lastUSDELossError \in Nat
      /\ lastUSDELossError <= DepositCap /\ UpdateSums(o.coll) /\ UNCHANGED <<depositVars, ownerVars>>
      /\ K \in Nat \ {0} /\ w \in [Users -> Nat]
      /\ IsFiniteSet(Users) /\ Users \in SUBSET Users
  BY <1>1, ProductOfNats DEF Offset, IInv, TypeOK, Coverage, CoveredBy
<1> DEFINE W == SumFunctionOnSet(w, Users)
           D == DECIMAL_PRECISION
           T == totalUSDEDeposits
           C == DepositCap
<1>3. W \in Nat
  BY <1>2, SumOfNaturals
<1>4. (W * P) * D <= K * (T * D + C)
  <2>1. (W * P) * D <= K * Backing /\ Backing = T * D - lastUSDELossError + C
    BY <1>1 DEF CoveredBy, Backing
  <2> DEFINE all == T * D + C
  <2>2. Backing <= all /\ Backing \in Int /\ all \in Int
    <3>1. T * D \in Nat
      BY <1>2, ProductOfNats
    <3> QED BY <1>2, <2>1, <3>1
  <2> HIDE DEF all
  <2>3. Backing * K <= all * K
    BY <1>2, <2>2, PutFactor
  <2>4. Backing * K = K * Backing /\ all * K = K * all /\ K * Backing \in Int /\ K * all \in Int
    BY <1>2, <2>2, Z3
  <2>5. (W * P) * D \in Nat
    BY <1>2, <1>3, ProductOfNats
  <2> QED BY <2>1, <2>3, <2>4, <2>5 DEF all
<1> HIDE DEF W
<1>5. ASSUME NEW c \in Collaterals
      PROVE  dust'[c] \in Nat /\ \E L, v : Promised(c, L, v)'
  <2>1. PICK L, v : Promised(c, L, v)
    BY DEF GainsBacked
  <2> DEFINE b == collBalance[c]
             e == lastCollError[c]
             n == CollNumerator(o.coll, c)
             g == GainPerUnitStaked(o.coll, c)
             F == (g * T) \div P
             Q == (n * C) \div (D * T)
             V == SumFunctionOnSet(v, Users)
             coll == o.coll[c]
             y == dust[c]
  <2>2. /\ L \in Nat \ {0} /\ v \in [Users -> Nat] /\ V <= L * (b * D - e + y)
        /\ b \in Nat /\ e \in Nat /\ coll \in Nat /\ y \in Nat
    BY <1>2, <2>1 DEF Promised, GainsBacked, IInv, TypeOK, Amounts
  <2>3. n = coll * D + e /\ n \in Nat /\ g = (n * P) \div T
    BY <1>2, <2>2, ProductOfNats DEF CollNumerator, GainPerUnitStaked
  <2>4. /\ collBalance'[c] = b + coll /\ lastCollError'[c] = n - F /\ dust'[c] = y + (Q + 2)
    BY DEF Offset, UpdateSums, GainsBacked, OffsetDust
  <2>5. V \in Nat
    BY <1>2, <2>2, SumOfNaturals
  <2> HIDE DEF b, e, n, g, V, coll, y
  <2>6. g \in Nat /\ F \in Nat /\ Q \in Nat /\ g * W <= K * (F + Q + 2)
    <3>1. F = (g * T) \div P /\ Q = (n * C) \div (D * T)
      OBVIOUS
    <3>2. /\ D \in Nat \ {0} /\ T \in Nat \ {0} /\ C \in Nat /\ K \in Nat \ {0}
          /\ W \in Nat /\ P \in Nat \ {0} /\ n \in Nat
      BY <1>2, <1>3, <2>3
    <3>3. (W * P) * D <= K * (T * D + C) /\ g = (n * P) \div T
      BY <1>4, <2>3
    <3> HIDE DEF D, T, C, F, Q
    <3> QED BY ONLY <3>1, <3>2, <3>3, PromiseArithmetic
  <2> HIDE DEF F, Q
  <2>7. dust'[c] \in Nat
    BY <2>2, <2>4, <2>6
  <2> DEFINE k == g * L
             v1 == [u \in Users |-> K * v[u]]
             w1 == [u \in Users |-> k * w[u]]
             both == [u \in Users |-> K * v[u] + k * w[u]]
  <2>8. PICK v2, L2 : v2 = both /\ L2 = L * K
    OBVIOUS
  <2>9. k \in Nat /\ L2 \in Nat \ {0}
    <3>1. L * K \in Nat \ {0} /\ g * L \in Nat
      BY <1>2, <2>2, <2>6, Z3
    <3> QED BY <2>8, <3>1
  <2> HIDE DEF k
  <2>10. ASSUME NEW u \in Users
         PROVE  /\ v[u] \in Nat /\ w[u] \in Nat /\ v1[u] \in Nat /\ w1[u] \in Nat /\ v2[u] \in Nat
                /\ v1[u] = K * v[u] /\ w1[u] = k * w[u] /\ v2[u] = v1[u] + w1[u]
    <3>1. v[u] \in Nat /\ w[u] \in Nat
      BY <1>2, <2>2
    <3>2. K * v[u] \in Nat /\ k * w[u] \in Nat
      BY <1>2, <2>9, <3>1, ProductOfNats
    <3> QED BY <2>8, <3>1, <3>2
  <2>11. v2 \in [Users -> Nat]
    <3>1. v2 = [u \in Users |-> v2[u]]
      BY <2>8
    <3> QED BY <2>10, <3>1
  <2> HIDE DEF v1, w1, both
  <2>12. SumFunctionOnSet(v2, Users) = K * V + k * W
    <3>1. SumFunctionOnSet(v1, Users) = K * V
      <4>1. K \in Int /\ \A u \in Users : v[u] \in Int /\ v1[u] = K * v[u]
        BY <1>2, <2>10
      <4> QED BY <1>2, <4>1, SumScaled DEF V
    <3>2. SumFunctionOnSet(w1, Users) = k * W
      <4>1. k \in Int /\ \A u \in Users : w[u] \in Int /\ w1[u] = k * w[u]
        BY <2>9, <2>10
      <4> QED BY <1>2, <4>1, SumScaled DEF W
    <3>3. \A u \in Users : v1[u] \in Int /\ w1[u] \in Int /\ v2[u] = v1[u] + w1[u]
      BY <2>10
    <3> QED BY <1>2, <3>1, <3>2, <3>3, SumOfSums
  <2>13. SumFunctionOnSet(v2, Users)
           <= L2 * (collBalance'[c] * D - lastCollError'[c] + dust'[c])
    <3>1. (b + coll) * D - (n - F) + (y + (Q + 2)) = (b * D - e + y) + (F + Q + 2)
      <4>1. (b + coll) * D = b * D + coll * D /\ b * D \in Int /\ coll * D \in Int
        BY <1>2, <2>2, Regroup, ProductOfNats
      <4> QED BY <2>2, <2>3, <2>6, <4>1
    <3>2. b * D - e + y \in Int /\ F + Q + 2 \in Nat
      <4>1. b * D \in Int
        BY <1>2, <2>2, ProductOfNats
      <4> QED BY <2>2, <2>6, <4>1
    <3>3. K * V + k * W <= (L * K) * ((b * D - e + y) + (F + Q + 2))
      <4> DEFINE i == b * D - e + y
                 j == F + Q + 2
      <4>1. i \in Int /\ j \in Nat /\ V <= L * i /\ g * W <= K * j
        BY <2>2, <2>6, <3>2
      <4> HIDE DEF i, j
      <4>2. V * K <= (L * i) * K /\ (g * W) * L <= (K * j) * L
        <5>1. L * i \in Int /\ g * W \in Int /\ K * j \in Int
          BY <1>2, <1>3, <2>2, <2>6, <4>1, Z3
        <5> QED BY <1>2, <2>2, <2>5, <4>1, <5>1, PutFactor
      <4>3. /\ V * K = K * V /\ (g * W) * L = k * W
            /\ (L * i) * K + (K * j) * L = (L * K) * (i + j)
        <5>1. /\ K \in Nat /\ L \in Nat
          BY <1>2, <2>2
        <5>2. V * K = K * V
          BY <2>5, <5>1, Regroup
        <5>3. (g * W) * L = (g * L) * W
          BY <1>3, <2>6, <5>1, Z3
        <5>4. (L * i) * K + (K * j) * L = (L * K) * (i + j)
          BY <4>1, <5>1, Z3
        <5> QED BY <5>2, <5>3, <5>4 DEF k
      <4>4. /\ V * K \in Int /\ (g * W) * L \in Int /\ (L * i) * K \in Int /\ (K * j) * L \in Int
        BY <1>2, <1>3, <2>2, <2>5, <2>6, <4>1, Z3
      <4> QED BY <4>2, <4>3, <4>4 DEF i, j
    <3> QED BY <2>4, <2>8, <2>12, <3>1, <3>3
  <2>14. ASSUME NEW u \in Users, initialValue'[u] # 0
         PROVE  Claim(u, c)' * L2 <= v2[u] * (depositSnapshots'[u].P * SCALE_FACTOR)
    <3> DEFINE x == depositSnapshots[u].P * SCALE_FACTOR
               claim == Claim(u, c)
    <3>1. /\ initialValue[u] # 0 /\ depositSnapshots' = depositSnapshots /\ c \in support
          /\ support = Collaterals
      BY <1>2, <2>14 DEF depositVars, GainsBacked
    <3>2. x \in Nat /\ claim \in Nat
      BY <3>1, ClaimParts
    <3>3. claim * L <= v[u] * x
      BY <2>1, <3>1 DEF Promised
    <3>4. PICK more \in Nat : Claim(u, c)' = claim + more /\ K * more <= (w[u] * g) * x
      BY <1>1, <3>1, ClaimGrows DEF g
    <3> HIDE DEF x, claim
    <3>5. /\ (claim * L) * K <= (v[u] * x) * K
          /\ (K * more) * L <= ((w[u] * g) * x) * L
      <4>1. /\ claim * L \in Int /\ v[u] * x \in Int /\ K * more \in Int /\ (w[u] * g) * x \in Int
            /\ K \in Nat /\ L \in Nat
        BY <1>2, <2>2, <2>6, <2>10, <3>2, ProductOfNats
      <4> QED BY <3>3, <3>4, <4>1, PutFactor
    <3>6. /\ (claim + more) * L2 = (claim * L) * K + (K * more) * L
          /\ v2[u] * x = (v[u] * x) * K + ((w[u] * g) * x) * L
      <4>1. (claim + more) * (L * K) = (claim * L) * K + (K * more) * L
        BY <1>2, <2>2, <3>2, Z3
      <4>2. (K * v[u] + (g * L) * w[u]) * x = (v[u] * x) * K + ((w[u] * g) * x) * L
        BY <1>2, <2>2, <2>6, <2>10, <3>2, Z3
      <4> QED BY <2>8, <2>10, <4>1, <4>2 DEF k
    <3>7. /\ (claim * L) * K \in Int /\ (v[u] * x) * K \in Int /\ (K * more) * L \in Int
          /\ ((w[u] * g) * x) * L \in Int
      BY <1>2, <2>2, <2>6, <2>10, <3>2, ProductOfNats
    <3>8. (claim + more) * L2 <= v2[u] * x
      BY <3>5, <3>6, <3>7
    <3> QED BY <3>1, <3>4, <3>8 DEF x
  <2>15. Promised(c, L2, v2)'
    BY <2>9, <2>11, <2>13, <2>14 DEF Promised
  <2> QED BY <2>7, <2>15
<1>6. support' = Collaterals
  BY <1>2 DEF ownerVars, GainsBacked
<1>7. dust' \in Amounts
  BY <1>5 DEF Amounts
<1>8. LaterSumsEmpty'
  BY LaterStayEmpty
<1> QED BY <1>5, <1>6, <1>7, <1>8 DEF GainsBacked

\* The initial pool owes nothing and holds nothing.
LEMMA InitBacked == Init /\ dust = Zeros => GainsBacked
<1> SUFFICES ASSUME Init, dust = Zeros PROVE GainsBacked
  OBVIOUS
<1> USE StabilityPoolAssumption
<1>1. PICK v : v = [u \in Users |-> 0]
  OBVIOUS
<1>2. SumFunctionOnSet(v, Users) = 0 /\ v \in [Users -> Nat]
  BY <1>1, SumOfZeros
<1>3. ASSUME NEW c \in Collaterals PROVE Promised(c, 1, v)
  <2>1. collBalance[c] = 0 /\ lastCollError[c] = 0 /\ dust[c] = 0
    BY DEF Init, Zeros
  <2>2. ASSUME NEW D \in Nat PROVE 0 <= 1 * (0 * D - 0 + 0)
    BY Z3
  <2>3. \A u \in Users : initialValue[u] = 0
    BY DEF Init
  <2> QED BY <1>2, <2>1, <2>2, <2>3 DEF Promised
<1>4. LaterSumsEmpty
  BY DEF Init, LaterSumsEmpty
<1>5. support = Collaterals /\ dust \in Amounts
  BY DEF Init, Zeros, Amounts
<1> QED BY <1>3, <1>4, <1>5 DEF GainsBacked

\* Every action keeps the gains backed.
LEMMA NextBacks ==
  IInv /\ Coverage /\ GainsBacked /\ [Next]_vars /\ [DustStep]_<<vars, dust>> => GainsBacked'
<1> SUFFICES ASSUME IInv, Coverage, GainsBacked, [Next]_vars, [DustStep]_<<vars, dust>>
             PROVE  GainsBacked'
  OBVIOUS
<1>1. IInv'
  BY NextFine
<1>2. CASE \E o \in Offsets : /\ Offset(o.debt, o.coll)
                              /\ dust' = [c \in Collaterals |-> dust[c] + OffsetDust(o.coll, c)]
  BY <1>1, <1>2, OffsetBacks
<1>3. CASE dust' = dust /\ ~OffsetStep
  <2>1. ASSUME NEW u \in Users, DepositorCall(u) PROVE GainsBacked'
    <3>1. \A x \in Users : CompoundedDeposit(x) \in Nat
      BY CompoundedParts
    <3>2. \E value \in Nat, tag \in FrontEnds : PayGain(u) /\ UpdateDeposit(u, value, tag)
      <4>1. CASE \E amount \in ProvideAmounts, tag \in FrontEnds : ProvideToSP(u, amount, tag)
        <5>1. PICK amount \in ProvideAmounts, tag \in FrontEnds : ProvideToSP(u, amount, tag)
          BY <4>1
        <5>2. CompoundedDeposit(u) + amount \in Nat
          BY <3>1, StabilityPoolAssumption
        <5>3. (IF initialValue[u] = 0 THEN tag ELSE frontEndTag[u]) \in FrontEnds
          BY DEF IInv, TypeOK
        <5> QED BY <5>1, <5>2, <5>3 DEF ProvideToSP
      <4>2. CASE \E amount \in WithdrawAmounts : WithdrawFromSP(u, amount)
        <5>1. PICK amount \in WithdrawAmounts : WithdrawFromSP(u, amount)
          BY <4>2
        <5>2. CompoundedDeposit(u) - MinOf(amount, CompoundedDeposit(u)) \in Nat
          BY <3>1, StabilityPoolAssumption DEF MinOf
        <5>3. frontEndTag[u] \in FrontEnds
          BY DEF IInv, TypeOK
        <5> QED BY <5>1, <5>2, <5>3 DEF WithdrawFromSP
      <4>3. CASE WithdrawCollateralGainToTrove(u)
        <5>1. frontEndTag[u] \in FrontEnds
          BY DEF IInv, TypeOK
        <5> QED BY <3>1, <4>3, <5>1 DEF WithdrawCollateralGainToTrove
      <4> QED BY <2>1, <4>1, <4>2, <4>3 DEF DepositorCall
    <3>3. UNCHANGED <<offsetVars, support>>
      BY <2>1 DEF DepositorCall, ProvideToSP, WithdrawFromSP, WithdrawCollateralGainToTrove, ownerVars
    <3> QED BY <1>3, <3>2, <3>3, CallBacks
  <2>2. CASE \/ \E u \in Users : RegisterFrontEnd(u)
             \/ \E val \in BOOLEAN : SetPause(val)
             \/ UNCHANGED vars
    <3>1. UNCHANGED <<initialValue, depositSnapshots, offsetVars, collBalance, support, dust>>
      BY <1>3, <2>2 DEF RegisterFrontEnd, SetPause, vars, depositVars, ownerVars
    <3>2. ASSUME NEW c \in Collaterals PROVE \E L, v : Promised(c, L, v)'
      <4>1. PICK L, v : Promised(c, L, v)
        BY DEF GainsBacked
      <4>2. \A u \in Users : Claim(u, c)' = Claim(u, c)
        BY <3>1 DEF Claim, offsetVars
      <4>3. Promised(c, L, v)'
        BY <3>1, <4>1, <4>2 DEF Promised, offsetVars
      <4> QED BY <4>3
    <3>3. LaterSumsEmpty'
      BY <3>1 DEF GainsBacked, LaterSumsEmpty, offsetVars
    <3> QED BY <3>1, <3>2, <3>3 DEF GainsBacked
  <2> QED BY <1>3, <2>1, <2>2 DEF Next
<1>4. CASE UNCHANGED <<vars, dust>>
  <2>1. ~OffsetStep
    <3>1. ASSUME NEW o \in Offsets, Offset(o.debt, o.coll) PROVE FALSE
      <4>1. o.debt \in Nat \ {0} /\ totalUSDEDeposits \in Nat
        BY StabilityPoolAssumption DEF IInv, TypeOK
      <4>2. totalUSDEDeposits = totalUSDEDeposits - o.debt
        BY <1>4, <3>1 DEF Offset, vars
      <4> QED BY <4>1, <4>2
    <3> QED BY <3>1 DEF OffsetStep
  <2> QED BY <1>3, <1>4, <2>1
<1> QED BY <1>2, <1>3, <1>4 DEF DustStep

-----------------------------------------------------------------------------
\* Types are kept by every call and every offset: totals, sums and errors
\* never fall below zero and P never leaves 1..DECIMAL_PRECISION, so nothing
\* is ever divided by zero.
THEOREM TypesAlwaysKept == Spec => []TypeOK
<1>1. IInv => TypeOK
  BY DEF IInv
<1> QED BY <1>1, InitFine, NextFine, PTL DEF Spec

\* No deposit is ever locked in by a snapshot that is ahead of the pool.
THEOREM SnapshotsNeverAhead == Spec => []SnapshotsNotAhead
<1>1. IInv => SnapshotsNotAhead
  BY NoneOutgrown DEF IInv, NoneAhead, SnapshotsNotAhead
<1> QED BY <1>1, InitFine, NextFine, PTL DEF Spec

\* For any offset of any size: no deposit grows and no gain shrinks by it,
\* where P is rescaled or the pool emptied, too.
THEOREM OffsetsOnlyConvert == Spec => OffsetOnlyConverts
<1>1. ASSUME IInv, NEW o \in Offsets, Offset(o.debt, o.coll), NEW u \in Users
      PROVE  /\ CompoundedDeposit(u)' <= CompoundedDeposit(u)
             /\ \A c \in Collaterals : CollateralGain(u)'[c] >= CollateralGain(u)[c]
  <2>1. /\ TypeOK /\ TypeOK' /\ PoolShrinks /\ totalUSDEDeposits' <= totalUSDEDeposits
        /\ \A c \in Collaterals, e \in Epochs, s \in Scales :
             epochToScaleToSum'[c][e][s] >= epochToScaleToSum[c][e][s]
        /\ UNCHANGED <<depositVars, ownerVars>>
    BY <1>1, OffsetFine DEF IInv
  <2>2. \A c \in Collaterals : CollateralGain(u)'[c] >= CollateralGain(u)[c]
    BY <1>1, <2>1, GainsGrow
  <2>3. ASSUME NEW stake, NEW snap, stake = initialValue[u], snap = depositSnapshots[u]
        PROVE  CompoundedDeposit(u)' <= CompoundedDeposit(u)
    <3>1. stake \in Nat /\ snap \in Snapshots /\ (stake # 0 => NotAhead(snap))
      BY <1>1, <2>1, <2>3 DEF IInv, TypeOK, NoneAhead
    <3>2. CompoundedStake(stake, snap)' <= CompoundedStake(stake, snap)
      BY <2>1, <3>1, CompoundedFalls
    <3>3. /\ CompoundedDeposit(u) = CompoundedStake(stake, snap)
          /\ CompoundedDeposit(u)' = CompoundedStake(stake, snap)'
      BY <2>1, <2>3 DEF CompoundedDeposit, depositVars, CompoundedStake
    <3> QED BY <3>2, <3>3
  <2> QED BY <2>2, <2>3
<1>2. IInv /\ [Next]_vars =>
        [OffsetStep => \A u \in Users :
           /\ CompoundedDeposit(u)' <= CompoundedDeposit(u)
           /\ \A c \in Collaterals : CollateralGain(u)'[c] >= CollateralGain(u)[c]]_vars
  BY <1>1 DEF OffsetStep
<1> QED BY <1>2, InitFine, NextFine, PTL DEF Spec, OffsetOnlyConverts

\* For any number of depositors and any offsets: the pool covers the deposits
\* but for one part in DECIMAL_PRECISION of the most it ever held, through
\* top-ups, withdrawals, rescalings and emptied pools.
THEOREM DepositsAlwaysCovered == Spec => []DepositsCovered
<1>1. Init => IInv /\ Coverage
  BY InitFine, InitCovered
<1>2. (IInv /\ Coverage) /\ [Next]_vars => (IInv /\ Coverage)'
  BY NextFine, NextCovers
<1>3. IInv /\ Coverage => DepositsCovered
  BY CoverageCovers
<1> QED BY <1>1, <1>2, <1>3, PTL DEF Spec

\* No depositor's call touches what is nobody's but another's: not the gain,
\* and not the deposit, unless that deposit is more than all that is left.
THEOREM OthersAreUntouched == Spec => OthersUntouched
<1>1. ASSUME IInv, IInv', NEW u \in Users, DepositorCall(u), NEW v \in Users \ {u}
      PROVE  /\ CollateralGain(v)' = CollateralGain(v)
             /\ \/ CompoundedDeposit(v)' = CompoundedDeposit(v)
                \/ Uncapped(v) > MinOf(totalUSDEDeposits, totalUSDEDeposits')
  <2>1. /\ initialValue'[v] = initialValue[v] /\ depositSnapshots'[v] = depositSnapshots[v]
        /\ UNCHANGED <<offsetVars, ownerVars>>
    BY <1>1 DEF DepositorCall, ProvideToSP, WithdrawFromSP, WithdrawCollateralGainToTrove,
                UpdateDeposit, IInv, TypeOK
  <2>2. /\ P' = P /\ currentScale' = currentScale /\ currentEpoch' = currentEpoch
        /\ epochToScaleToSum' = epochToScaleToSum /\ support' = support
    BY <2>1 DEF offsetVars, ownerVars
  <2>3. CollateralGain(v)' = CollateralGain(v)
    BY <2>1, <2>2 DEF CollateralGain, SumSince
  <2> DEFINE stake == initialValue[v]
             snap == depositSnapshots[v]
             product == Product(stake, snap)
  <2>4. Product(initialValue[v], depositSnapshots[v])' = product
    BY <2>1, <2>2 DEF Product
  <2>5. CASE stake = 0 \/ snap.epoch < currentEpoch
    BY <2>1, <2>2, <2>3, <2>5 DEF CompoundedDeposit, CompoundedStake
  <2>6. CASE ~(stake = 0 \/ snap.epoch < currentEpoch)
    <3>1. Uncapped(v) = product
      BY <2>6 DEF Uncapped
    <3>2. /\ CompoundedDeposit(v) = IF MinOf(product, totalUSDEDeposits) < stake \div SCALE_FACTOR
                                      THEN 0 ELSE MinOf(product, totalUSDEDeposits)
          /\ CompoundedDeposit(v)' = IF MinOf(product, totalUSDEDeposits') < stake \div SCALE_FACTOR
                                      THEN 0 ELSE MinOf(product, totalUSDEDeposits')
      BY <2>1, <2>2, <2>4, <2>6 DEF CompoundedDeposit, CompoundedStake, MinOf
    <3>3. totalUSDEDeposits \in Nat /\ totalUSDEDeposits' \in Nat
      BY <1>1 DEF IInv, TypeOK
    <3>4. product \in Int
      <4>1. /\ stake \in Nat /\ snap \in Snapshots /\ snap.P \in Nat \ {0} /\ P \in Nat
            /\ SCALE_FACTOR \in Nat \ {0}
        BY <1>1, <2>6, StabilityPoolAssumption DEF IInv, TypeOK, NoneAhead, NotAhead, Snapshots
      <4>2. stake * P \in Nat
        BY <4>1, ProductOfNats
      <4>3. (stake * P) \div snap.P \in Nat
        BY <4>1, <4>2, DivFacts
      <4>4. ((stake * P) \div snap.P) \div SCALE_FACTOR \in Nat
        BY <4>1, <4>3, DivFacts
      <4> QED BY <4>3, <4>4 DEF Product
    <3> HIDE DEF product
    <3>5. CASE product > MinOf(totalUSDEDeposits, totalUSDEDeposits')
      BY <2>3, <3>1, <3>5
    <3>6. CASE ~(product > MinOf(totalUSDEDeposits, totalUSDEDeposits'))
      <4>1. MinOf(product, totalUSDEDeposits) = product /\ MinOf(product, totalUSDEDeposits') = product
        BY <3>3, <3>4, <3>6 DEF MinOf
      <4> QED BY <2>3, <3>2, <4>1
    <3> QED BY <3>5, <3>6
  <2> QED BY <2>5, <2>6
<1>2. IInv /\ IInv' /\ [Next]_vars =>
        [\A u \in Users : DepositorCall(u) =>
           \A v \in Users \ {u} :
             /\ CollateralGain(v)' = CollateralGain(v)
             /\ \/ CompoundedDeposit(v)' = CompoundedDeposit(v)
                \/ Uncapped(v) > MinOf(totalUSDEDeposits, totalUSDEDeposits')]_vars
  BY <1>1
<1> QED BY <1>2, InitFine, NextFine, PTL DEF Spec, OthersUntouched

\* For any number of depositors, any collaterals and any offsets: all gains
\* together exceed what the pool holds by no more than the dust of the offsets'
\* divisions.
THEOREM GainsAlwaysNearlyCovered == Spec /\ DustRecorded => []GainsNearlyCovered
<1> DEFINE Inv == IInv /\ Coverage /\ GainsBacked
<1>1. Init /\ dust = Zeros => Inv
  BY InitFine, InitCovered, InitBacked
<1>2. Inv /\ [Next]_vars /\ [DustStep]_<<vars, dust>> => Inv'
  BY NextFine, NextCovers, NextBacks
<1>3. Inv => GainsNearlyCovered
  BY BackedCovers
<1> QED BY <1>1, <1>2, <1>3, PTL DEF Spec, DustRecorded

\* As long as the dust of the offsets does not add up to one unit of a
\* collateral, the pool holds all gains, to the last unit.
THEOREM GainsCoveredButForDust ==
  Spec /\ DustRecorded =>
    []((\A c \in Collaterals : dust[c] < DECIMAL_PRECISION) => GainsCovered)
<1> DEFINE Inv == IInv /\ Coverage /\ GainsBacked
           Exact == (\A c \in Collaterals : dust[c] < DECIMAL_PRECISION) => GainsCovered
<1>1. Init /\ dust = Zeros => Inv
  BY InitFine, InitCovered, InitBacked
<1>2. Inv /\ [Next]_vars /\ [DustStep]_<<vars, dust>> => Inv'
  BY NextFine, NextCovers, NextBacks
<1>3. Inv => Exact
  BY BackedCovers
<1> QED BY <1>1, <1>2, <1>3, PTL DEF Spec, DustRecorded
=============================================================================
