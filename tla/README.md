# A TLA+ model of the ERD protocol

ERD lends the stablecoin USDE against collateral: ETH and liquid staking
tokens. A borrower keeps the collateral in a *trove*; troves that fall below a
minimum collateral ratio are liquidated against a pool of USDE deposits, or
spread over the other troves; and USDE can be redeemed at face value against
the riskiest troves. The contracts (`src/contracts`) descend from a design with
one collateral and a flat price, extended here to several collaterals.

This directory models the contracts in TLA+, checks the model on small
instances with TLC, and proves the most important invariants with TLAPS for
every instance.

## 1. Inventory

| Component | State | Operations | Correct when |
|---|---|---|---|
| `SortedTroves` | linked list of owners, recorded ICR of each | `insert`, `remove`, `reInsert` with hints | links consistent, ordered by recorded ICR, wrong hints repaired |
| `TroveManager` | status, owners array, stakes, reward snapshots, totals, sums per unit staked | close, pending rewards, redistribution, system snapshots, base rate | array, index and status agree; rewards are covered by the DefaultPool |
| `BorrowerOperations` | none (market cap) | `openTrove`, six adjustments, `closeTrove`, `claimCollateral`, `updateUSDEGas` | normal mode is kept, recovery mode not worsened, no dust |
| `TroveManagerLiquidations` | none | `liquidate`, `liquidateTroves`, `batchLiquidateTroves` | the books agree after a batch; capped loss above the MCR |
| `TroveManagerRedemptions` | none | `redeemCollateral`, `updateTroves` | face value, nobody made worse |
| `ActivePool`, `DefaultPool`, `CollSurplusPool` | balances, recorded debts, claims | moves between pools, claims | recorded debt exact, claims paid |
| `CollateralManager`, `EToken` | array of collaterals with index, status and oracle of each; parameters; balances per owner and collateral | add, pause, remove, reorder, `priceUpdate`; mint, clear, reset | array and indices agree, priorities kept; ETokens backed by the ActivePool |
| `GasPool`, `USDEToken` | balances | mint, burn, transfer | one reserve per trove; USDE backed by debt |
| `StabilityPool` | deposits, P, S, G, epochs, scales, front ends, pause flag | provide, withdraw, gain to trove, register, `offset` | no deposit locked in; deposits and gains stay payable; depositors do not disturb each other |
| `PriceFeed` | status (one of five), last good price | `fetchPrice`, `setAddresses` | only prices of live oracles stored; distrust lasts until both agree; no status is a trap |
| `StETHOracle` (one per collateral) | status, last good price | `fetchPrice` | only prices of a live, steady feed stored |
| `TroveDebt`, `TroveLogic`, rate strategy | index, rate, time, scaled balances | accrue, mint interest, add and subtract debt | supply equals debt; no owner's debt depends on another's calls; a trove can be closed to zero |
| base rate (in `TroveManager`) | rate, time of last fee operation | decay, update | the decay can be neither held up nor counted twice |
| `HintHelpers`, `MultiTroveGetter`, proxies, treasury | none or balances | views, forwarding | out of scope: no protocol state |

**How they interact.** Everything is a synchronous call inside one transaction.
A borrower calls `BorrowerOperations`, a liquidator or redeemer `TroveManager`
(which forwards to the two walk contracts), a depositor `StabilityPool`, the
owner `CollateralManager`. A call that needs prices starts with `priceUpdate` and
`fetchPrice`, a call that changes a debt with `updateState`, which mints interest.
Each reaches into the shared state of `TroveManager`,
the pools, the ETokens and the list. A transaction either completes or reverts
as a whole. There is no concurrency inside one, and the entry points carry
reentrancy guards; what interleaves is whole transactions of many users with
price changes between them.

**What is hard.** Long sequences of calls by several owners; walks over many
troves that change the system they judge (mode, totals, owners array, list)
as they go; a recorded order that the price and the rewards outdate; hints
computed elsewhere; divisions rounded again and again with an error fed back;
boundaries (the last trove, the last stake in a collateral, the last token of a
pool, a collateral drained to zero, a pool of deposits emptied, a product that
shrinks until it has to be rescaled); external feeds that stop, jump, freeze, lie and
come back in any order; time that passes between calls; and parameters changed
under open troves.
`PROJECT.json` lists these hazards, each at its line.

## 2. Modules

```
SortedTroves ---- refines ---> SortedList        MCSortedTroves, SortedTrovesProofs
                                   |  EXTENDS
                              TroveManager            shared state and views
                       /                         \
          BorrowerOperations            TroveManagerLiquidations
                  |                               |
      TroveManagerRedemptions                     |
                       \                         /
                                   ERD                one Next for all actors
                                    |
                              ERDProperties           invariants, action properties
                              /           \
                         MCERD            ERDProofs
                                               |
                                          LedgerProofs

StabilityPool             MCStabilityPool, StabilityPoolProofs

ChainlinkFeed             how a feed behaves and is judged
   |      \
PriceFeed  CollateralManager
                          MCPriceFeed, PriceFeedProofs,
                          MCCollateralManager, CollateralManagerProofs

TroveDebt <- BaseRate <- Rates        MCRates, RatesProofs

Induction                 lemmas about finite sets, sums, walks and sequences,
                          for all of the proofs but PriceFeedProofs
```

There are four models, because one with prices of several oracles, a clock,
interest, deposits with their history and troves would be too large for TLC. Each leaves to
the others what its own properties do not look at:

| Model | Has | Takes as any choice |
|---|---|---|
| `ERD` | troves, list, pools, ETokens, liquidations, redemptions | the price, the fee rates, moves in and out of the StabilityPool's total; no clock, so no interest |
| `StabilityPool` | deposits, gains, front ends | the debt and collateral an offset passes; whether a gain may go to a trove |
| `PriceFeed`, `CollateralManager` | statuses, last good prices, array of collaterals | what the feeds and Tellor answer, and when |
| `Rates` | clock, interest, base rate, USDE supply | which trove is liquidated or redeemed from, the borrow rate, the mode |

* **SortedTroves** is the linked list of `SortedTroves.sol` with nodes, head and
  tail, and the two walks of `_findInsertPosition`. `MCSortedTroves` instantiates
  it. **SortedList** is what it promises: a sequence without duplicates in which
  a node lands at *some* place its ICR fits. `ImplementsSortedList` states the
  refinement (the sequence is read off by following `nextId` from the head; an
  operation of the list is the same operation of the sequence).
  The other modules use `SortedList`, so that a caller's hint is any choice among equal
  places.
* **TroveManager** declares the state the contracts share, and the views computed
  from it: pending rewards, entire debt and collateral, current ICR, TCR,
  recovery mode, stakes. One TLA+ variable stands for each mapping or field;
  variables keep the source's names. An array parallel to `collateralSupport` is
  a function on `Collaterals`.
* **BorrowerOperations**: `OpenTrove`, `AdjustTrove` (`addColl`, `withdrawColl`,
  `withdrawUSDE`, `repayUSDE`, `adjustTrove`, `moveCollGainToTrove`), `CloseTrove`,
  `ClaimCollateral`, and `SetGasCompensation` of `CollateralManager` with what
  `updateUSDEGas` does.
* **TroveManagerLiquidations**: a walk is a recursive function of the state whose
  values are accumulators (`Start`, `Process`, `RunOver`), as in the local
  variables of the loops; `Settle` is the part after the loop. The recovery-mode
  walk can end recovery mode in its middle.
* **TroveManagerRedemptions**: the same for `redeemCollateral` (`RedeemAlong`,
  `SettleRedemption`), with full, partial and cancelled redemptions.
* **ERD** puts the actors together. It adds the price (any member of `Prices`, any
  time) and moves in and out of the StabilityPool's total.
* **ERDProperties** states what must hold. **MCERD** holds the small instances.
* **ERDProofs** proves what concerns the books, **LedgerProofs** what concerns amounts
  (section 4).
* **StabilityPool**: `ProvideToSP`, `WithdrawFromSP`,
  `WithdrawCollateralGainToTrove`, `RegisterFrontEnd`, `SetPause`, and `Offset` with
  the errors it feeds back, the rescaling of `P` (`ShrinkProduct`) and the new epoch
  of an emptied pool (`EmptyPool`). A deposit is `initialValue` with its snapshot of
  `P`, `S`, scale and epoch, a front end's stake likewise.
  `SpecWithSupportChanges` lets the owner remove and add collaterals, too.
* **ChainlinkFeed** is an aggregator as the two price contracts see it (reachable or
  not, the last two answers, the age of the last) and how they judge it: broken,
  frozen or live, and whether the price jumped. `Scaled` brings an answer to `TARGET_DIGITS`, multiplying it or, when
  it has more digits, dividing it, which makes 0 of a small one. The code then divides by prices, and a call that
  divides by 0 reverts: `ChangeComputable` and, against Tellor, `DifferenceComputable` and `AgreementComputable` are guards at the
  places where the code compares, and nowhere else. **PriceFeed** has one action
  `FetchPrice`, one case per status, and the environment: rounds, outages, reports of
  Tellor, time. **CollateralManager** has the owner's operations on the
  array, with the loops that swap and shift as recursive functions of the number of swaps, and
  `PriceUpdate` with an oracle for each collateral.
* **TroveDebt**: index, scaled balances, `UpdateState` with `InterestMinted`,
  `UpdateInterestRates`, with the two roundings of WadRayMath. **BaseRate**: decay,
  redemption and borrowing rates, `lastFeeOperationTime`. **Rates** calls both as the
  contracts do, with the USDE minted and burned: `Borrow` in normal and recovery mode,
  `Repay`, `CloseTrove`, `Redeem`, `Liquidate`, `ApplyPendingRewards`, and the clock.

A call that would revert is a disabled action: SafeMath's lower limit, the
`revert`s and the `require` functions are guards, and every effect of a call is
in its one action.

### Abstractions

* Only `MAX_UINT256` bounds the ratio of a debt of zero; amounts are small and do
  not overflow. Collateral decimals are left out. `DECIMAL_PRECISION` is 100 in ERD, 16
  in `StabilityPool` (with a `SCALE_FACTOR` of 4), 1000 in `Rates` (with a `RAY` of 10 and a
  decay of 0.7 a minute, whose powers are not exact), so that the roundings the code does at 10^18 happen all the time here.
* In ERD the index of `TroveDebt` stays at one, and borrowing and redemption rates
  are any member of a set (base rate, floor and cap together).
* USDE of all users is one number: transfers between users are free.
* In ERD the StabilityPool is its total. A liquidator's USDE compensation goes to
  `wallets`.
* `CommunityIssuance.issue` returns 0 as the code stands, so the sum `G` and kickback
  rates are left out of `StabilityPool`.
* ETokens count amounts (`getShare` is the identity in the code as it stands).
* An answer of a feed is one of a few prices or `Bad`, which stands for every answer
  the code rejects; ages count up to one more than the timeout; `decimals()` does not change.
* In `Rates` the cap of `decPow` at 1000 years is left out, and the interest goes to
  one treasury.
* Access control, addresses and events are left out, and so are the pause flags but
  the StabilityPool's and the collaterals'.
* In ERD, collaterals are fixed, as are MCR, CCR and `MIN_NET_DEBT`.

## 3. Runs

| Run | Instance | Shows | Distinct states |
|---|---|---|---|
| `sorted_troves` | 4 ids, a list of 3, ICRs {0, 1, 2, 3}, all hints | links, refinement of `SortedList`, hints | 325 |
| `liquidations` | 3 owners, 1 collateral, 3 prices, 2 deposits | books, totals and rewards through both modes | 99 309 |
| `adjustments` | 2 owners, adjustments of every shape, 2 gas compensations | modes, dust, reserves | 32 172 |
| `redemptions` | 3 owners, full, partial and cancelled redemptions | face value, spared troves, order of the list | 29 212 |
| `two_collaterals` | 3 owners, 2 collaterals of which one loses value | rewards of both, order of drawing | 44 906 |
| `stability_pool` | 2 depositors who may register as front ends, a pool emptied once and rescaled twice | deposits and gains payable, independent, never locked in | 1 371 994 |
| `price_feed` | 4 Chainlink answers, scaled down, 2 Tellor values, outages, bad and stale answers of both | which price is stored, when trust ends and returns | 32 400 |
| `collaterals` | 3 collaterals in every order and status, a feed that jumps, freezes, breaks and recovers | array and indices, priorities of others, live prices | 159 264 |
| `rates` | 2 owners, 5 seconds, 5 calls at any of them, 2 borrow rates | interest, supply against debt, decay | 738 374 |

Three more runs each check one promise of a comment or test and end in a
counterexample; see section 5.

**Bounds.** All are named and only cut growth.

* ERD: `CollCap` (collateral in the two
  pools), `SurplusCap` (unclaimed surplus), `MaxE` (a sum per unit staked), `MarketCap`
  (a limit the code has), `MaxSize` (also in the code). Amounts and prices are
  chosen so that the cases meet: with deposits 4 and 5 against a debt of 52 and prices
  18, 15, 14, a trove is safe, at risk in recovery mode only, between 100% and
  110%, or below 100% once it took rewards in; the StabilityPool offsets none, one
  or two troves or a part of one; a batch holds every sequence of distinct owners.
  Three owners are the fewest for a redistribution that is shared by two and
  followed by another one. In `redemptions` an amount is either smaller than
  any trove's debt or reaches over one trove into the next; `updateTroves` runs in
  `adjustments`, whose `Refreshed` is not empty.
* `stability_pool`: `DepositCap`, `CollCap`, `SumCap`, `MaxEpoch`, `MaxScale`. With a
  precision of 16 and a scale factor of 4 an offset that leaves less than a quarter
  rescales `P`, and two epochs with three scales each have every relation the code
  tells apart between a snapshot and the present: same scale, one scale later, two scales later, an older epoch. The
  two depositors may deposit with each other as front end or with none, top up, withdraw in part and
  return.
* `price_feed`, `collaterals`: the answers 2000, 2100 (only in `price_feed`) and 4200 of three digits become the prices 200, 210 and 420 of two, which
  are close together or more than double, and 4 becomes 0; so both scale down, and calls that would divide by 0 revert.
  `oracle_down` scales up, as the code does with the eight digits Chainlink has today: 20, 21 and 42 of one digit become
  the same prices. What is done with a price does not depend on the way it was scaled. Further, an age of 0, 1 or 2 against a `TIMEOUT` of 1 is fresh, at the limit, or
  frozen. One feed changes in `collaterals` (`Volatile`), as the oracles are
  independent of each other.
* `rates`: `MaxTime`, `MaxCalls`. A minute has two seconds and a year too, so that interest
  per second is visible; five calls are enough for a redemption, two borrowings within a minute
  of each other and a closing, at any distance.

Owners, users and depositors are symmetric where no constant names one of them.
The run `price_feed` checks liveness and uses no symmetry.

**Deadlock.** `CHECK_DEADLOCK FALSE` in the runs with bounds on growth, time or calls, because a bounded instance may
run out of calls. `price_feed`, `collaterals` and `sorted_troves` can always go on, and
there TLC checks that they do.

**Fairness.** Only `PriceFeed` assumes some: weak fairness of `FetchPrice`. Anyone may call
`fetchPrice`, and every call that needs a price does; a feed nobody asks changes no
status, and nothing depends on it then. Nothing is assumed of the aggregator, of Tellor or of time. `TrustReturns`
puts what it needs of them in its premise: if both oracles are live
and agree from some time on, the status ends up as `chainlinkWorking`. Of the other
contracts no liveness is claimed: no contract acts by itself, and nobody is obliged to
liquidate, redeem or withdraw.

**Mutants.** For each property of a passing run, `PROJECT.json` names a mutated
definition (`Name_What` beside the original) that makes TLC find the property
violated: a split left out, a guard dropped, a snapshot forgotten, an
index not moved, an order swapped.

### The properties

* Money: `USDEBacked` (USDE outside the reserve equals debt), `ActiveDebtExact`,
  `ReservesComplete`, `CollateralHeld` (one collateral), `RewardsCovered` (the
  DefaultPool can pay all pending rewards, in any order), `TotalsAddUp`.
* Books: `OwnersAgree`, `ListSorted`, `NeverEmptied`.
* Borrowers: `BorrowersKeepNormalMode`, `BorrowersHelpRecovery`, `NoDustTroves`.
* Liquidations: `CappedLiquidation` (above the MCR an owner loses no more than MCR
  times the debt), `LowPriorityFirst`.
* Redemptions: `RedeemedAtFaceValue`, `RedemptionSparesTheRest`.
* The list: `WellLinked`, `ImplementsSortedList`, `ValidHintHonoured`.
* Depositors: `SnapshotsNotAhead` (no call of a depositor can revert over its
  snapshot), `DepositsCovered`, `GainsCovered`, `OthersUntouched`,
  `OffsetOnlyConverts`.
* Prices: `OnlyGoodPrices`, `DistrustUntilAgreement`, `TrustReturns` (liveness),
  `OnlyLivePrices`.
* Collaterals: `IndicesAgree`, `OthersKeepOrder`.
* Time: `SupplyMatchesDebt`, `OthersOweTheSame`, `ClearsExactly`, `DecaysInStep`.

Three of these say less than one might expect, because the code does no more:

* `DepositsCovered` allows an excess of one part in `DECIMAL_PRECISION` of the pool.
  The error of one offset lowers the next loss; at full precision the deposits
  may exceed the pool's total by some 10^6 wei. `getCompoundedUSDEDeposit` caps at the
  total, so the last to withdraw bears it, where the comment at StabilityPool.sol:665
  has the error favour the pool (`MCStabilityPool_error`, section 5). `GainsCovered` holds on the run because
  its amounts are small against its precision: where the deposits outgrow the pool, an offset promises more collateral
  than it brings, in that proportion (`MCStabilityPool_large_gains`), and paying out the last gain could fail for as
  little. Section 4 bounds the excess for all values. `OthersUntouched` excepts a deposit that exceeds all that is left, which moves with the cap.
* `DecaysInStep`: an operation that pays a fee sets `lastFeeOperationTime` to the
  present and drops the seconds of an unfinished minute. Up to every second minute is lost to
  borrowing, no more. The tolerance is what roundings can add up to: half a unit of 10^18 for each minute in a
  power and one for each call. Where every power is exact (a rate that halves) it is not needed.
* `OnlyGoodPrices` lists two exceptions: from `usingTellorChainlinkFrozen` with Tellor
  broken a jumped Chainlink price is taken as it is, and `setAddresses` takes the
  first price without comparing it. And while Chainlink lives but Tellor is frozen, that status
  keeps the last good price for as long as that lasts.

## 4. Proofs

**SortedTrovesProofs** proves of the linked list, for any owners, ICRs, `maxSize`, hints and order of the calls:

| Theorem | Statement |
|---|---|
| `TypesAlwaysKept` | `Spec => []TypeOK` |
| `AlwaysWellLinked` | `Spec => []WellLinked` |
| `LinkedListIsSortedList` | `Spec => ImplementsSortedList`, the refinement |
| `HintsAlwaysHonoured` | `Spec => ValidHintHonoured` |

`Linked(d, l)` says that the struct `d` describes the sequence `l`: each owner once, linked to its neighbours
in both directions, head and tail at the ends, no node outside of it, ordered by the ICRs in the nodes. The inductive
invariant `LinkedList` is that of the present struct and the sequence read from its head, with `maxSize`; neither
`WellLinked` nor the order is inductive without the other, because a walk over a list out of order may end anywhere. The argument
follows `_insert`:

* The walks are recursive functions on addresses. Each step brings down the distance to the end of the list, so they
  exist (`WalkExists`, `DescentExists`, `AscentExists`), and from a node the ICR may stand below, or above, they end at
  two neighbours around it (`DescentLands`, `AscentLands`). `FindLands`: so does `_findInsertPosition`, from any hints, because it
  drops those whose node left the list or whose ICR is on the wrong side.
* `Place`: two neighbours around an ICR are a place for it in the whole list, since that is sorted (`BetweenNeighbours`).
* What `_insert` and `_remove` write is stated field by field (`LinksIn`, `LinksOut`) and describes the sequence with one
  element more or less (`InsertionLinked`, `RemovalLinked`); reading the links gives it back in both directions
  (`HeadListIs`, `TailListIs`).
* `StepIsAbstract`: each call is thus the call of the abstract list with that place, a `reInsert` the removal and the
  insertion in one.

**ERDProofs** begins with the abstract list: lemmas about removing from and inserting into an
ordered sequence, and from them `ListStaysOrdered`: it stays ordered, without
duplicates, with a recorded ICR exactly for its members. It then proves, for any finite set of owners, any collaterals, prices,
amounts, rates and bounds:

| Theorem | Statement |
|---|---|
| `BooksAlwaysAgree` | `Spec => []Books`, the inductive invariant |
| `OwnersAlwaysAgree` | `Spec => []OwnersAgree` |
| `ListAlwaysSorted` | `Spec => []ListSorted` |
| `ReservesAlwaysComplete` | `Spec => []ReservesComplete` |
| `NeverEmptiedAgain` | `Spec => NeverEmptied` |

*Assumptions.* The named `ASSUME`s of the modules: finitely many owners
(addresses have 160 bits), natural amounts, positive precision and divisor,
`DECIMAL_PRECISION <= MCR <= CCR`, positive gas compensations. TLC evaluates
them in each run.

*Argument.* None of the three invariants is inductive by itself: removing an
owner keeps the indices right only if the array has no duplicates and the owner
is in it, which needs `status`, and a walk asks the list for its next trove.
`Books` therefore says at once that the array, with its indices, holds
the active owners, each once; that the ordered list holds the same; and that the
GasPool holds one reserve for each. A walk keeps a copy of the array, the index
and the list in its accumulator, with the owners it has closed so far and the gas
it will take. `BooksOf(closed, owners, index, list, gas)` states the same books
for an accumulator. `ClosingKeepsBooks` shows that closing one trove keeps it;
`RunOverKeepsWalk` and `RedeemAlongKeepsWalk` carry it along the walk, by
induction on the length of the path (over the least counterexample, with
`SetInduction`); `SettlingKeepsBooks` brings it back to the state. A partial
redemption puts its trove back into the list at the end only, so for the walk it
remains a member with its old record. Then there is one lemma per action and
`NextKeepsBooks` combines them. `NeverEmptied` follows because `MayClose` leaves
an owner behind at each closing.

**LedgerProofs** proves that the accounts of ERD hold, again for any finite sets of
owners and collaterals, any prices, amounts and bounds:

| Theorem | Statement |
|---|---|
| `LedgerHolds` | `Spec => []Ledger`, the inductive invariant |
| `TypesHold` | `Spec => []TypeOK`: no balance, debt, stake or error falls below zero |
| `TotalsAlwaysAddUp` | `Spec => []TotalsAddUp` |
| `NoDustEver` | `Spec => []NoDustTroves` |
| `ActiveDebtAlwaysExact` | `Spec => []ActiveDebtExact` |
| `NeverUnbacked` | `Spec => []DebtCoversUSDE`: there is never more USDE than debt |
| `CollRewardsAlwaysCovered` | `Spec => []CollRewardsCovered` |
| `RewardsCoveredWhileSeen` | `Spec /\ []RewardsSeen => []RewardsCovered` |
| `BackedWhileRewardsCovered` | `Spec /\ []DebtRewardsCovered => []USDEBacked` |
| `BackedWhileSeen` | `Spec /\ []RewardsSeen => []USDEBacked` |
| `OneCollateralIsHeld` | `Spec => [](OneCollateral => CollateralHeld)` |
| `RedeemedOnlyAtFaceValue` | `Spec => RedeemedAtFaceValue` |
| `LiquidationIsCapped` | `DECIMAL_PRECISION < MCR /\ Spec => CappedLiquidation` |
| `LowPriorityIsFirst` | `Spec => LowPriorityFirst` |
| `BorrowersNeverBringRecovery` | `Spec /\ []DebtRewardsCovered => BorrowersKeepNormalMode` |
| `BorrowersAlwaysHelpRecovery` | `Spec /\ []RewardsSeen => BorrowersHelpRecovery` |
| `RedemptionsSpareTheRest` | `Spec /\ []RewardsSeen => RedemptionSparesTheRest` |

*The invariant.* The properties depend on each other, so `Ledger` is proved at once:

* `TypeOK`: every subtraction that has no guard of its own needs one of the equations below.
* `SnapshotsBehind`: no trove's snapshot is ahead of the sums per unit staked, or a pending
  reward would be negative.
* `Totals`: `totalStakes` and the supply of debt are the sums over the troves, and an inactive trove
  holds nothing; without it, subtracting a closed trove's stake could go below zero.
* `NoDustTroves`: the net debt of a trove covers what a partial redemption takes.
* `ActiveDebtExact`: the saturating decrease of the ActivePool never saturates.
* `DebtCoversUSDE`: what a user burns or the StabilityPool offsets is owed by somebody.
* `CollPromisesKept`: for each collateral, what the sum per unit staked promises to all stakes, plus the
  error carried over, is at most `DECIMAL_PRECISION` times what the DefaultPool holds. This is the
  invariant of the redistributions: a new one adds the same on both sides (the quotient
  times the stakes plus the new remainder is the amount plus the old remainder), and a trove that takes its
  reward in gives up a promise at least as large as what is paid, as its reward is rounded down.
* `ETokensHeld` with one collateral; with several it is false (`drained_collateral`).

*The steps.* `LedgerStep` is `Ledger'` with the step of `USDEBacked`, and every action has a lemma
that says it makes one. Liquidations and redemptions need an invariant of the
accumulator of their walk. `LiquidationLedger` has `TotalsOf`: the totals of the walk are the sums of what
the closed owners held, and `LiquidatedClaim` for what each can claim; one
equation per way of liquidating (`Leaves`) says that debt and collateral split into offset,
redistribution, compensation and surplus without a rest. `RedemptionLedger` has `RewardsTaken` for the
rewards applied along the walk, `RedeemedClaim`, and `ETokensPooled`. `RunOverKeepsLedger` and
`RedeemAlongKeepsLedger` carry them along any path, `SettleKeepsLedger` and
`SettleRedemptionKeepsLedger` bring them back to the state. The three properties of closed owners follow from the claims,
with lemmas about what is drawn from each collateral (`DrawnIsWorth`, `SplitIsPart`, `DrawnIsPart`).

*Debt rewards.* The same promise for debts is kept only from states with `RewardsSeen`: `HasPendingRewards`
compares the sums of the collaterals, and a trove of which it says no is adjusted without its debt being applied
(section 5). One pool holds the debt of all collaterals, so the invariant is `DebtPromisesKept`: that debt can be *split* among the
collaterals so that each part covers the promises of its own. A redistribution adds `Prorated` to the split, applying
rewards takes the trove's parts out of it. `[]RewardsSeen` is a hypothesis of the theorems that use this, and TLC finds
it to hold in the four runs of ERD that pass.

*The hypothesis of `LiquidationIsCapped`.* With an MCR of 100% the branch for troves of no more
than 100% comes before the capped one, and redistributes all of a trove that is exactly there. The default MCR is 110%, but
`setMCR` (CollateralManager.sol:765) has no bound of its own.

*Ratios before and after.* A guard of `BorrowerOperations` judges a TCR and an ICR that it predicts; what counts is the
ratio after the stakes, rewards and balances are updated. One lemma per call (`OpenTroveAndMode`, `AdjustTroveAndMode`,
`CloseTroveAndMode`) shows that the system's debt and collateral end up as predicted, so that the TCR reaches the CCR
(`RatioReaches`). Opening the first trove is a case of its own: there is no debt yet, and the trove's own ICR is the TCR
(`OneTroveSystem`). That settling rewards moves debt between the pools without changing the sum needs that the DefaultPool has as
much as is pending, since its decrease saturates: hence `[]DebtRewardsCovered`. A redemption is followed along its walk: in
`RedemptionSpares(acc)`, every trove still open is either not yet met (`NotMet`), with its debt and rewards as before the call, or
spared (`SparedByWalk`): what was drawn from it is worth no more than the debt paid off (`RemainsAreWorth`), which from a
ratio of one on does not lower the ratio (`RatioOfSpared`). A partial redemption also computes the
stake anew, and a stake rounded up would be promised more of the debt that the trove does not see: hence `[]RewardsSeen`.

*Sums.* `Induction` proves what the proofs need of the community modules' `SumFunctionOnSet`: it is defined by a
recursive function on subsets, which is shown to exist by induction on the size of the set; then that a sum
splits, grows with its members, can be scaled, and changes by as much as one member.

*What the proof of `TypeOK` found.* `PayableToUsers` first put no limit on WETH, which goes out as ETH
without the check for a balance left behind. The step could not be proved until the guard
asked for `before[c] >= amounts[c]`, as the withdrawal in `_sendETH` of `ActivePool.sol` does.

**StabilityPoolProofs** proves for any users, collaterals, precision and scale
factor with `SCALE_FACTOR^2 <= DECIMAL_PRECISION`:

| Theorem | Statement |
|---|---|
| `TypesAlwaysKept` | `Spec => []TypeOK`; above all `P` is never zero and sums never fall |
| `SnapshotsNeverAhead` | `Spec => []SnapshotsNotAhead` |
| `OffsetsOnlyConvert` | `Spec => OffsetOnlyConverts` |
| `DepositsAlwaysCovered` | `Spec => []DepositsCovered` |
| `OthersAreUntouched` | `Spec => OthersUntouched` |
| `GainsAlwaysNearlyCovered` | `Spec /\ DustRecorded => []GainsNearlyCovered` |
| `GainsCoveredButForDust` | `Spec /\ DustRecorded => []((\A c : dust[c] < DECIMAL_PRECISION) => GainsCovered)` |

The inductive invariant is `TypeOK /\ NoneAhead`. `SnapshotsNotAhead` is not inductive: that
a deposit has not outgrown its initial value is about a quotient of two values of `P`,
and an offset that rescales multiplies one of them. `NoneAhead` has `NotRisen` instead: `P`
brought to the scale of the snapshot is not above the snapshot's `P`. That is kept by an
offset (`ProductFalls`), where rescaling multiplies both sides, and it implies the bound
(`NoneOutgrown`). The sums never fall because gains per unit are not negative, which needs that the
error fed back is not above what it came from (`OffsetFine`). `OffsetsOnlyConvert` compares the quotients
before and after in each case of scale and epoch (`CompoundedFalls`, `GainsGrow`).

`DepositsCovered` adds up quotients with different divisors, the `P` of each snapshot, and is not inductive
either: what an offset does to a floored quotient depends on the fraction that was cut off. Its invariant
`Coverage` brings the deposits to a common denominator: there are a `K` and a number `w[u]` of shares for each
depositor, so that an uncapped deposit is at most `w[u] * P / K` and

    (sum of w) * P * DECIMAL_PRECISION <= K * (totalUSDEDeposits * DECIMAL_PRECISION - lastUSDELossError + DepositCap).

A deposit or withdrawal multiplies `K` and all shares by `P`, so that the caller's new value becomes a whole number
of shares (`CallCovers`). An offset with factor `f = DECIMAL_PRECISION - loss` leaves
`total' * DECIMAL_PRECISION - error' = total * f - error`, while `P` falls by `f / DECIMAL_PRECISION` or more; the inequality
survives because no error exceeds `DepositCap` (`LossBounded`, `OffsetArithmetic`, `OffsetCovers`). A rescaling
multiplies `K`, an emptied pool starts with no shares. `DepositCap` is the model's bound on the pool, of any size.

`GainsCovered` fails by dust in the code, so the two theorems on gains say by how much. `dust` is a history variable,
declared beside them: `DustRecorded` lets every offset add `OffsetDust` to it and nothing else change it, which restricts
no behaviour. In parts of `1 / DECIMAL_PRECISION` of a unit of collateral, `OffsetDust` is two for the divisions of the
sum and of the error, and `(coll * DECIMAL_PRECISION + error) * DepositCap \div (DECIMAL_PRECISION * total)` for the
excess of the deposits that `Coverage` allows, which takes its share of every gain. The gains of all depositors exceed the
balance by no more than `dust[c] / DECIMAL_PRECISION` units, and while the dust is less than one unit they do not exceed it.
The invariant `GainsBacked` brings the claims to a common denominator as `Coverage` does the deposits: there are an `L` and
numbers `v[u]`, so that a claim before its divisions is at most `v[u] / L` parts, and the sum of `v` is at most
`L * (balance * DECIMAL_PRECISION - error + dust)`. An offset adds to each claim in proportion to the shares `w[u]` of
`Coverage` (`ClaimGrows`), and what it adds in all is what it brings, but for the dust (`PromiseArithmetic`, `OffsetBacks`).
A depositor's call pays the floored gain, no more than `v[u] / L` parts, and leaves no claim, because the sums of the scale
after the current one are still empty (`LaterSumsEmpty`, `FreshClaim`, `CallBacks`).

**PriceFeedProofs** proves for any answers, limits, timeout and digits, more than `TARGET_DIGITS` or fewer, `TypesAlwaysKept`
(`Spec => []TypeOK`: a price stored is always the scaled answer of one of the oracles), `OnlyGoodPricesStored`
(`Spec => OnlyGoodPrices`) and `DistrustKept` (`Spec => DistrustUntilAgreement`). `ZeroTakenUnconfirmed` says where a price of
0, which an answer with too many digits may scale to, can come from if a change by 100% is above the limit (the code's is 50%): a
fetch replaces another price by it only in `usingTellorChainlinkFrozen` when Chainlink is back and Tellor is broken
(PriceFeed.sol:331), where the code compares Chainlink with nothing; `SetAddresses` may store it too. Each
of the five cases of `fetchPrice` is shown to have one of a few outcomes (`Outcome`); the
theorems follow from those.

**CollateralManagerProofs** proves for any number of collaterals:

| Theorem | Statement |
|---|---|
| `IndicesAlwaysAgree` | `Spec => []IndicesAgree` |
| `OrderOfOthersKept` | `Spec => OthersKeepOrder` |
| `OnlyLivePricesStored` | `Spec => OnlyLivePrices` |

`Agree(support, indices, S, n, free)` says that an array of `n` places and the indices of the
collaterals in `S` are each other's inverse, but for the place `free`. A swap of
neighbours keeps it (`SwapKeepsAgreement`), and the swaps of `removeCollateral` move the free
place on (`ShiftKeepsAgreement`); neither changes the order of the others. The loops are
recursive functions, which first have to be shown to exist (`SwapsExist`, `ShiftsExist`), and
carry the three facts along by `SetInduction` (`MovedPlaces`, `ShiftedPlaces`).

**RatesProofs** proves for any owners, rates, unit and clock:

| Theorem | Statement |
|---|---|
| `TypesAlwaysKept` | `Spec => []TypeOK` |
| `DebtsClearExactly` | `Spec => []ClearsExactly` |
| `OthersAlwaysOweTheSame` | `Spec => OthersOweTheSame` |
| `SupplyAlwaysMatches` | `Spec => SupplyMatchesDebt` |
| `RateAlwaysDecays` | `Spec => []DecaysInStep` |

The index is never below one, and from one on the rounding of `RayDiv` undoes that of `RayMul`
(`RoundTrip`). For the others, every step is shown to be a call that brings the index up to the present
(`Called`), a second or nothing (`StepsAreCalls`). After a call no time has passed, so that the factor of a
balance is the index just written (`IndexAfterCall`); before it, it was the same number, unless there is no
debt at all and the index was left alone. Then nobody owes anything, because the total is the sum of the shares: that
invariant, `SharesAddUp`, is what `OthersOweTheSame` needs besides the types. `SupplyMatchesDebt` speaks of the end of a
call only; what is inductive is `Balanced`, which takes the debt at the index of the last call and so does
not move with the clock. The interest a call mints is what the new index adds to the debt, exactly, and what
remains is one amount turned into shares and back: `ShareError` bounds its rounding by one and the
index, `GapStep` adds it up.

`DecaysInStep` compares the base rate with powers that the code rounds differently from call to call, so that both
are compared with the decay without rounding: `IsDecay(q, n)` is a function of whole numbers with `q[i + 1] / q[i]` exactly the decay
factor (it exists for any factor and number of minutes, `DecayExists`), for which `q[i] * q[j] = q[i + j] * q[0]`
(`DecaysMultiply`). The loop of `_decPow` keeps `a * n + b = minutes`, where `x` is what `a` minutes leave, off by `a - 1` halves of a
unit, and `y` what `b` minutes leave, off by `b` halves (`InRounds`, `SquaredKeeps`); so a power is off by half a unit for each minute
(`DecPowIsPart`). The inductive invariant is `DecayHistory`: there is a number `c` of minutes counted between the last
redemption and `lastFeeOperationTime`, none twice but for the one the redemption fell into and at least every second
(`Counted`), and the stored rate is what `c` minutes leave of the redemption's, off by `c` halves
and one unit for each call (`Tracks`). Borrowing adds the whole minutes that have passed (`CountedMinutes`,
`TracksDecayed`), a redemption starts anew.

*Assumptions of these.* `FeedAssumption`, `ScalingAssumption` (ten to the power of a natural number, the difference
of the digits either way, is a positive number: the prover has no facts of exponentiation, TLC evaluates it),
`SortedTrovesAssumption`, `PriceFeedAssumption`, `CollateralAssumption`, `StabilityPoolAssumption`, and those of
`TroveDebt`, `BaseRate` and `Rates`.

*What is only model-checked.*

* `RewardsCovered` and `USDEBacked` without the hypothesis of `RewardsSeen`: in the code they fail by dust.
* `BorrowersKeepNormalMode`, `BorrowersHelpRecovery` and `RedemptionSparesTheRest` without their hypotheses, which are those of
  dust again; and `CollateralHeld` as far as several collaterals keep it.
* `GainsCovered` of `StabilityPool` for its own sake; with more than a unit of dust it may fail (section 3).
* Liveness: `TrustReturns` is fairness's and so TLC's.

## 5. Where documents and code part

Three are runs of `PROJECT.json` that end in a counterexample.

* `oracle_down`: when calls to the Chainlink aggregator revert, the current response is
  the zero response, and `_getPrevChainlinkResponse` (PriceFeed.sol:681) computes
  `_currentRoundId - 1` of a round id of 0 outside its `try`. Under Solidity 0.8.18
  that subtraction is checked, so `fetchPrice` reverts and Tellor is never used. The
  comment at PriceFeed.sol:667 and the skipped test at test/PriceFeedTest.js:387 expect
  the switch to Tellor. `StETHOracle.sol` has the same line, and `priceUpdate`
  (CollateralManager.sol:276) asks every collateral's oracle, so that an outage of one feed
  stops every call that needs prices.
* `readded`: `_updateDepositAndSnapshots` (StabilityPool.sol:1201) takes snapshots of the
  supported collaterals only. A deposit made while a collateral is removed has, once that
  is added again, a gain from offsets before the deposit; the comment at
  StabilityPool.sol:807 says the gain is that since the last snapshots.
* `drained_collateral`: the comment at TroveManagerRedemptions.sol:274 sets a drained
  collateral to zero; `resetEToken` (CollateralManager.sol:472) skips zero amounts, so the
  ETokens stay.

Ten more promises are refuted by configurations beside the runs; `tlc -config X.cfg M` with
the module named before the underscore shows each.

* `MCERD_price_order` (`PriceKeepsOrder`): README.md:368 of the repository says that the list stays sorted as
  the price moves. That needs one price; with two collaterals a trove of the one
  overtakes a trove of the other.
* `MCERD_withdrawals` (`WithdrawalsSuspended`): README.md:575 says withdrawals from the StabilityPool stop while
  any trove is below 110%. The code looks at the tail of the list, whose recorded
  order is not the current one.
* `MCERD_redeemed_icr` (`RedeemsAboveMCR`): README.md:716 says only troves at or above the MCR are redeemed
  from. The loop judges the first; the ones above it in the list may be worse.
* `MCERD_stake_assertion` (`StakeAssertion`): the comment at TroveManager.sol:703 argues that the stakes
  snapshot is nonzero when the collateral snapshot is. With several collaterals, the last
  stake in one of them can be closed while some of it stays in the pools; every call
  that computes a stake reverts from then on.
* `MCERD_redistributed` (`Redistributed`): README.md:147 says that all debt is redistributed to active troves.
  When nobody else has a stake in the collateral, its share goes to the DefaultPool
  and stays there.
* `MCERD_unseen_rewards` (`RewardsSeen`): the comment at TroveManager.sol:572 says a trove has pending rewards if its
  snapshot is less than the current sums. `hasPendingRewards` compares those of the collaterals only. When a
  redistributed collateral is so small that its amount per unit staked rounds to zero, but its debt does not (it takes less
  than one part in 10^18 of the stakes), the trove's rewards of debt are not seen. A later adjustment raises its stake while the
  snapshot stays behind, and more debt is pending to it than the DefaultPool has; `RewardsCovered` and `USDEBacked` then
  fail. In the code it is a matter of dust; the model's precision of 100 makes it visible.
* `MCStabilityPool_whole_withdrawal` (`WholeWithdrawal`): the comments at StabilityPool.sol:391 and :996 let
  a depositor withdraw everything and make a front end's stake the sum of its deposits. The stake is floored
  whenever one depositor calls, the deposits are not; the stake may come to lie below a deposit, and
  subtracting the withdrawal from it (StabilityPool.sol:419) reverts.
* `MCStabilityPool_error` (`ErrorFavoursPool`): the comment at StabilityPool.sol:664 says that rounding the loss up
  ensures that the error in any compounded deposit favours the pool. It does so for one offset; the next one subtracts
  the error from its loss (StabilityPool.sol:662), and deposits made of several offsets come to exceed the pool: two
  deposits of 20 become 5 each in a pool of 9. `DepositsAlwaysCovered` bounds the excess.
* `MCStabilityPool_large_gains` (`GainsCovered`): the gain per unit is the collateral over the pool's total, so that
  deposits which exceed that total gain more than there is: at full precision about a wei for each 10^18 wei of collateral.
  `GainsAlwaysNearlyCovered` bounds it.
* `MCCollateralManager_front_oracle` (`AllPricesUpdated`): README.md:330 gives every collateral but ETH an
  oracle of its own. `priceUpdate` (CollateralManager.sol:274) starts at index 1, so once
  the owner moves another collateral to the front, its price is not updated.

## 6. Not modelled

* Owner's changes of collaterals, MCR, CCR, `MIN_NET_DEBT`, ratios, floors and caps *under open troves*:
  ERD has a fixed set of collaterals, `CollateralManager` has no troves. The code asks
  only that a collateral be paused before it is removed; that no trove still holds some of it is
  left to the owner.
* One model with troves, deposits, time and oracles together (see section 2). The
  interfaces are kept wide instead: an offset passes any debt and collateral, a price is any of several at
  any time.
* In `TroveManagerRedemptions` the bootstrap period; in `TroveInterestRateStrategy` the curve, of which `Rates`
  takes any value from a set.
* ActivePool's recorded debt does not follow interest, and `decreaseUSDEDebt` saturates;
  ERD has no interest, and `Rates` no ActivePool.
* `HintHelpers` and `MultiTroveGetter` (views), the proxy scripts (they forward calls
  that are modelled), treasury, incentive and issuance contracts (owner withdrawals, or a
  constant 0), token metadata, allowances and permits, test contracts, deployment scripts.
