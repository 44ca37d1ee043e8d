------------------------- MODULE CollateralManager --------------------------
(***************************************************************************)
(* CollateralManager.sol, the array of supported collaterals in the order  *)
(* of their priority: adding, pausing, removing and reordering them; and   *)
(* the update of their prices, each by an oracle of its own                *)
(* (StETHOracle.sol) on a Chainlink feed of the collateral against ETH.    *)
(* WETH has no feed here: its price is PriceFeed's.                        *)
(***************************************************************************)
EXTENDS ChainlinkFeed, Sequences, SequencesExt

CONSTANTS
  Collaterals,
  WETH,
  Volatile,          \* bound: the collaterals whose feed changes
  MaxCollaterals     \* 15

ASSUME CollateralAssumption ==
  /\ WETH \in Collaterals /\ Volatile \subseteq Collaterals \ {WETH}
  /\ MaxCollaterals \in Nat \ {0}

VARIABLES
  collateralSupport, collateralsCount,
  collStatus, index, \* collateralParams
  feed,              \* of each collateral but WETH
  oracleStatus, lastGoodPrice

paramVars  == <<collateralSupport, collateralsCount, collStatus, index>>
oracleVars == <<oracleStatus, lastGoodPrice>>
vars == <<paramVars, feed, oracleVars>>

Priced == Collaterals \ {WETH}
CollStatuses == {"nonSupport", "active", "pause"}
OracleStatuses == {"chainlinkWorking", "chainlinkFrozen", "chainlinkBroken"}

Supported(c) == collStatus[c] # "nonSupport"
At(i) == collateralSupport[i + 1]

-----------------------------------------------------------------------------
(* The owner.                                                              *)

AddCollateral(c) ==
  /\ ~Supported(c)
  /\ collateralsCount < MaxCollaterals
  /\ collStatus' = [collStatus EXCEPT ![c] = "active"]
  /\ index' = [index EXCEPT ![c] = collateralsCount]
  /\ collateralSupport' = Append(collateralSupport, c)
  /\ collateralsCount' = collateralsCount + 1
  /\ UNCHANGED <<feed, oracleVars>>

\* The array and the indices together, as the loops change them.
Book == [support |-> collateralSupport, index |-> index]

SwappedPlaces(support, x, y) ==
  [support EXCEPT ![x + 1] = support[y + 1], ![y + 1] = support[x + 1]]

\* Mutant: the one that made room keeps its index.
Swapped_OneIndex(book, x, y) ==
  [support |-> SwappedPlaces(book.support, x, y),
   index |-> [book.index EXCEPT ![book.support[x + 1]] = y]]

Swapped(book, x, y) ==
  [support |-> SwappedPlaces(book.support, x, y),
   index |-> [book.index EXCEPT ![book.support[x + 1]] = y, ![book.support[y + 1]] = x]]

\* Only the one that moves up gets a new index.
ShiftedOne(book, x) ==
  [support |-> SwappedPlaces(book.support, x, x + 1),
   index |-> [book.index EXCEPT ![book.support[x + 2]] = x]]

\* removeCollateral's loop: swap to the end.
ShiftedOut(from) ==
  LET distance == collateralsCount - 1 - from
      shift[n \in 0..distance] ==
        IF n = 0 THEN Book ELSE ShiftedOne(shift[n - 1], from + (n - 1))
  IN  shift[distance]

RemoveCollateral(c) ==
  /\ Supported(c) /\ collStatus[c] # "active"
  /\ collateralsCount # 1
  /\ LET book == ShiftedOut(index[c])
     IN  /\ collateralSupport' = Front(book.support)
         /\ index' = [book.index EXCEPT ![c] = 0]
  /\ collateralsCount' = collateralsCount - 1
  /\ collStatus' = [collStatus EXCEPT ![c] = "nonSupport"]
  /\ UNCHANGED <<feed, oracleVars>>

\* Mutant: one swap instead of a walk.
Moved_Directly(from, to) == Swapped(Book, from, to)

\* Where the collateral is after n swaps.
OnTheWay(from, to, n) == IF to < from THEN from - n ELSE from + n

\* setCollateralPriority's loops: _up or _down, one place at a time.
Moved(from, to) ==
  LET distance == MaxOf(from - to, to - from)
      swaps[n \in 0..distance] ==
        IF n = 0 THEN Book
        ELSE Swapped(swaps[n - 1], OnTheWay(from, to, n - 1), OnTheWay(from, to, n))
  IN  swaps[distance]

SetCollateralPriority(c, newIndex) ==
  /\ collStatus[c] = "active"
  /\ newIndex # index[c] /\ newIndex < collateralsCount
  /\ LET book == Moved(index[c], newIndex)
     IN  collateralSupport' = book.support /\ index' = book.index
  /\ UNCHANGED <<collateralsCount, collStatus, feed, oracleVars>>

SetStatus(c, status) ==
  /\ Supported(c)
  /\ collStatus' = [collStatus EXCEPT ![c] = status]
  /\ UNCHANGED <<collateralSupport, collateralsCount, index, feed, oracleVars>>

-----------------------------------------------------------------------------
(* Prices.                                                                 *)

\* Mutant: a frozen feed's answer is taken.
Judged_FrozenTaken(f) ==
  IF Health(f) = "broken" \/ PriceChangeAboveMax(f) THEN "chainlinkBroken" ELSE "chainlinkWorking"

\* StETHOracle.fetchPrice.
Judged(f) ==
  CASE Health(f) = "broken" -> "chainlinkBroken"
    [] Health(f) = "frozen" -> "chainlinkFrozen"
    [] Health(f) = "live" -> IF PriceChangeAboveMax(f) THEN "chainlinkBroken" ELSE "chainlinkWorking"

Fetched(c) ==
  IF Judged(feed[c]) = "chainlinkWorking" THEN Scaled(feed[c].answer) ELSE lastGoodPrice[c]

Fetch(fetched) ==
  /\ \A c \in fetched : /\ PreviousRoundComputable(feed[c])
                        /\ Health(feed[c]) = "live" => ChangeComputable(feed[c])
  /\ oracleStatus' = [c \in Priced |-> IF c \in fetched THEN Judged(feed[c]) ELSE oracleStatus[c]]
  /\ lastGoodPrice' = [c \in Priced |-> IF c \in fetched THEN Fetched(c) ELSE lastGoodPrice[c]]
  /\ UNCHANGED <<paramVars, feed>>

\* priceUpdate, which every call that needs prices starts with: from index 1 on.
PriceUpdate ==
  /\ collateralsCount >= 2
  /\ Fetch({At(i) : i \in 1..collateralsCount - 1} \ {WETH})

\* Anyone may call an oracle.
FetchPrice(c) == Fetch({c})

Round(c, answer) ==
  /\ feed' = [feed EXCEPT ![c] = WithRound(@, answer)]
  /\ UNCHANGED <<paramVars, oracleVars>>

Reachable(c, reachable) ==
  /\ feed' = [feed EXCEPT ![c].reachable = reachable]
  /\ UNCHANGED <<paramVars, oracleVars>>

Tick ==
  /\ feed' = [c \in Priced |-> IF c \in Volatile THEN [feed[c] EXCEPT !.age = Older(@)] ELSE feed[c]]
  /\ UNCHANGED <<paramVars, oracleVars>>

-----------------------------------------------------------------------------
Init ==
  /\ collateralSupport = <<>> /\ collateralsCount = 0
  /\ collStatus = [c \in Collaterals |-> "nonSupport"]
  /\ index = [c \in Collaterals |-> 0]
  /\ \E answer \in Answers :
       /\ feed = [c \in Priced |-> NewFeed(answer)]
       /\ lastGoodPrice = [c \in Priced |-> Scaled(answer)]
  /\ oracleStatus = [c \in Priced |-> "chainlinkWorking"]

Owner ==
  \E c \in Collaterals :
    \/ AddCollateral(c)
    \/ RemoveCollateral(c)
    \/ \E newIndex \in 0..MaxCollaterals : SetCollateralPriority(c, newIndex)
    \/ \E status \in {"active", "pause"} : SetStatus(c, status)

Next ==
  \/ Owner
  \/ PriceUpdate
  \/ \E c \in Priced : FetchPrice(c)
  \/ \E c \in Volatile : \/ \E answer \in Answers \cup {Bad} : Round(c, answer)
                         \/ \E reachable \in BOOLEAN : Reachable(c, reachable)
  \/ Tick

Spec == Init /\ [][Next]_vars

-----------------------------------------------------------------------------
(* Properties.                                                             *)

\* The types of the state.
TypeOK ==
  /\ collateralSupport \in Seq(Collaterals) /\ collateralsCount \in 0..MaxCollaterals
  /\ collStatus \in [Collaterals -> CollStatuses]
  /\ index \in [Collaterals -> 0..MaxCollaterals]
  /\ feed \in [Priced -> Feeds]
  /\ oracleStatus \in [Priced -> OracleStatuses] /\ lastGoodPrice \in [Priced -> ScaledAnswers]

\* The state is well typed, and the array, the counter, the indices and the
\* statuses agree after any sequence of additions, removals and moves: an
\* index that is wrong lets a removal or a move take another collateral.
IndicesAgree ==
  /\ TypeOK
  /\ Len(collateralSupport) = collateralsCount
  /\ \A i \in 0..collateralsCount - 1 : Supported(At(i)) /\ index[At(i)] = i
  /\ \A c \in Collaterals : Supported(c) => index[c] < collateralsCount /\ At(index[c]) = c

\* A collateral moved gets the place asked for, and all others keep their
\* order among each other, which decides what is taken first from a trove.
OthersKeepOrder ==
  [][\A c \in Collaterals :
       /\ \A newIndex \in 0..MaxCollaterals : SetCollateralPriority(c, newIndex) => index'[c] = newIndex
       /\ (RemoveCollateral(c) \/ \E newIndex \in 0..MaxCollaterals : SetCollateralPriority(c, newIndex)) =>
            \A a, b \in {At(i) : i \in 0..collateralsCount - 1} \ {c} :
              index[a] < index[b] => index'[a] < index'[b]]_vars

\* A price is replaced only by the answer of a feed that is reachable, not
\* broken, not frozen and did not jump, and is marked as working only then.
OnlyLivePrices ==
  [][\A c \in Priced :
       lastGoodPrice'[c] # lastGoodPrice[c] \/
         (oracleStatus'[c] = "chainlinkWorking" /\ oracleStatus[c] # "chainlinkWorking") =>
         /\ feed[c].reachable /\ feed[c].age <= TIMEOUT
         /\ ChangeComputable(feed[c]) /\ ~PriceChangeAboveMax(feed[c])
         /\ lastGoodPrice'[c] = Scaled(feed[c].answer)]_vars

\* "Except for Ether, other collaterals have their own oracles.  When the
\* system is running, it will go to chainlink to obtain the price" (README of
\* the repository): the update leaves no supported collateral at an old
\* price while its feed is live.
AllPricesUpdated ==
  [][PriceUpdate =>
       \A c \in Priced : Supported(c) /\ Judged(feed[c]) = "chainlinkWorking"
                           => lastGoodPrice'[c] = Scaled(feed[c].answer)]_vars
=============================================================================
