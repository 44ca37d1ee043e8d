----------------------------- MODULE PriceFeed ------------------------------
(***************************************************************************)
(* PriceFeed.sol: the price of ETH from Chainlink or, when Chainlink fails,*)
(* from Tellor.  Five statuses remember which oracle is trusted; each call *)
(* of fetchPrice judges both oracles, may change the status and stores a   *)
(* price or keeps the last good one.                                       *)
(***************************************************************************)
EXTENDS ChainlinkFeed

CONSTANTS
  TellorValues,      \* the positive values Tellor may report
  TELLOR_DIGITS,
  MAX_PRICE_DIFFERENCE_BETWEEN_ORACLES

ASSUME PriceFeedAssumption ==
  /\ TellorValues \subseteq Nat \ {0}
  /\ TELLOR_DIGITS \in Nat /\ TELLOR_DIGITS <= TARGET_DIGITS
  /\ MAX_PRICE_DIFFERENCE_BETWEEN_ORACLES \in Nat
  /\ 10 ^ (TARGET_DIGITS - TELLOR_DIGITS) \in Nat \ {0}

VARIABLES
  chainlink,         \* the aggregator, see ChainlinkFeed
  tellor,            \* [value, age]; 0 for every response _tellorIsBroken rejects
  status,
  lastGoodPrice

oracles == <<chainlink, tellor>>
vars == <<oracles, status, lastGoodPrice>>

Statuses == {"chainlinkWorking", "usingTellorChainlinkUntrusted", "bothOraclesUntrusted",
             "usingTellorChainlinkFrozen", "usingChainlinkTellorUntrusted"}

ChainlinkPrice == Scaled(chainlink.answer)
TellorPrice == tellor.value * 10 ^ (TARGET_DIGITS - TELLOR_DIGITS)

Chainlink == Health(chainlink)

Tellor ==
  CASE tellor.value = Bad -> "broken"
    [] tellor.value # Bad /\ tellor.age > TIMEOUT -> "frozen"
    [] OTHER -> "live"

\* _bothOraclesSimilarPrice divides by the smaller price, and reverts where that is 0.
DifferenceComputable == MinOf(ChainlinkPrice, TellorPrice) # 0

Similar ==
  LET larger == MaxOf(ChainlinkPrice, TellorPrice)
      smaller == MinOf(ChainlinkPrice, TellorPrice)
  IN  /\ DifferenceComputable
      /\ ((larger - smaller) * DECIMAL_PRECISION) \div smaller
           <= MAX_PRICE_DIFFERENCE_BETWEEN_ORACLES

\* Mutant: the prices need not be similar.
BothAgree_Live == Chainlink = "live" /\ Tellor = "live"

\* _bothOraclesLiveAndUnbrokenAndSimilarPrice, and where it does not revert.
BothAgree == Chainlink = "live" /\ Tellor = "live" /\ Similar
AgreementComputable == Chainlink = "live" /\ Tellor = "live" => DifferenceComputable

-----------------------------------------------------------------------------
(* fetchPrice: the outcomes, and one case for each status.  A call that has*)
(* to divide by a price of 0 reverts.                                      *)

KeepPrice(s)    == status' = s /\ UNCHANGED lastGoodPrice
UseChainlink(s) == status' = s /\ lastGoodPrice' = ChainlinkPrice
\* Mutant: Tellor's value is stored as it comes.
UseTellor_Unscaled(s) == status' = s /\ lastGoodPrice' = tellor.value

UseTellor(s)    == status' = s /\ lastGoodPrice' = TellorPrice

\* A frozen Tellor is turned to, but its price is not taken.
TurnToTellor(s, ifBroken) ==
  CASE Tellor = "broken" -> KeepPrice(ifBroken)
    [] Tellor = "frozen" -> KeepPrice(s)
    [] Tellor = "live"   -> UseTellor(s)

\* Mutant: a large change is not looked at.
FetchFromChainlink_AnyChange ==
  CASE Chainlink = "broken" -> TurnToTellor("usingTellorChainlinkUntrusted", "bothOraclesUntrusted")
    [] Chainlink = "frozen" -> TurnToTellor("usingTellorChainlinkFrozen", "usingChainlinkTellorUntrusted")
    [] Chainlink = "live" ->
         UseChainlink(IF Tellor = "broken" THEN "usingChainlinkTellorUntrusted" ELSE "chainlinkWorking")

\* Case 1, chainlinkWorking.
FetchFromChainlink ==
  CASE Chainlink = "broken" -> TurnToTellor("usingTellorChainlinkUntrusted", "bothOraclesUntrusted")
    [] Chainlink = "frozen" -> TurnToTellor("usingTellorChainlinkFrozen", "usingChainlinkTellorUntrusted")
    [] Chainlink = "live" ->
         /\ ChangeComputable(chainlink)
         /\ IF PriceChangeAboveMax(chainlink)
              THEN /\ AgreementComputable
                   /\ IF BothAgree THEN UseChainlink("chainlinkWorking")
                      ELSE TurnToTellor("usingTellorChainlinkUntrusted", "bothOraclesUntrusted")
              ELSE UseChainlink(IF Tellor = "broken" THEN "usingChainlinkTellorUntrusted"
                                                     ELSE "chainlinkWorking")

\* Case 2, usingTellorChainlinkUntrusted.
FetchFromTellor ==
  /\ AgreementComputable
  /\ IF BothAgree THEN UseChainlink("chainlinkWorking")
     ELSE TurnToTellor("usingTellorChainlinkUntrusted", "bothOraclesUntrusted")

\* Mutant: both oracles stay untrusted for good.
FetchFromNeither_ForGood == KeepPrice("bothOraclesUntrusted")

\* Case 3, bothOraclesUntrusted.
FetchFromNeither ==
  /\ AgreementComputable
  /\ IF BothAgree THEN UseChainlink("chainlinkWorking") ELSE KeepPrice("bothOraclesUntrusted")

\* Case 4, usingTellorChainlinkFrozen.
FetchWhileFrozen ==
  CASE Chainlink = "broken" -> TurnToTellor("usingTellorChainlinkUntrusted", "bothOraclesUntrusted")
    [] Chainlink = "frozen" -> TurnToTellor("usingTellorChainlinkFrozen", "usingChainlinkTellorUntrusted")
    [] Chainlink = "live" ->
         /\ AgreementComputable
         /\ CASE Tellor = "broken" -> UseChainlink("usingChainlinkTellorUntrusted")
              [] Tellor = "frozen" -> KeepPrice("usingTellorChainlinkFrozen")
              [] Tellor = "live" /\ Similar -> UseChainlink("chainlinkWorking")
              [] Tellor = "live" /\ ~Similar -> UseTellor("usingTellorChainlinkUntrusted")

\* Case 5, usingChainlinkTellorUntrusted.
FetchFromChainlinkOnly ==
  CASE Chainlink = "broken" -> KeepPrice("bothOraclesUntrusted")
    [] Chainlink = "frozen" -> KeepPrice("usingChainlinkTellorUntrusted")
    [] Chainlink = "live" ->
         /\ AgreementComputable /\ (BothAgree \/ ChangeComputable(chainlink))
         /\ CASE BothAgree -> UseChainlink("chainlinkWorking")
              [] ~BothAgree /\ PriceChangeAboveMax(chainlink) -> KeepPrice("bothOraclesUntrusted")
              [] OTHER -> UseChainlink("usingChainlinkTellorUntrusted")

FetchPrice ==
  /\ PreviousRoundComputable(chainlink)
  /\ CASE status = "chainlinkWorking"              -> FetchFromChainlink
       [] status = "usingTellorChainlinkUntrusted" -> FetchFromTellor
       [] status = "bothOraclesUntrusted"          -> FetchFromNeither
       [] status = "usingTellorChainlinkFrozen"    -> FetchWhileFrozen
       [] status = "usingChainlinkTellorUntrusted" -> FetchFromChainlinkOnly
  /\ UNCHANGED oracles

\* The owner connects the oracles (again).
SetAddresses ==
  /\ PreviousRoundComputable(chainlink) /\ Chainlink = "live"
  /\ UseChainlink("chainlinkWorking")
  /\ UNCHANGED oracles

-----------------------------------------------------------------------------
(* The oracles and time.                                                   *)

ChainlinkRound(answer) ==
  /\ chainlink' = WithRound(chainlink, answer)
  /\ UNCHANGED <<tellor, status, lastGoodPrice>>

ChainlinkReachable(reachable) ==
  /\ chainlink' = [chainlink EXCEPT !.reachable = reachable]
  /\ UNCHANGED <<tellor, status, lastGoodPrice>>

TellorReport(value) ==
  /\ tellor' = [value |-> value, age |-> 0]
  /\ UNCHANGED <<chainlink, status, lastGoodPrice>>

Tick ==
  /\ chainlink' = [chainlink EXCEPT !.age = Older(chainlink.age)]
  /\ tellor' = [tellor EXCEPT !.age = Older(tellor.age)]
  /\ UNCHANGED <<status, lastGoodPrice>>

-----------------------------------------------------------------------------
Init ==
  /\ \E answer \in Answers : chainlink = NewFeed(answer)
  /\ tellor \in [value : TellorValues \cup {Bad}, age : Ages]
  /\ status = "chainlinkWorking"
  /\ lastGoodPrice = ChainlinkPrice

Environment ==
  \/ \E answer \in Answers \cup {Bad} : ChainlinkRound(answer)
  \/ \E reachable \in BOOLEAN : ChainlinkReachable(reachable)
  \/ \E value \in TellorValues \cup {Bad} : TellorReport(value)
  \/ Tick

Next == FetchPrice \/ SetAddresses \/ Environment

\* Anyone may call fetchPrice, and every call that needs a price does.
Spec == Init /\ [][Next]_vars /\ WF_vars(FetchPrice)

-----------------------------------------------------------------------------
(* Properties.                                                             *)

TellorPrices == {value * 10 ^ (TARGET_DIGITS - TELLOR_DIGITS) : value \in TellorValues}

\* The types of the state: a price stored is one that an oracle gave, in the
\* digits of this contract, so it is 0 only where an answer scales to 0.
TypeOK ==
  /\ chainlink \in Feeds
  /\ tellor \in [value : TellorValues \cup {Bad}, age : Ages]
  /\ status \in Statuses
  /\ lastGoodPrice \in ScaledAnswers \cup TellorPrices

\* A new price is the present one of an oracle that is live at that moment.
\* A Chainlink price that jumped since the round before is taken only when a
\* live Tellor reports a similar one; the exceptions are the owner, and a
\* Chainlink that comes back from being frozen to find Tellor broken.
OnlyGoodPrices ==
  [][lastGoodPrice' # lastGoodPrice =>
       \/ Tellor = "live" /\ lastGoodPrice' = TellorPrice
       \/ /\ Chainlink = "live" /\ lastGoodPrice' = ChainlinkPrice
          /\ \/ ChangeComputable(chainlink) /\ ~PriceChangeAboveMax(chainlink)
             \/ Tellor = "live" /\ Similar
             \/ status = "usingTellorChainlinkFrozen" /\ Tellor = "broken"
             \/ SetAddresses]_vars

Distrusted == {"usingTellorChainlinkUntrusted", "bothOraclesUntrusted"}

\* Once Chainlink was found broken, or its price jumped unconfirmed, fetches
\* keep away from it, through any number of further failures, until both
\* oracles are live and within MAX_PRICE_DIFFERENCE_BETWEEN_ORACLES.
DistrustUntilAgreement ==
  [][FetchPrice /\ status \in Distrusted =>
       \/ status' \in Distrusted /\ lastGoodPrice' \in {lastGoodPrice, TellorPrice}
       \/ /\ Chainlink = "live" /\ Tellor = "live"
          /\ LET difference == MaxOf(ChainlinkPrice - TellorPrice, TellorPrice - ChainlinkPrice)
             IN  /\ MinOf(ChainlinkPrice, TellorPrice) # 0
                 /\ (difference * DECIMAL_PRECISION) \div MinOf(ChainlinkPrice, TellorPrice)
                      <= MAX_PRICE_DIFFERENCE_BETWEEN_ORACLES]_vars

\* No status is a trap: if from some time on both oracles are live and agree,
\* the feed ends up with Chainlink, for good, and with Chainlink's price
\* whenever that stands still.
TrustReturns ==
  /\ <>[]BothAgree => <>[](status = "chainlinkWorking")
  /\ \A answer \in Answers :
       <>[](BothAgree /\ chainlink.answer = answer) => <>[](lastGoodPrice = Scaled(answer))

\* "Chainlink broken - latest round call reverted, Tellor working, switch to"
\* Tellor (a skipped test): while calls to Chainlink revert and Tellor is
\* live, the feed does not go on trusting Chainlink.
FallsBackToTellor ==
  (status = "chainlinkWorking" /\ ~chainlink.reachable /\ Tellor = "live")
    ~> (status # "chainlinkWorking" \/ chainlink.reachable \/ Tellor # "live")
=============================================================================
