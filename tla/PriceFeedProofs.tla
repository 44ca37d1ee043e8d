-------------------------- MODULE PriceFeedProofs ---------------------------
(***************************************************************************)
(* The safety properties of PriceFeed, for all prices, bounds and timeouts.*)
(* The types are inductive by themselves; the two action properties follow *)
(* from a summary of what each of the five cases of fetchPrice may do.     *)
(***************************************************************************)
EXTENDS PriceFeed, TLAPS

-----------------------------------------------------------------------------
(* What the verdicts on the oracles mean.                                  *)

LEMMA Verdicts ==
  /\ Chainlink \in {"broken", "frozen", "live"}
  /\ Tellor \in {"broken", "frozen", "live"}
  <1>1. Chainlink \in {"broken", "frozen", "live"} BY DEF Chainlink, Health
  <1>2. Tellor \in {"broken", "frozen", "live"} BY DEF Tellor
  <1> QED BY <1>1, <1>2

\* Scaling down may end at 0, scaling up does not.
LEMMA ScaledIsPrice == ASSUME NEW a \in Nat PROVE Scaled(a) \in Nat
  <1>1. ASSUME NEW k \in Nat, NEW d \in Nat \ {0} PROVE k \div d \in Nat
    BY <1>1, SMT
  <1>2. ASSUME NEW k \in Nat, NEW d \in Nat \ {0} PROVE k * d \in Nat
    BY Z3
  <1>3. CASE CHAINLINK_DIGITS >= TARGET_DIGITS
    <2>1. CHAINLINK_DIGITS - TARGET_DIGITS \in Nat BY <1>3, FeedAssumption
    <2>2. 10 ^ (CHAINLINK_DIGITS - TARGET_DIGITS) \in Nat \ {0}
      BY <2>1, ScalingAssumption
    <2> QED BY <1>1, <1>3, <2>2 DEF Scaled
  <1>4. CASE ~(CHAINLINK_DIGITS >= TARGET_DIGITS)
    <2>1. TARGET_DIGITS - CHAINLINK_DIGITS \in Nat BY <1>4, FeedAssumption
    <2>2. 10 ^ (TARGET_DIGITS - CHAINLINK_DIGITS) \in Nat \ {0}
      BY <2>1, ScalingAssumption
    <2> QED BY <1>2, <1>4, <2>2 DEF Scaled
  <1> QED BY <1>3, <1>4

LEMMA LivePrices ==
  ASSUME TypeOK
  PROVE  /\ Chainlink = "live" =>
              /\ ChainlinkPrice \in ScaledAnswers /\ ChainlinkPrice \in Nat
              /\ Scaled(chainlink.previous) \in Nat
         /\ Tellor = "live" => TellorPrice \in TellorPrices /\ TellorPrice \in Nat \ {0}
  <1>1. ASSUME NEW a \in Nat \ {0}, NEW b \in Nat \ {0} PROVE a * b \in Nat \ {0}
    BY Z3
  <1>2. ASSUME Chainlink = "live"
        PROVE  /\ ChainlinkPrice \in ScaledAnswers /\ ChainlinkPrice \in Nat
               /\ Scaled(chainlink.previous) \in Nat
    <2>1. ~Broken(chainlink) BY <1>2 DEF Chainlink, Health
    <2>2. chainlink.answer \in Answers /\ chainlink.previous \in Answers
      BY <2>1 DEF Broken, TypeOK, Feeds
    <2>3. chainlink.answer \in Nat /\ chainlink.previous \in Nat BY <2>2, FeedAssumption
    <2> QED BY <2>2, <2>3, ScaledIsPrice DEF ChainlinkPrice, ScaledAnswers
  <1>3. ASSUME Tellor = "live"
        PROVE  TellorPrice \in TellorPrices /\ TellorPrice \in Nat \ {0}
    <2>1. tellor.value # Bad BY <1>3 DEF Tellor
    <2>2. tellor.value \in TellorValues BY <2>1 DEF TypeOK
    <2>3. tellor.value \in Nat \ {0} BY <2>2, PriceFeedAssumption
    <2> QED BY <1>1, <2>2, <2>3, PriceFeedAssumption DEF TellorPrice, TellorPrices
  <1> QED BY <1>2, <1>3

-----------------------------------------------------------------------------
(* The outcomes of fetchPrice.                                             *)

\* Why a Chainlink price may be stored.
Confirmed ==
  /\ Chainlink = "live"
  /\ \/ ChangeComputable(chainlink) /\ ~PriceChangeAboveMax(chainlink)
     \/ Tellor = "live" /\ Similar
     \/ status = "usingTellorChainlinkFrozen" /\ Tellor = "broken"

Outcome ==
  \E s \in Statuses :
    \/ KeepPrice(s)
    \/ Tellor = "live" /\ UseTellor(s)
    \/ Confirmed /\ UseChainlink(s)

LEMMA Turned ==
  ASSUME NEW s \in Statuses, NEW t \in Statuses, TurnToTellor(s, t)
  PROVE  Outcome
  BY Verdicts DEF TurnToTellor, Outcome

LEMMA AgreedMeansConfirmed == BothAgree => Confirmed
  BY DEF BothAgree, Confirmed

LEMMA FromChainlink == FetchFromChainlink => Outcome
  <1> SUFFICES ASSUME FetchFromChainlink PROVE Outcome
    OBVIOUS
  <1> USE DEF Statuses
  <1>1. CASE Chainlink = "broken" BY <1>1, Turned DEF FetchFromChainlink
  <1>2. CASE Chainlink = "frozen" BY <1>2, Turned DEF FetchFromChainlink
  <1>3. CASE Chainlink = "live" /\ PriceChangeAboveMax(chainlink)
    <2>1. CASE BothAgree
      BY <1>3, <2>1, AgreedMeansConfirmed DEF FetchFromChainlink, Outcome
    <2>2. CASE ~BothAgree BY <1>3, <2>2, Turned DEF FetchFromChainlink
    <2> QED BY <2>1, <2>2
  <1>4. CASE Chainlink = "live" /\ ~PriceChangeAboveMax(chainlink)
    BY <1>4 DEF FetchFromChainlink, Outcome, Confirmed
  <1> QED BY <1>1, <1>2, <1>3, <1>4, Verdicts

LEMMA FromTellor == FetchFromTellor => Outcome
  BY Turned, AgreedMeansConfirmed DEF FetchFromTellor, Outcome, Statuses

LEMMA FromNeither == FetchFromNeither => Outcome
  BY AgreedMeansConfirmed DEF FetchFromNeither, Outcome, Statuses

LEMMA WhileFrozen ==
  FetchWhileFrozen /\ status = "usingTellorChainlinkFrozen" => Outcome
  <1> SUFFICES ASSUME FetchWhileFrozen, status = "usingTellorChainlinkFrozen" PROVE Outcome
    OBVIOUS
  <1> USE DEF Statuses
  <1>1. CASE Chainlink = "broken" BY <1>1, Turned DEF FetchWhileFrozen
  <1>2. CASE Chainlink = "frozen" BY <1>2, Turned DEF FetchWhileFrozen
  <1>3. CASE Chainlink = "live"
    <2>1. CASE Tellor = "broken"
      BY <1>3, <2>1 DEF FetchWhileFrozen, Outcome, Confirmed
    <2>2. CASE Tellor = "frozen"
      BY <1>3, <2>2 DEF FetchWhileFrozen, Outcome
    <2>3. CASE Tellor = "live" /\ Similar
      BY <1>3, <2>3 DEF FetchWhileFrozen, Outcome, Confirmed
    <2>4. CASE Tellor = "live" /\ ~Similar
      BY <1>3, <2>4 DEF FetchWhileFrozen, Outcome
    <2> QED BY <2>1, <2>2, <2>3, <2>4, Verdicts
  <1> QED BY <1>1, <1>2, <1>3, Verdicts

LEMMA FromChainlinkOnly == FetchFromChainlinkOnly => Outcome
  <1> SUFFICES ASSUME FetchFromChainlinkOnly PROVE Outcome
    OBVIOUS
  <1> USE DEF Statuses
  <1>1. CASE Chainlink = "broken" BY <1>1 DEF FetchFromChainlinkOnly, Outcome
  <1>2. CASE Chainlink = "frozen" BY <1>2 DEF FetchFromChainlinkOnly, Outcome
  <1>3. CASE Chainlink = "live"
    <2>1. CASE BothAgree
      BY <1>3, <2>1, AgreedMeansConfirmed DEF FetchFromChainlinkOnly, Outcome
    <2>2. CASE ~BothAgree /\ PriceChangeAboveMax(chainlink)
      BY <1>3, <2>2 DEF FetchFromChainlinkOnly, Outcome
    <2>3. CASE ~BothAgree /\ ~PriceChangeAboveMax(chainlink)
      BY <1>3, <2>3 DEF FetchFromChainlinkOnly, Outcome, Confirmed
    <2> QED BY <2>1, <2>2, <2>3
  <1> QED BY <1>1, <1>2, <1>3, Verdicts

LEMMA Fetched ==
  ASSUME TypeOK, FetchPrice
  PROVE  Outcome /\ UNCHANGED oracles
  <1>1. CASE status = "chainlinkWorking" BY <1>1, FromChainlink DEF FetchPrice
  <1>2. CASE status = "usingTellorChainlinkUntrusted" BY <1>2, FromTellor DEF FetchPrice
  <1>3. CASE status = "bothOraclesUntrusted" BY <1>3, FromNeither DEF FetchPrice
  <1>4. CASE status = "usingTellorChainlinkFrozen" BY <1>4, WhileFrozen DEF FetchPrice
  <1>5. CASE status = "usingChainlinkTellorUntrusted" BY <1>5, FromChainlinkOnly DEF FetchPrice
  <1> QED BY <1>1, <1>2, <1>3, <1>4, <1>5 DEF TypeOK, Statuses, FetchPrice

-----------------------------------------------------------------------------
(* The types.                                                              *)

LEMMA PricesStay ==
  ASSUME TypeOK, Outcome
  PROVE  status' \in Statuses /\ lastGoodPrice' \in ScaledAnswers \cup TellorPrices
  BY LivePrices DEF Outcome, Confirmed, KeepPrice, UseTellor, UseChainlink, TypeOK

LEMMA OlderType == ASSUME NEW age \in Ages PROVE Older(age) \in Ages /\ 0 \in Ages
  BY FeedAssumption DEF Ages, Older, MinOf

LEMMA TypeInit == Init => TypeOK
  <1> SUFFICES ASSUME Init PROVE TypeOK
    OBVIOUS
  <1>1. PICK answer \in Answers : chainlink = NewFeed(answer) BY DEF Init
  <1>2. 0 \in Ages BY FeedAssumption DEF Ages
  <1>3. chainlink \in Feeds BY <1>1, <1>2 DEF NewFeed, Feeds
  <1>4. ChainlinkPrice \in ScaledAnswers
    BY <1>1 DEF NewFeed, ChainlinkPrice, ScaledAnswers
  <1> QED BY <1>3, <1>4 DEF Init, TypeOK, Statuses

LEMMA TypeStep == TypeOK /\ [Next]_vars => TypeOK'
  <1> SUFFICES ASSUME TypeOK, [Next]_vars PROVE TypeOK'
    OBVIOUS
  <1>1. CASE FetchPrice
    BY <1>1, Fetched, PricesStay DEF TypeOK, oracles
  <1>2. CASE SetAddresses
    BY <1>2, LivePrices DEF SetAddresses, UseChainlink, TypeOK, oracles, Statuses
  <1>3. ASSUME NEW answer \in Answers \cup {Bad}, ChainlinkRound(answer)
        PROVE  TypeOK'
    <2>1. chainlink' \in Feeds
      BY <1>3, OlderType, 0 \in Ages, FeedAssumption DEF ChainlinkRound, WithRound, Feeds, TypeOK, Ages
    <2> QED BY <1>3, <2>1 DEF ChainlinkRound, TypeOK
  <1>4. ASSUME NEW reachable \in BOOLEAN, ChainlinkReachable(reachable)
        PROVE  TypeOK'
    <2>1. chainlink' \in Feeds BY <1>4 DEF ChainlinkReachable, Feeds, TypeOK
    <2> QED BY <1>4, <2>1 DEF ChainlinkReachable, TypeOK
  <1>5. ASSUME NEW value \in TellorValues \cup {Bad}, TellorReport(value)
        PROVE  TypeOK'
    <2>1. 0 \in Ages BY FeedAssumption DEF Ages
    <2> QED BY <1>5, <2>1 DEF TellorReport, TypeOK
  <1>6. CASE Tick
    <2>1. chainlink.age \in Ages /\ tellor.age \in Ages BY DEF TypeOK, Feeds
    <2>2. Older(chainlink.age) \in Ages /\ Older(tellor.age) \in Ages BY <2>1, OlderType
    <2>3. chainlink' \in Feeds BY <1>6, <2>2 DEF Tick, TypeOK, Feeds
    <2>4. tellor' \in [value : TellorValues \cup {Bad}, age : Ages]
      BY <1>6, <2>2 DEF Tick, TypeOK
    <2> QED BY <1>6, <2>3, <2>4 DEF Tick, TypeOK
  <1>7. CASE UNCHANGED vars BY <1>7 DEF vars, oracles, TypeOK
  <1> QED BY <1>1, <1>2, <1>3, <1>4, <1>5, <1>6, <1>7 DEF Next, Environment

\* The types are kept, whether Chainlink's answers have more digits than
\* TARGET_DIGITS or fewer; above all, each price stored is the scaled answer of
\* one of the oracles.
THEOREM TypesAlwaysKept == Spec => []TypeOK
  <1>1. Init => TypeOK BY TypeInit
  <1>2. TypeOK /\ [Next]_vars => TypeOK' BY TypeStep
  <1> QED BY <1>1, <1>2, PTL DEF Spec

-----------------------------------------------------------------------------
(* The action properties.                                                  *)

\* A stored price is that of a live oracle, and a jump of Chainlink's price is
\* taken only with Tellor's consent, but for the two exceptions named there.
THEOREM OnlyGoodPricesStored == Spec => OnlyGoodPrices
  <1> DEFINE Good ==
        lastGoodPrice' # lastGoodPrice =>
          \/ Tellor = "live" /\ lastGoodPrice' = TellorPrice
          \/ /\ Chainlink = "live" /\ lastGoodPrice' = ChainlinkPrice
             /\ \/ ChangeComputable(chainlink) /\ ~PriceChangeAboveMax(chainlink)
                \/ Tellor = "live" /\ Similar
                \/ status = "usingTellorChainlinkFrozen" /\ Tellor = "broken"
                \/ SetAddresses
  <1>1. TypeOK /\ [Next]_vars => [Good]_vars
    <2> SUFFICES ASSUME TypeOK, [Next]_vars PROVE Good
      OBVIOUS
    <2>1. CASE FetchPrice
      BY <2>1, Fetched DEF Outcome, Confirmed, KeepPrice, UseTellor, UseChainlink
    <2>2. CASE SetAddresses
      BY <2>2 DEF SetAddresses, UseChainlink
    <2>3. CASE Environment
      BY <2>3 DEF Environment, ChainlinkRound, ChainlinkReachable, TellorReport, Tick
    <2>4. CASE UNCHANGED vars BY <2>4 DEF vars
    <2> QED BY <2>1, <2>2, <2>3, <2>4 DEF Next
  <1> QED BY <1>1, TypesAlwaysKept, PTL DEF Spec, OnlyGoodPrices

\* Where a price of 0 may come from: an answer with more digits than the target
\* may scale to 0.  As long as a change to 0, by 100%, is more than the limit, a
\* fetch takes it only from a Chainlink that comes back from being frozen to
\* find Tellor broken, the one case in which nothing is compared.
THEOREM ZeroTakenUnconfirmed ==
  ASSUME MAX_PRICE_DEVIATION_FROM_PREVIOUS_ROUND < DECIMAL_PRECISION
  PROVE  Spec => [][FetchPrice /\ lastGoodPrice' = 0 /\ lastGoodPrice # 0 =>
                      /\ status = "usingTellorChainlinkFrozen" /\ Tellor = "broken"
                      /\ Chainlink = "live" /\ ChainlinkPrice = 0]_vars
  <1> DEFINE Unconfirmed ==
        /\ status = "usingTellorChainlinkFrozen" /\ Tellor = "broken"
        /\ Chainlink = "live" /\ ChainlinkPrice = 0
  <1>1. ASSUME TypeOK, FetchPrice, lastGoodPrice' = 0, lastGoodPrice # 0
        PROVE  Unconfirmed
    <2>1. PICK s \in Statuses : \/ KeepPrice(s)
                                \/ Tellor = "live" /\ UseTellor(s)
                                \/ Confirmed /\ UseChainlink(s)
      BY <1>1, Fetched DEF Outcome
    <2>2. ~KeepPrice(s) BY <1>1 DEF KeepPrice
    <2>3. ~(Tellor = "live" /\ UseTellor(s)) BY <1>1, LivePrices DEF UseTellor
    <2>4. Confirmed /\ ChainlinkPrice = 0 BY <1>1, <2>1, <2>2, <2>3 DEF UseChainlink
    <2>5. ~(ChangeComputable(chainlink) /\ ~PriceChangeAboveMax(chainlink))
      <3> DEFINE previous == Scaled(chainlink.previous)
      <3>1. previous \in Nat /\ Scaled(chainlink.answer) = 0
        BY <1>1, <2>4, LivePrices DEF Confirmed, ChainlinkPrice
      <3>2. LargerOf(chainlink) = previous /\ SmallerOf(chainlink) = 0
        BY <3>1 DEF LargerOf, SmallerOf, MaxOf, MinOf
      <3> HIDE DEF previous
      <3>3. ASSUME previous # 0 PROVE PriceChangeAboveMax(chainlink)
        <4>1. ASSUME NEW k \in Nat \ {0}, NEW d \in Nat PROVE ((k - 0) * d) \div k = d
          BY Z3
        <4>2. ((previous - 0) * DECIMAL_PRECISION) \div previous = DECIMAL_PRECISION
          BY <3>1, <3>3, <4>1, FeedAssumption
        <4> QED BY <3>2, <3>3, <4>2, <1>1, FeedAssumption DEF PriceChangeAboveMax, ChangeComputable
      <3> QED BY <3>2, <3>3 DEF ChangeComputable
    <2>6. ~(Tellor = "live" /\ Similar)
      <3>1. ASSUME Tellor = "live" PROVE ~DifferenceComputable
        BY <1>1, <2>4, <3>1, LivePrices DEF DifferenceComputable, MinOf
      <3> QED BY <3>1 DEF Similar
    <2> QED BY <2>4, <2>5, <2>6 DEF Confirmed
  <1> HIDE DEF Unconfirmed
  <1>2. TypeOK => [FetchPrice /\ lastGoodPrice' = 0 /\ lastGoodPrice # 0 => Unconfirmed]_vars
    BY <1>1
  <1>3. Spec => [][FetchPrice /\ lastGoodPrice' = 0 /\ lastGoodPrice # 0 => Unconfirmed]_vars
    BY <1>2, TypesAlwaysKept, PTL
  <1> QED BY <1>3 DEF Unconfirmed

LEMMA Difference ==
  ASSUME NEW a \in Nat, NEW b \in Nat
  PROVE  MaxOf(a - b, b - a) = MaxOf(a, b) - MinOf(a, b)
  BY DEF MaxOf, MinOf

\* Distrust of Chainlink ends only when both oracles are live and agree.
THEOREM DistrustKept == Spec => DistrustUntilAgreement
  <1> DEFINE difference == MaxOf(ChainlinkPrice - TellorPrice, TellorPrice - ChainlinkPrice)
             Kept ==
               FetchPrice /\ status \in Distrusted =>
                 \/ status' \in Distrusted /\ lastGoodPrice' \in {lastGoodPrice, TellorPrice}
                 \/ /\ Chainlink = "live" /\ Tellor = "live"
                    /\ MinOf(ChainlinkPrice, TellorPrice) # 0
                    /\ (difference * DECIMAL_PRECISION) \div MinOf(ChainlinkPrice, TellorPrice)
                         <= MAX_PRICE_DIFFERENCE_BETWEEN_ORACLES
  <1>1. TypeOK => Kept
    <2> SUFFICES ASSUME TypeOK, FetchPrice, status \in Distrusted PROVE Kept
      OBVIOUS
    <2>1. CASE BothAgree
      <3>1. /\ Chainlink = "live" /\ Tellor = "live" /\ Similar
            /\ ChainlinkPrice \in Nat /\ TellorPrice \in Nat
        BY <2>1, LivePrices DEF BothAgree
      <3>2. difference = MaxOf(ChainlinkPrice, TellorPrice) - MinOf(ChainlinkPrice, TellorPrice)
        BY <3>1, Difference
      <3> QED BY <3>1, <3>2 DEF Similar, DifferenceComputable
    <2>2. CASE ~BothAgree
      <3>1. CASE status = "usingTellorChainlinkUntrusted"
        BY <2>2, <3>1, Verdicts DEF FetchPrice, FetchFromTellor, TurnToTellor,
             KeepPrice, UseTellor, Distrusted
      <3>2. CASE status = "bothOraclesUntrusted"
        BY <2>2, <3>2 DEF FetchPrice, FetchFromNeither, KeepPrice, Distrusted
      <3> QED BY <3>1, <3>2 DEF Distrusted
    <2> QED BY <2>1, <2>2
  <1> QED BY <1>1, TypesAlwaysKept, PTL DEF DistrustUntilAgreement
=============================================================================
