--------------------------- MODULE ChainlinkFeed ----------------------------
(***************************************************************************)
(* A Chainlink aggregator as the price contracts see it, and how they judge*)
(* what it answers: the functions PriceFeed.sol and StETHOracle.sol have in*)
(* common.  Answers are numbers of CHAINLINK_DIGITS digits.  An answer of 0*)
(* stands for every response _badChainlinkResponse rejects; an age is the  *)
(* time since the current round, counted up to the first value over        *)
(* TIMEOUT.                                                                *)
(***************************************************************************)
EXTENDS Integers

CONSTANTS
  Answers,           \* the positive answers a round may bring
  CHAINLINK_DIGITS,  \* decimals(), which is taken not to change
  TARGET_DIGITS,     \* 18
  DECIMAL_PRECISION,
  MAX_PRICE_DEVIATION_FROM_PREVIOUS_ROUND,
  TIMEOUT

ASSUME FeedAssumption ==
  /\ Answers \subseteq Nat \ {0} /\ Answers # {}
  /\ CHAINLINK_DIGITS \in Nat /\ TARGET_DIGITS \in Nat
  /\ DECIMAL_PRECISION \in Nat \ {0} /\ MAX_PRICE_DEVIATION_FROM_PREVIOUS_ROUND \in Nat
  /\ TIMEOUT \in Nat

\* Arithmetic that holds of all digits, for the proofs to cite.
ASSUME ScalingAssumption ==
  \A n \in {CHAINLINK_DIGITS - TARGET_DIGITS, TARGET_DIGITS - CHAINLINK_DIGITS} :
    n \in Nat => 10 ^ n \in Nat \ {0}

Bad == 0
Ages == 0..TIMEOUT + 1

\* reachable: calls to the aggregator do not revert.
Feeds == [reachable : BOOLEAN, answer : Answers \cup {Bad},
          previous : Answers \cup {Bad}, age : Ages]

Broken(feed) == ~feed.reachable \/ feed.answer = Bad \/ feed.previous = Bad
Frozen(feed) == feed.age > TIMEOUT

\* The three ways the code tells apart; a broken feed is not asked whether it is frozen.
Health(feed) ==
  CASE Broken(feed) -> "broken"
    [] ~Broken(feed) /\ Frozen(feed) -> "frozen"
    [] OTHER -> "live"

\* The zero response of a reverted call has roundId 0, and roundId - 1 is a
\* checked subtraction outside the try of getRoundData: it reverts.
PreviousRoundComputable(feed) == feed.reachable

MaxOf(a, b) == IF a > b THEN a ELSE b
MinOf(a, b) == IF a < b THEN a ELSE b

\* An answer with more digits than TARGET_DIGITS loses them: a small one becomes 0.
Scaled(answer) ==
  IF CHAINLINK_DIGITS >= TARGET_DIGITS
    THEN answer \div 10 ^ (CHAINLINK_DIGITS - TARGET_DIGITS)
    ELSE answer * 10 ^ (TARGET_DIGITS - CHAINLINK_DIGITS)

\* All prices a feed can bring.
ScaledAnswers == {Scaled(answer) : answer \in Answers}

LargerOf(feed)  == MaxOf(Scaled(feed.answer), Scaled(feed.previous))
SmallerOf(feed) == MinOf(Scaled(feed.answer), Scaled(feed.previous))

\* The change is relative to the larger price, and reverts where that is 0.
ChangeComputable(feed) == LargerOf(feed) # 0

\* More than halved or doubled between two rounds.
PriceChangeAboveMax(feed) ==
  /\ ChangeComputable(feed)
  /\ ((LargerOf(feed) - SmallerOf(feed)) * DECIMAL_PRECISION) \div LargerOf(feed)
       > MAX_PRICE_DEVIATION_FROM_PREVIOUS_ROUND

-----------------------------------------------------------------------------
(* What the aggregator may do.                                             *)

WithRound(feed, answer) ==
  [feed EXCEPT !.answer = answer, !.previous = feed.answer, !.age = 0]

Older(age) == MinOf(age + 1, TIMEOUT + 1)

\* A feed between two good rounds.
NewFeed(answer) == [reachable |-> TRUE, answer |-> answer, previous |-> answer, age |-> 0]
=============================================================================
