-------------------------- MODULE ScoreCalculation --------------------------
(***************************************************************************)
(* What a finished match is worth to its users (bot_core/                  *)
(* score_calculation.cc): the zero-sum score, the top score and the rank    *)
(* score, made of the scores of the game.  Sums are accumulated in an int   *)
(* although their terms are 64 bits wide.                                   *)
(***************************************************************************)
EXTENDS Integers, FiniteSets, Functions

CONSTANTS Users,       \* the users of the match
          GameScores,  \* the scores a game may give them
          Multiples,   \* multiples of the match
          IntBound     \* 2^31, bound of an int

ASSUME ScoreAssumption ==
    /\ IntBound \in Nat \ {0}
    /\ IsFiniteSet(Users) /\ Users # {}
    /\ GameScores \subseteq Int /\ Multiples \subseteq Nat

VARIABLES gameScore,  \* game_score_ of each user
          multiple,   \* the multiple of the match
          info        \* the ScoreInfo of each user

scoreVars == <<gameScore, multiple, info>>

k_zero_sum_score_multi == 1000
k_top_score_multi == 10

UserNum == Cardinality(Users)

Magnitude(x) == IF x < 0 THEN -x ELSE x

Total(f) == FoldFunction(+, 0, f)

\* std::accumulate with an int as its first value.
Accumulate(f) == ((Total(f) + IntBound) % (2 * IntBound)) - IntBound

\* Division in C++ rounds towards 0.
Quotient(a, b) ==
    IF (a < 0) = (b < 0) THEN Magnitude(a) \div Magnitude(b)
                         ELSE -(Magnitude(a) \div Magnitude(b))

Deviation(score) == [u \in Users |-> score[u] * UserNum - Accumulate(score)]

\* Slip: the average is rounded before it is subtracted.
CalZeroSumScoreRounded(score) ==
    LET dev == [u \in Users |-> score[u] - Quotient(Accumulate(score), UserNum)]
        absSum == Accumulate([u \in Users |-> Magnitude(dev[u])])
    IN  [u \in Users |->
            IF absSum = 0 THEN 0
            ELSE Quotient(dev[u] * UserNum * k_zero_sum_score_multi, absSum)]

CalZeroSumScore(score) ==
    LET absSum == Accumulate([u \in Users |-> Magnitude(Deviation(score)[u])])
    IN  [u \in Users |->
            IF absSum = 0 THEN 0
            ELSE Quotient(Deviation(score)[u] * UserNum * k_zero_sum_score_multi, absSum)]

\* The best share the top score, and the worst pay for it.
CalTopScore(score) ==
    LET Best(u) == \A v \in Users : score[v] <= score[u]
        Worst(u) == \A v \in Users : score[v] >= score[u]
        Share(S) == (UserNum * k_top_score_multi) \div Cardinality(S)
    IN  [u \in Users |->
            (IF Best(u) THEN Share({v \in Users : Best(v)}) ELSE 0)
              - (IF Worst(u) THEN Share({v \in Users : Worst(v)}) ELSE 0)]

\* Two for everybody behind, one for everybody level, oneself included.
CalLevelScoreRank(score) ==
    [u \in Users |->
        2 * Cardinality({v \in Users : score[v] < score[u]})
          + Cardinality({v \in Users : score[v] = score[u]})]

MakeScoreInfo(score, m) ==
    [u \in Users |-> [zero_sum |-> CalZeroSumScore(score)[u] * m,
                      top |-> CalTopScore(score)[u] * m,
                      rank |-> CalLevelScoreRank(score)[u]]]

ScoreInit ==
    /\ gameScore = [u \in Users |-> 0]
    /\ multiple = 0
    /\ info = [u \in Users |-> [zero_sum |-> 0, top |-> 0, rank |-> 0]]

\* CalScores, once for the match that is recorded.
CalScores(score, m) ==
    /\ multiple = 0
    /\ gameScore' = score
    /\ multiple' = m
    /\ info' = MakeScoreInfo(score, m)

ScoreNext == \E score \in [Users -> GameScores], m \in Multiples : CalScores(score, m)

ScoreSpec == ScoreInit /\ [][ScoreNext]_scoreVars

-----------------------------------------------------------------------------

ScoreTypeOK ==
    /\ gameScore \in [Users -> Int]
    /\ multiple \in Nat
    /\ info \in [Users -> [zero_sum : Int, top : Int, rank : Nat]]

\* The sums of the match fit into an int.
Fits == /\ Magnitude(Total(gameScore)) < IntBound
        /\ Total([u \in Users |-> Magnitude(Deviation(gameScore)[u])]) < IntBound

\* What some users gain others lose: nothing but the rounding of each user's share
\* is made or lost, and the ranks share out as much as if nobody were level.
NothingMadeNothingLost ==
    multiple > 0 =>
        /\ Fits => Magnitude(Total([u \in Users |-> info[u].zero_sum])) < UserNum * multiple
        /\ Magnitude(Total([u \in Users |-> info[u].top])) <= UserNum * multiple
        /\ Total([u \in Users |-> info[u].rank]) = UserNum * UserNum

\* Who did better in the game is not worth less in the record, who did as well is
\* worth as much, and a user above the average never pays.
BetterIsWorthMore ==
    multiple > 0 =>
        \A u, v \in Users :
            /\ gameScore[u] = gameScore[v] => info[u] = info[v]
            /\ gameScore[u] > gameScore[v] =>
                  /\ Fits => info[u].zero_sum >= info[v].zero_sum
                  /\ info[u].top >= info[v].top
                  /\ info[u].rank >= info[v].rank + 2
            /\ Fits /\ gameScore[u] * UserNum > Total(gameScore) => info[u].zero_sum >= 0

\* Both: what a match is worth is shared out, in the order of its scores.
ScoresAreFair == NothingMadeNothingLost /\ BetterIsWorthMore

=============================================================================
