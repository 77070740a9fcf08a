------------------------------ MODULE BetPool -------------------------------
(***************************************************************************)
(* Dividing a pot among players who have bet different sums (game_util/     *)
(* bet_pool.h): the loop of CallBetPool, one iteration per step.  The sort  *)
(* is not stable, so players who bet the same come up in any order.         *)
(***************************************************************************)
EXTENDS Integers, Sequences, FiniteSets, FiniteSetsExt

CONSTANTS Bettors,  \* id_ of the bets
          MaxCoins, \* bound on coins_
          Hands     \* obj_, what the bets are won by: the greater the better

ASSUME BetAssumption == IsFiniteSet(Bettors) /\ MaxCoins \in Nat /\ Hands \subseteq Nat

VARIABLES stake,   \* coins_ of each bet
          prize,   \* obj_ of each bet
          remains, \* remain_coins_ of each bet
          left,    \* remain_ids, those the loop has not come to
          pots,    \* the result so far
          dividing \* CallBetPool is under way

betVars == <<stake, prize, remains, left, pots, dividing>>

BetInit ==
    /\ stake = [b \in Bettors |-> 0]
    /\ prize \in [Bettors -> {CHOOSE h \in Hands : TRUE}]
    /\ remains = stake
    /\ left = {}
    /\ pots = <<>>
    /\ dividing = FALSE

CallBetPool(c, h) ==
    /\ ~dividing
    /\ stake' = c /\ prize' = h
    /\ remains' = c
    /\ left' = Bettors
    /\ pots' = <<>>
    /\ dividing' = TRUE

\* rank_map.rbegin()->second: the best of those that are left.
BestOf(S) == {b \in S : \A o \in S : prize[o] <= prize[b]}

\* The lowest bet opens a pot that everybody left can match, and is done with.
Divide(b) ==
    /\ dividing /\ b \in left /\ \A o \in left : stake[b] <= stake[o]
    /\ pots' = IF remains[b] = 0 THEN pots
               ELSE Append(pots, [total_coins |-> remains[b] * Cardinality(left),
                                  winner_ids |-> BestOf(left),
                                  participant_ids |-> left])
    /\ remains' = [o \in Bettors |-> IF o \in left THEN remains[o] - remains[b]
                                                   ELSE remains[o]]
    /\ left' = left \ {b}
    /\ UNCHANGED <<stake, prize, dividing>>

BetNext ==
    \/ \E c \in [Bettors -> 0 .. MaxCoins], h \in [Bettors -> Hands] : CallBetPool(c, h)
    \/ \E b \in Bettors : Divide(b)

BetSpec == BetInit /\ [][BetNext]_betVars

-----------------------------------------------------------------------------

BetTypeOK ==
    /\ stake \in [Bettors -> 0 .. MaxCoins]
    /\ prize \in [Bettors -> Hands]
    /\ remains \in [Bettors -> Nat]
    /\ left \subseteq Bettors
    /\ dividing \in BOOLEAN

\* The pots of a division, said outright: one for each sum somebody bet, between
\* that sum and the next lower one, for those who bet at least as much.
Levels == {stake[b] : b \in Bettors} \ {0}
PotOf(level) ==
    LET below == Max({0} \cup {l \in Levels : l < level})
        S == {b \in Bettors : stake[b] >= level}
    IN  [total_coins |-> (level - below) * Cardinality(S),
         winner_ids |-> BestOf(S),
         participant_ids |-> S]

\* In whatever order equal bets come up, the pots are those of the levels, lowest
\* first, and nothing that was bet is lost.
PotsAreTheLevels ==
    dividing /\ left = {} =>
        /\ Len(pots) = Cardinality(Levels)
        /\ \A level \in Levels :
               pots[Cardinality({l \in Levels : l <= level})] = PotOf(level)
        /\ \A b \in Bettors : remains[b] = 0

=============================================================================
