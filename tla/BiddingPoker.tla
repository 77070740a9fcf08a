---------------------------- MODULE BiddingPoker ----------------------------
(***************************************************************************)
(* The game "bidding_poker" (games/bidding_poker/mygame.cc) with the        *)
(* BiddingManager it sells its cards by (game_util/bidding.h) and the rule  *)
(* of the framework that a stage is over once nobody has to be waited for   *)
(* (AtomicStage::Handle_).                                                  *)
(*                                                                          *)
(* The session handles one request at a time; what follows from a request   *)
(* is done before the next one is looked at: step tells how far it is.      *)
(***************************************************************************)
EXTENDS Integers, Sequences, FiniteSets, FiniteSetsExt, Functions

CONSTANTS
    Bidders,    \* the players
    Bots,       \* those of them that are computers
    FirstItems, \* the goods at the beginning: sets of cards, which are numbers
    Coins,      \* option: coins of a player at the beginning
    BidRounds,  \* option: rounds of bidding for one item
    Rounds,     \* option: rounds of the game
    Penalty,    \* option: percentage the last player loses
    DeckSize    \* cards of a deck, 5

NoOne == "none"
NoBid == 0       \* the empty optional: a bid of 0 is refused

\* The goods divide a deck.
ASSUME BiddingAssumption ==
    /\ Coins \in Nat /\ Penalty \in 0 .. 100 /\ DeckSize \in Nat \ {0} /\ NoOne \notin Bidders /\ IsFiniteSet(Bidders)
    /\ IsFiniteSet(FirstItems) /\ FirstItems # {}
    /\ \A c \in FirstItems : c \subseteq Nat /\ c # {} /\ IsFiniteSet(c)
    /\ \A c, d \in FirstItems : c # d => c \cap d = {}

VARIABLES
    phase,    \* the innermost stage: "bid", "discard" or "done"
    step,     \* "begin", "wait" for requests, "over", or "next"
    round,    \* round_
    index,    \* index_ of the item that is sold, from 1
    coins, bonus, hand,        \* of each player
    items,                     \* poker_items_
    allow, chip, cur, count,   \* the BiddingManager, and bid_count_
    masker                     \* who is ready

bidVars == <<phase, step, round, index, coins, bonus, hand, items,
             allow, chip, cur, count, masker>>

M == INSTANCE PlayerReadyMasker WITH Players <- Bidders

Cards == UNION FirstItems

Item(who, cards) == [discarder |-> who, cards |-> cards]

\* The fewest cards first, then the lowest card.
Cheaper(a, b) ==
    \/ Cardinality(a.cards) < Cardinality(b.cards)
    \/ Cardinality(a.cards) = Cardinality(b.cards) /\ Min(a.cards) < Min(b.cards)

Sorted(S) ==
    [i \in 1 .. Cardinality(S) |->
        CHOOSE x \in S : Cardinality({y \in S : Cheaper(y, x)}) = i - 1]

BidTypeOK ==
    /\ phase \in {"bid", "discard", "done"}
    /\ step \in {"begin", "wait", "over", "next"}
    /\ round \in 0 .. Rounds + 1
    /\ index \in Nat
    /\ coins \in [Bidders -> Nat]
    /\ bonus \in [Bidders -> Int]
    /\ hand \in [Bidders -> SUBSET Cards]
    /\ \A i \in DOMAIN items : /\ items[i].discarder \in Bidders \cup {NoOne}
                               /\ items[i].cards \subseteq Cards
    /\ allow \in [Bidders -> BOOLEAN]
    /\ chip \in [Bidders -> Nat]
    /\ cur \in [Bidders -> Nat]
    /\ count \in 0 .. BidRounds
    /\ masker \in M!Masker

BidInit ==
    /\ phase = "bid" /\ step = "begin"
    /\ round = 0
    /\ index = 1
    /\ coins = [p \in Bidders |-> Coins]
    /\ bonus = [p \in Bidders |-> 0]
    /\ hand = [p \in Bidders |-> {}]
    /\ items = Sorted({Item(NoOne, c) : c \in FirstItems})
    /\ allow = [p \in Bidders |-> TRUE]
    /\ chip = [p \in Bidders |-> NoBid]
    /\ cur = [p \in Bidders |-> NoBid]
    /\ count = 0
    /\ masker = M!NewMasker

-----------------------------------------------------------------------------
(* Scores.                                                                  *)

SumUp(f) == FoldFunction(+, 0, f)

\* BonusCoins_: what has been paid for the goods that belonged to nobody.
Pool(c) == Coins * Cardinality(Bidders) - SumUp(c)

\* get_percent rounds up.
PercentOf(value, percent) == value - (value * (100 - percent)) \div 100

\* Hand::BestDeck: whether there is a deck, and an order of the decks without ties.
HasDeck(h) == Cardinality(h) >= DeckSize
Better(h, g) == Max(h) > Max(g)

\* best_decks: who has a deck, and the place of each, the best first.
Decks(h) == {p \in Bidders : HasDeck(h[p])}
Place(h, p) == Cardinality({q \in Decks(h) : ~Better(h[p], h[q])})
Lowest(h) == CHOOSE p \in Decks(h) : Place(h, p) = Cardinality(Decks(h))

\* UpdatePlayerScore: the players without a deck, or else the one with the lowest,
\* pay a share of their coins into the pool, of which every deck takes one half and
\* the lowest what is left.
Lost(c, h) ==
    LET losers == IF Decks(h) = Bidders THEN {Lowest(h)} ELSE Bidders \ Decks(h)
    IN  [p \in Bidders |-> IF p \in losers THEN PercentOf(c[p], Penalty) ELSE 0]

Halved(pool) ==
    LET rest[i \in Nat] == IF i = 0 THEN pool ELSE rest[i - 1] - PercentOf(rest[i - 1], 50)
    IN  rest

Won(rest, h, p) ==
    IF p \notin Decks(h) THEN 0
    ELSE rest[Place(h, p) - 1] - (IF p = Lowest(h) THEN 0 ELSE rest[Place(h, p)])

PlayerBonus(c, h) ==
    LET lost == Lost(c, h)
        rest == Halved(Pool(c) + SumUp(lost))
    IN  [p \in Bidders |-> IF Decks(h) = {} THEN 0 ELSE Won(rest, h, p) - lost[p]]

PlayerScore(p) == coins[p] + bonus[p]

-----------------------------------------------------------------------------
(* The stage for one item: BidStage.                                        *)

Discarder == items[index].discarder

\* AtomicStage::Handle_: the stage is over once nobody has to be waited for.
Settle(m) == step' = IF M!Ok(m) THEN "over" ELSE "wait"

AllReady(m, S) == FoldSet(LAMBDA p, n : M!SetReady(n, p), m, S)

\* A new BidStage.  The seller and those without coins need not bid.
BeginBid ==
    /\ phase = "bid" /\ step = "begin"
    /\ masker' = AllReady(masker, {p \in Bidders : p = Discarder \/ coins[p] = 0})
    /\ Settle(masker')
    /\ UNCHANGED <<phase, round, index, coins, bonus, hand, items, allow, chip, cur, count>>

\* Slip: a bid that stands may be lowered.
BidCountsAny(p, c) == allow[p]

\* BiddingManager::Bid accepts: who is out of it may not bid, a bid that stands may
\* not be withdrawn or lowered.
BidCounts(p, c) == allow[p] /\ c >= chip[p]

\* Bid_ and Cancel_ of a player who is still in the match; a refusal changes nothing.
MayBid(p, c) ==
    /\ p # Discarder /\ ~masker.ready[p]
    /\ c <= coins[p]
    /\ BidCounts(p, c)

Active(p) == phase # "done" /\ step = "wait" /\ masker.active[p] = "ACTIVE"

Bid(p, c) ==
    /\ Active(p) /\ phase = "bid" /\ p \notin Bots
    /\ MayBid(p, c)
    /\ cur' = [cur EXCEPT ![p] = c]
    /\ masker' = M!SetReady(masker, p)
    /\ Settle(masker')
    /\ UNCHANGED <<phase, round, index, coins, bonus, hand, items, allow, chip, count>>

\* A computer bids at most a quarter of its coins, and is ready whether or not its
\* bid was accepted.
BotBids(p) ==
    /\ phase = "bid" /\ step = "wait" /\ p \in Bots
    /\ IF coins[p] \div 4 = 0 THEN cur' = cur
       ELSE \E c \in 1 .. coins[p] \div 4 :
                cur' = IF MayBid(p, c) THEN [cur EXCEPT ![p] = c] ELSE cur
    /\ masker' = M!SilentlySetReady(masker, p)
    /\ Settle(masker')
    /\ UNCHANGED <<phase, round, index, coins, bonus, hand, items, allow, chip, count>>

\* BidOver_, called when everybody is ready and when the time is up.  BidOver of the
\* manager takes what was bid last, also the bids of earlier rounds.
StillIn == {p \in Bidders : allow[p] /\ cur[p] # NoBid}
Price == Max({cur[p] : p \in StillIn})
Highest == {p \in StillIn : cur[p] = Price}

Closed == /\ chip' = cur
          /\ allow' = [p \in Bidders |-> p \in Highest]

\* The stage is left: its manager goes with it, and the framework clears who is ready.
StageLeft ==
    /\ step' = "next"
    /\ allow' = [p \in Bidders |-> TRUE]
    /\ chip' = [p \in Bidders |-> NoBid]
    /\ cur' = [p \in Bidders |-> NoBid]
    /\ count' = 0
    /\ masker' = M!ClearReady(masker)

\* The goods of a player go back to their owner, those of nobody are kept.
ReturnItem ==
    IF Discarder = NoOne THEN UNCHANGED <<hand, items>>
    ELSE /\ hand' = [hand EXCEPT ![Discarder] = @ \cup items[index].cards]
         /\ items' = [items EXCEPT ![index].cards = {}]

Sold ==
    /\ phase = "bid" /\ step = "over" /\ Cardinality(StillIn) > 0
    /\ Cardinality(Highest) = 1
    /\ LET winner == CHOOSE p \in Highest : TRUE
       IN  /\ coins' = [p \in Bidders |->
                  coins[p] + (IF p = Discarder THEN Price ELSE 0)
                           - (IF p = winner THEN Price ELSE 0)]
           /\ hand' = [hand EXCEPT ![winner] = @ \cup items[index].cards]
    /\ items' = [items EXCEPT ![index].cards = {}]
    /\ bonus' = PlayerBonus(coins', hand')
    /\ StageLeft
    /\ UNCHANGED <<phase, round, index>>

Unsold ==
    /\ phase = "bid" /\ step = "over"
    /\ StillIn # {} => Cardinality(Highest) > 1 /\ count + 1 = BidRounds
    /\ ReturnItem
    /\ bonus' = PlayerBonus(coins, hand')
    /\ StageLeft
    /\ UNCHANGED <<phase, round, index, coins>>

\* Slip: the rounds of bidding are not counted.
BidAgainUncounted ==
    /\ phase = "bid" /\ step = "over" /\ StillIn # {}
    /\ Cardinality(Highest) > 1 /\ count + 1 # BidRounds
    /\ count' = count
    /\ Closed
    /\ masker' = FoldSet(LAMBDA p, m : M!UnsetReady(m, p), masker, Highest)
    /\ Settle(masker')
    /\ UNCHANGED <<phase, round, index, coins, bonus, hand, items, cur>>

\* Another round among those who have bid the most.
BidAgain ==
    /\ phase = "bid" /\ step = "over" /\ StillIn # {}
    /\ Cardinality(Highest) > 1 /\ count + 1 # BidRounds
    /\ count' = count + 1
    /\ Closed
    /\ masker' = FoldSet(LAMBDA p, m : M!UnsetReady(m, p), masker, Highest)
    /\ Settle(masker')
    /\ UNCHANGED <<phase, round, index, coins, bonus, hand, items, cur>>

-----------------------------------------------------------------------------
(* The stages around it: MainBidStage, DiscardStage, RoundStage, MainStage. *)

\* The next item, or the end of MainBidStage and with it of the round, if any.
NextItem ==
    /\ phase = "bid" /\ step = "next"
    /\ IF index < Len(items)
       THEN /\ index' = index + 1 /\ step' = "begin"
            /\ UNCHANGED <<phase, round>>
       ELSE /\ index' = index
            /\ round' = round + 1
            /\ IF round + 1 <= Rounds THEN phase' = "discard" /\ step' = "begin"
                                      ELSE phase' = "done" /\ step' = step
    /\ UNCHANGED <<coins, bonus, hand, items, allow, chip, cur, count, masker>>

BeginDiscard ==
    /\ phase = "discard" /\ step = "begin"
    /\ masker' = AllReady(masker, {p \in Bidders : hand[p] = {}})
    /\ Settle(masker')
    /\ UNCHANGED <<phase, round, index, coins, bonus, hand, items, allow, chip, cur, count>>

\* Discard_: the cards stay in the hand until the stage is over, and a later choice
\* replaces the earlier one.
ItemsWith(p, cards) ==
    IF \E i \in DOMAIN items : items[i].discarder = p
    THEN [i \in DOMAIN items |->
             IF items[i].discarder = p THEN Item(p, cards) ELSE items[i]]
    ELSE Append(items, Item(p, cards))

Discard(p, cards) ==
    /\ Active(p) /\ phase = "discard" /\ p \notin Bots
    /\ cards # {}
    /\ items' = ItemsWith(p, cards)
    /\ masker' = M!SetReady(masker, p)
    /\ Settle(masker')
    /\ UNCHANGED <<phase, round, index, coins, bonus, hand, allow, chip, cur, count>>

\* Cancel_ of DiscardStage.
KeepAll(p) ==
    /\ Active(p) /\ phase = "discard" /\ p \notin Bots
    /\ items' = [i \in DOMAIN items |->
                    IF items[i].discarder = p THEN Item(p, {}) ELSE items[i]]
    /\ masker' = M!SetReady(masker, p)
    /\ Settle(masker')
    /\ UNCHANGED <<phase, round, index, coins, bonus, hand, allow, chip, cur, count>>

\* A computer keeps its deck and discards up to three other cards, or nothing.
BotDiscards(p) ==
    /\ phase = "discard" /\ step = "wait" /\ p \in Bots
    /\ \E cards \in SUBSET hand[p] :
           /\ Cardinality(cards) <= 3
           /\ HasDeck(hand[p]) => HasDeck(hand[p] \ cards)
           /\ items' = IF cards = {} THEN items ELSE ItemsWith(p, cards)
    /\ masker' = M!SilentlySetReady(masker, p)
    /\ Settle(masker')
    /\ UNCHANGED <<phase, round, index, coins, bonus, hand, allow, chip, cur, count>>

\* Slip: the cards are sold, and kept.
DiscardOverKept ==
    /\ phase = "discard" /\ step = "over"
    /\ LET goods == {items[i] : i \in {j \in DOMAIN items : items[j].cards # {}}}
       IN  /\ items' = Sorted(goods)
           /\ bonus' = bonus
           /\ phase' = IF goods = {} /\ round + 1 > Rounds THEN "done"
                       ELSE IF goods = {} THEN phase ELSE "bid"
           /\ round' = IF goods = {} THEN round + 1 ELSE round
    /\ index' = 1
    /\ step' = IF phase' = "done" THEN "next" ELSE "begin"
    /\ masker' = M!ClearReady(masker)
    /\ UNCHANGED <<hand, coins, allow, chip, cur, count>>

\* The goods without cards go; those of players leave their hands and are sold, if
\* there are any, else the round is over.
DiscardOver ==
    /\ phase = "discard" /\ step = "over"
    /\ LET goods == {items[i] : i \in {j \in DOMAIN items : items[j].cards # {}}}
           of(p) == UNION {g.cards : g \in {x \in goods : x.discarder = p}}
       IN  /\ items' = Sorted(goods)
           /\ hand' = [p \in Bidders |-> hand[p] \ of(p)]
           /\ bonus' = IF goods = {} THEN bonus ELSE PlayerBonus(coins, hand')
           /\ phase' = IF goods = {} /\ round + 1 > Rounds THEN "done"
                       ELSE IF goods = {} THEN phase ELSE "bid"
           /\ round' = IF goods = {} THEN round + 1 ELSE round
    /\ index' = 1
    /\ step' = IF phase' = "done" THEN "next" ELSE "begin"
    /\ masker' = M!ClearReady(masker)
    /\ UNCHANGED <<coins, allow, chip, cur, count>>

-----------------------------------------------------------------------------
(* What can come in either stage.                                           *)

\* HandleTimeout: both stages do what they do when everybody is ready.
Timeout ==
    /\ phase # "done" /\ step = "wait"
    /\ step' = "over"
    /\ UNCHANGED <<phase, round, index, coins, bonus, hand, items, allow, chip, cur,
                   count, masker>>

\* HandleLeave.
Leave(p) ==
    /\ Active(p) /\ p \notin Bots
    /\ masker' = M!SetPermanentInactive(masker, p)
    /\ Settle(masker')
    /\ UNCHANGED <<phase, round, index, coins, bonus, hand, items, allow, chip, cur, count>>

Internal == \/ BeginBid \/ Sold \/ Unsold \/ BidAgain \/ NextItem
            \/ BeginDiscard \/ DiscardOver

BidNext ==
    \/ Internal \/ Timeout
    \/ \E p \in Bidders :
          \/ \E c \in NoBid .. Coins * Cardinality(Bidders) : Bid(p, c)
          \/ \E cards \in SUBSET hand[p] : Discard(p, cards)
          \/ KeepAll(p) \/ BotBids(p) \/ BotDiscards(p) \/ Leave(p)

\* Time passes, and what has begun is finished; nobody has to bid.  One of the two
\* is possible until the game is done, so that this is their weak fairness.
BidFairness == \/ []<>(phase = "done")
               \/ []<><<Internal \/ Timeout>>_bidVars

BidSpec == BidInit /\ [][BidNext]_bidVars /\ BidFairness

-----------------------------------------------------------------------------
(* Properties.                                                              *)

\* Goods that are for sale but still in the hand of their owner.
Promised(p) == UNION {items[i].cards : i \in {j \in DOMAIN items : items[j].discarder = p}}

\* Whatever is sold, returned, discarded or left over, each card is in exactly one
\* place: a hand, or an item that nobody or, until it is sold, its owner holds.
EveryCardOnce ==
    \A c \in Cards :
        Cardinality({p \in Bidders : c \in hand[p]})
          + Cardinality({i \in DOMAIN items :
                /\ c \in items[i].cards
                /\ phase = "discard" => items[i].discarder = NoOne}) = 1

\* The scores share out all coins of the game, the pool included, as soon as there
\* is a deck; before that the pool belongs to nobody.  No score is negative.
ScoresShareOutAll ==
    /\ \A p \in Bidders : coins[p] >= 0 /\ PlayerScore(p) >= 0
    /\ SumUp([p \in Bidders |-> PlayerScore(p)])
         = IF \E p \in Bidders : HasDeck(hand[p])
           THEN Coins * Cardinality(Bidders) ELSE SumUp(coins)

\* A later round of bidding is held among those who were level, at least two, none
\* of whom can fall behind what all of them have bid, and nobody pays more than it has.
LaterRoundsAreForTheBest ==
    phase = "bid" /\ step = "wait" =>
        /\ \A p \in Bidders : cur[p] <= coins[p] /\ (cur[p] # NoBid => p # Discarder)
        /\ count > 0 =>
              LET best == {p \in Bidders : allow[p]}
              IN  /\ Cardinality(best) >= 2
                  /\ \A p, q \in best : chip[p] = chip[q] /\ chip[p] # NoBid
                  /\ \A p \in best, q \in Bidders : cur[p] >= chip[p] /\ chip[q] <= chip[p]

\* The game comes to its end although nobody bids or discards.
BiddingEnds == <>(phase = "done")

=============================================================================
