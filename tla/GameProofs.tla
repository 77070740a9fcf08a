----------------------------- MODULE GameProofs -----------------------------
(***************************************************************************)
(* What holds in the games for every number of players, whatever they do.   *)
(***************************************************************************)
EXTENDS BiddingPoker, CrowdGame, BetPool, HpKiller, CountingLemmas

-----------------------------------------------------------------------------
(* The order in which goods are sold.                                       *)

\* Goods: items with cards, none of which is in two of them.
AreGoods(S) ==
    /\ IsFiniteSet(S)
    /\ \A x \in S : x.cards \subseteq Nat /\ x.cards # {} /\ IsFiniteSet(x.cards)
    /\ \A x, y \in S : x # y => x.cards \cap y.cards = {}

\* Of two different goods one is cheaper, and only that one.
LEMMA CheaperIsAnOrder ==
  ASSUME NEW S, AreGoods(S)
  PROVE  /\ \A x \in S : ~Cheaper(x, x)
         /\ \A x, y \in S : x # y => Cheaper(x, y) \/ Cheaper(y, x)
         /\ \A x, y, z \in S : Cheaper(x, y) /\ Cheaper(y, z) => Cheaper(x, z)
<1>1. \A x \in S : Cardinality(x.cards) \in Nat
  BY FS_CardinalityType DEF AreGoods
<1>2. \A x \in S : Min(x.cards) \in x.cards
  <2> TAKE x \in S
  <2>1. \E c \in x.cards : \A k \in x.cards : c <= k
    BY LeastNumber DEF AreGoods
  <2> QED
    BY <2>1 DEF Min
<1>3. \A x \in S : Min(x.cards) \in Nat
  BY <1>2 DEF AreGoods
<1>4. \A x, y \in S : x # y => Min(x.cards) # Min(y.cards)
  BY <1>2 DEF AreGoods
<1> QED
  BY <1>1, <1>3, <1>4 DEF Cheaper

\* What is sorted is all there, once.
LEMMA SortedHasAll ==
  ASSUME NEW S, AreGoods(S)
  PROVE  /\ Sorted(S) \in Seq(S)
         /\ \A x \in S : \E i \in DOMAIN Sorted(S) : Sorted(S)[i] = x
         /\ \A i, j \in DOMAIN Sorted(S) : Sorted(S)[i] = Sorted(S)[j] => i = j
<1> DEFINE n == Cardinality(S)
           below(x) == {y \in S : Cheaper(y, x)}
           rank == [x \in S |-> Cardinality(below(x))]
<1>a. /\ IsFiniteSet(S) /\ n \in Nat
      /\ \A x \in S : ~Cheaper(x, x)
      /\ \A x, y \in S : x # y => Cheaper(x, y) \/ Cheaper(y, x)
      /\ \A x, y, z \in S : Cheaper(x, y) /\ Cheaper(y, z) => Cheaper(x, z)
  BY CheaperIsAnOrder, FS_CardinalityType DEF AreGoods
<1>1. \A x \in S : IsFiniteSet(below(x)) /\ Cardinality(below(x)) \in Nat
  <2> TAKE x \in S
  <2>1. below(x) \subseteq S
    OBVIOUS
  <2> QED
    BY <1>a, <2>1, FS_Subset, FS_CardinalityType
<1>2. \A x \in S : rank[x] \in 0 .. n - 1
  <2> TAKE x \in S
  <2>1. below(x) \subseteq S \ {x}
    BY <1>a
  <2>2. IsFiniteSet(S \ {x}) /\ Cardinality(S \ {x}) = n - 1
    BY <1>a, FS_RemoveElement
  <2>3. Cardinality(below(x)) <= n - 1
    BY <2>1, <2>2, FS_Subset
  <2> QED
    BY <1>1, <1>a, <2>3
<1>3. ASSUME NEW x \in S, NEW y \in S, Cheaper(y, x)
      PROVE  rank[y] < rank[x]
  <2>1. below(y) \subseteq below(x) /\ y \in below(x) /\ y \notin below(y)
    BY <1>a, <1>3
  <2>2. Cardinality(below(y)) <= Cardinality(below(x)) /\ Cardinality(below(y)) # Cardinality(below(x))
    BY <1>1, <2>1, FS_Subset
  <2> QED
    BY <1>1, <2>2
<1>4. \A x, y \in S : rank[x] = rank[y] => x = y
  <2> SUFFICES ASSUME NEW x \in S, NEW y \in S, x # y
               PROVE  rank[x] # rank[y]
    OBVIOUS
  <2>1. rank[x] < rank[y] \/ rank[y] < rank[x]
    BY <1>3, <1>a
  <2> QED
    BY <1>2, <2>1
<1> HIDE DEF rank
<1>5. rank \in Injection(S, 0 .. n - 1)
  <2>1. rank \in [S -> 0 .. n - 1]
    BY <1>2 DEF rank
  <2> HIDE DEF n
  <2> QED
    BY <1>4, <2>1 DEF Injection, IsInjective
<1>6. IsFiniteSet(0 .. n - 1) /\ Cardinality(0 .. n - 1) = n
  BY <1>a, FS_Interval
<1>7. rank \in Surjection(S, 0 .. n - 1)
  BY <1>5, <1>6, FS_Injection
<1>8. \A i \in 1 .. n : \E x \in S : rank[x] = i - 1
  BY <1>7, <1>a DEF Surjection
<1>9. \A i \in 1 .. n : Sorted(S)[i] \in S /\ rank[Sorted(S)[i]] = i - 1
  <2> SUFFICES ASSUME NEW i \in 1 .. n
               PROVE  Sorted(S)[i] \in S /\ rank[Sorted(S)[i]] = i - 1
    OBVIOUS
  <2>1. \A x \in S : rank[x] = Cardinality({y \in S : Cheaper(y, x)})
    BY DEF rank
  <2>2. Sorted(S)[i] = CHOOSE x \in S : Cardinality({y \in S : Cheaper(y, x)}) = i - 1
    BY DEF Sorted, n
  <2>3. PICK x \in S : Cardinality({y \in S : Cheaper(y, x)}) = i - 1
    BY <1>8, <2>1
  <2>4. /\ Sorted(S)[i] \in S
        /\ Cardinality({y \in S : Cheaper(y, Sorted(S)[i])}) = i - 1
    BY <2>2, <2>3, Zenon
  <2> QED
    BY <2>1, <2>4
<1>10. DOMAIN Sorted(S) = 1 .. n
  BY DEF Sorted
<1>11. Sorted(S) \in Seq(S)
  <2>1. Sorted(S) = [i \in 1 .. n |-> Sorted(S)[i]]
    BY DEF Sorted
  <2> QED
    BY <1>9, <1>a, <2>1
<1>12. ASSUME NEW x \in S
       PROVE  \E i \in 1 .. n : Sorted(S)[i] = x
  <2>1. rank[x] + 1 \in 1 .. n
    BY <1>2, <1>a
  <2> QED
    BY <1>2, <1>4, <1>9, <2>1
<1>13. ASSUME NEW i \in 1 .. n, NEW k \in 1 .. n, Sorted(S)[i] = Sorted(S)[k]
       PROVE  i = k
  BY <1>9, <1>13, <1>a
<1> QED
  BY <1>10, <1>11, <1>12, <1>13

-----------------------------------------------------------------------------
(* Bidding poker: where the cards are.                                      *)

\* Items of players are promises while the players choose them: the cards are still in
\* their hands.
InPlace == {i \in DOMAIN items : phase = "discard" => items[i].discarder = NoOne}
OfPlayers == {i \in DOMAIN items : items[i].discarder # NoOne}

\* Each card is in one of the hands h or in one of the items of its whose number is in S.
Placed(h, its, S) ==
    /\ \A p, q \in Bidders : p # q => h[p] \cap h[q] = {}
    /\ \A i, j \in S : i # j => its[i].cards \cap its[j].cards = {}
    /\ \A p \in Bidders, i \in S : h[p] \cap its[i].cards = {}
    /\ \A c \in Cards : \/ \E p \in Bidders : c \in h[p]
                        \/ \E i \in S : c \in its[i].cards

Goods == [discarder : Bidders \cup {NoOne}, cards : SUBSET Cards]

\* Nobody has two items; what was sold or returned is in a hand before the players
\* promise their cards anew.
CardsInv ==
    /\ phase \in {"bid", "discard", "done"}
    /\ hand \in [Bidders -> SUBSET Cards]
    /\ items \in Seq(Goods)
    /\ Placed(hand, items, InPlace)
    /\ \A i, j \in OfPlayers : items[i].discarder = items[j].discarder => i = j
    /\ phase = "bid" =>
          /\ index \in DOMAIN items
          /\ \A i \in OfPlayers : i < index \/ (i = index /\ step = "next") => items[i].cards = {}
    /\ phase = "discard" =>
          \A i \in OfPlayers : items[i].cards \subseteq hand[items[i].discarder]

\* Cards are numbers, and a set of them is finite.
LEMMA CardsAreFinite == Cards \subseteq Nat /\ IsFiniteSet(Cards)
<1>1. Cards \subseteq Nat
  BY BiddingAssumption DEF BiddingAssumption, Cards
<1>2. IsFiniteSet(Cards)
  BY BiddingAssumption, FS_UNION DEF BiddingAssumption, Cards
<1> QED
  BY <1>1, <1>2

\* The cards of the k-th item go into the hand of p: Sold and ReturnItem.
Gives(h, its, p, k, h2, its2) ==
    /\ h2 = [h EXCEPT ![p] = @ \cup its[k].cards]
    /\ its2 = [its EXCEPT ![k].cards = {}]

\* Then they are in that hand only.
LEMMA GivenTo ==
  ASSUME NEW h \in [Bidders -> SUBSET Cards], NEW its \in Seq(Goods),
         Placed(h, its, DOMAIN its), NEW p \in Bidders, NEW k \in DOMAIN its,
         NEW h2, NEW its2, Gives(h, its, p, k, h2, its2)
  PROVE  /\ h2 \in [Bidders -> SUBSET Cards]
         /\ its2 \in Seq(Goods) /\ DOMAIN its2 = DOMAIN its
         /\ \A i \in DOMAIN its :
               /\ its2[i].discarder = its[i].discarder
               /\ its2[i].cards = IF i = k THEN {} ELSE its[i].cards
         /\ Placed(h2, its2, DOMAIN its2)
<1>1. \A i \in DOMAIN its : its[i] \in Goods
  OBVIOUS
<1>2. \A i \in DOMAIN its : its2[i] = IF i = k THEN [its[i] EXCEPT !.cards = {}] ELSE its[i]
  BY DEF Gives
<1>3. \A i \in DOMAIN its :
         /\ its2[i] \in Goods
         /\ its2[i].discarder = its[i].discarder
         /\ its2[i].cards = IF i = k THEN {} ELSE its[i].cards
  BY <1>1, <1>2 DEF Goods
<1>4. DOMAIN its2 = DOMAIN its
  BY DEF Gives
<1>5. its2 \in Seq(Goods)
  <2>1. DOMAIN its = 1 .. Len(its) /\ Len(its) \in Nat
    OBVIOUS
  <2>2. its2 \in [1 .. Len(its) -> Goods]
    <3> HIDE DEF Goods
    <3> QED
      BY <1>3, <1>4, <2>1 DEF Gives
  <2> HIDE DEF Goods
  <2> QED
    BY <2>1, <2>2
<1>6. /\ h2 \in [Bidders -> SUBSET Cards]
      /\ \A q \in Bidders : h2[q] = IF q = p THEN h[q] \cup its[k].cards ELSE h[q]
  BY <1>1 DEF Goods, Gives
<1>7. Placed(h2, its2, DOMAIN its2)
  <2>1. \A q, r \in Bidders : q # r => h2[q] \cap h2[r] = {}
    BY <1>6 DEF Placed
  <2>2. \A i, j \in DOMAIN its : i # j => its2[i].cards \cap its2[j].cards = {}
    BY <1>3 DEF Placed
  <2>3. \A q \in Bidders, i \in DOMAIN its : h2[q] \cap its2[i].cards = {}
    BY <1>3, <1>6 DEF Placed
  <2>4. \A c \in Cards : \/ \E q \in Bidders : c \in h2[q]
                         \/ \E i \in DOMAIN its : c \in its2[i].cards
    <3> TAKE c \in Cards
    <3>1. CASE \E q \in Bidders : c \in h[q]
      BY <1>6, <3>1
    <3>2. CASE c \in its[k].cards
      BY <1>6, <3>2
    <3>3. CASE \E i \in DOMAIN its : i # k /\ c \in its[i].cards
      BY <1>3, <3>3
    <3> QED
      BY <3>1, <3>2, <3>3 DEF Placed
  <2> HIDE DEF Goods
  <2> QED
    BY <1>4, <2>1, <2>2, <2>3, <2>4 DEF Placed
<1> QED
  BY <1>3, <1>4, <1>5, <1>6, <1>7

\* In the beginning all cards are for sale.
LEMMA InitCards == BidInit => CardsInv
<1> SUFFICES ASSUME BidInit PROVE CardsInv
  OBVIOUS
<1> DEFINE S == {Item(NoOne, c) : c \in FirstItems}
<1>1. AreGoods(S)
  <2>1. IsFiniteSet(S)
    <3> DEFINE f == [c \in FirstItems |-> Item(NoOne, c)]
    <3>1. S = {f[c] : c \in FirstItems}
      OBVIOUS
    <3> HIDE DEF f, S
    <3> QED
      BY <3>1, BiddingAssumption, FiniteValues DEF BiddingAssumption
  <2>2. \A x \in S : x.cards \subseteq Nat /\ x.cards # {} /\ IsFiniteSet(x.cards)
    BY BiddingAssumption DEF BiddingAssumption, Item
  <2>3. \A x, y \in S : x # y => x.cards \cap y.cards = {}
    BY BiddingAssumption DEF BiddingAssumption, Item
  <2> QED
    BY <2>1, <2>2, <2>3 DEF AreGoods
<1>2. S \subseteq Goods /\ \A x \in S : x.discarder = NoOne
  BY DEF Item, Goods, Cards
<1>3. /\ items = Sorted(S) /\ items \in Seq(S)
      /\ \A x \in S : \E i \in DOMAIN items : items[i] = x
      /\ \A i, j \in DOMAIN items : items[i] = items[j] => i = j
  <2> HIDE DEF S
  <2>1. items = Sorted(S)
    BY DEF BidInit, S
  <2> QED
    BY <1>1, <2>1, SortedHasAll
<1>4. \A i \in DOMAIN items : items[i] \in S
  <2> HIDE DEF S
  <2> QED
    BY <1>3
<1>5. items \in Seq(Goods)
  BY <1>2, <1>3, <1>4
<1>6. OfPlayers = {} /\ InPlace = DOMAIN items
  BY <1>2, <1>4 DEF OfPlayers, InPlace
<1>7. Placed(hand, items, DOMAIN items)
  <2>1. \A p \in Bidders : hand[p] = {}
    BY DEF BidInit
  <2>2. \A i, j \in DOMAIN items : i # j => items[i].cards \cap items[j].cards = {}
    BY <1>1, <1>3, <1>4 DEF AreGoods
  <2>3. ASSUME NEW c \in Cards
        PROVE  \E i \in DOMAIN items : c \in items[i].cards
    <3>1. PICK d \in FirstItems : c \in d
      BY DEF Cards
    <3>2. Item(NoOne, d) \in S /\ Item(NoOne, d).cards = d
      BY DEF Item
    <3> QED
      BY <1>3, <3>1, <3>2
  <2> QED
    BY <2>1, <2>2, <2>3 DEF Placed
<1>8. 1 \in DOMAIN items
  <2>1. \E x : x \in S
    BY BiddingAssumption DEF BiddingAssumption
  <2>2. \E i : i \in DOMAIN items
    BY <1>3, <2>1
  <2> QED
    BY <1>3, <2>2
<1>9. phase = "bid" /\ index = 1 /\ hand \in [Bidders -> SUBSET Cards]
  BY DEF BidInit
<1> QED
  BY <1>5, <1>6, <1>7, <1>8, <1>9 DEF CardsInv

\* What leaves the cards alone and does not end the sale of an item.
LEMMA CardsStay ==
  ASSUME CardsInv, phase' = phase, index' = index, hand' = hand, items' = items,
         step' # "next" \/ step' = step
  PROVE  CardsInv'
<1>1. InPlace' = InPlace /\ OfPlayers' = OfPlayers
  BY DEF InPlace, OfPlayers
<1> QED
  BY <1>1 DEF CardsInv

\* An item goes to p, and its sale is over.
LEMMA GoodsGiven ==
  ASSUME CardsInv, phase = "bid", NEW p \in Bidders,
         Gives(hand, items, p, index, hand', items'),
         step' = "next", phase' = phase, index' = index
  PROVE  CardsInv'
<1>1. /\ hand \in [Bidders -> SUBSET Cards] /\ items \in Seq(Goods)
      /\ InPlace = DOMAIN items /\ Placed(hand, items, DOMAIN items) /\ index \in DOMAIN items
  BY DEF CardsInv, InPlace
<1>2. /\ hand' \in [Bidders -> SUBSET Cards]
      /\ items' \in Seq(Goods) /\ DOMAIN items' = DOMAIN items
      /\ \A i \in DOMAIN items :
            /\ items'[i].discarder = items[i].discarder
            /\ items'[i].cards = IF i = index THEN {} ELSE items[i].cards
      /\ Placed(hand', items', DOMAIN items')
  BY <1>1, GivenTo
<1>3. OfPlayers' = OfPlayers /\ InPlace' = DOMAIN items'
  BY <1>2 DEF OfPlayers, InPlace
<1>4. Placed(hand, items, InPlace)'
  BY <1>2, <1>3 DEF Placed
<1>5. \A i, j \in OfPlayers' : items'[i].discarder = items'[j].discarder => i = j
  BY <1>2, <1>3 DEF CardsInv, OfPlayers
<1>6. \A i \in OfPlayers' : i < index \/ i = index => items'[i].cards = {}
  BY <1>2, <1>3 DEF CardsInv, OfPlayers
<1> QED
  BY <1>1, <1>2, <1>4, <1>5, <1>6 DEF CardsInv

\* Who has bid the most is a player, whose hand the goods go into.
LEMMA SoldKeepsCards ==
  ASSUME CardsInv, Sold
  PROVE  CardsInv'
<1>1. PICK p : p = CHOOSE q \in Highest : TRUE
  OBVIOUS
<1>2. p \in Bidders
  <2>1. Highest # {}
    BY FS_EmptySet DEF Sold
  <2> QED
    BY <1>1, <2>1 DEF Highest, StillIn
<1>3. Gives(hand, items, p, index, hand', items')
  BY <1>1 DEF Sold, Gives
<1> QED
  BY <1>2, <1>3, GoodsGiven DEF Sold, StageLeft

\* The goods of a player go back into its hand, those of nobody stay.
LEMMA UnsoldKeepsCards ==
  ASSUME CardsInv, Unsold
  PROVE  CardsInv'
<1>1. /\ phase = "bid" /\ phase' = phase /\ index' = index /\ step' = "next"
      /\ items[index] \in Goods
  BY DEF Unsold, StageLeft, CardsInv
<1>2. CASE Discarder = NoOne
  <2>1. hand' = hand /\ items' = items
    BY <1>2 DEF Unsold, ReturnItem
  <2>2. InPlace' = InPlace /\ OfPlayers' = OfPlayers /\ index \notin OfPlayers
    BY <1>1, <1>2, <2>1 DEF InPlace, OfPlayers, Discarder
  <2> QED
    BY <1>1, <2>1, <2>2 DEF CardsInv
<1>3. CASE Discarder # NoOne
  <2>1. PICK p \in Bidders : p = Discarder
    BY <1>1, <1>3 DEF Goods, Discarder
  <2>2. Gives(hand, items, p, index, hand', items')
    BY <1>3, <2>1 DEF Unsold, ReturnItem, Gives
  <2> QED
    BY <1>1, <2>2, GoodsGiven
<1> QED
  BY <1>2, <1>3

\* When the last item has been sold, no player has an item with cards left.
LEMMA NextItemKeepsCards ==
  ASSUME CardsInv, NextItem
  PROVE  CardsInv'
<1>1. /\ phase = "bid" /\ step = "next" /\ hand' = hand /\ items' = items
      /\ Len(items) \in Nat /\ DOMAIN items = 1 .. Len(items) /\ index \in DOMAIN items
      /\ OfPlayers' = OfPlayers /\ InPlace = DOMAIN items
      /\ \A i \in OfPlayers : i <= index => items[i].cards = {}
  <2>1. Len(items) \in Nat /\ DOMAIN items = 1 .. Len(items)
    BY DEF CardsInv
  <2>2. phase = "bid" /\ step = "next" /\ hand' = hand /\ items' = items
    BY DEF NextItem
  <2>3. OfPlayers' = OfPlayers /\ InPlace = DOMAIN items /\ OfPlayers \subseteq DOMAIN items
    BY <2>2 DEF OfPlayers, InPlace
  <2>4. index \in DOMAIN items /\ \A i \in OfPlayers : i <= index => items[i].cards = {}
    BY <2>1, <2>2, <2>3 DEF CardsInv
  <2> QED
    BY <2>1, <2>2, <2>3, <2>4
<1>2. CASE index < Len(items)
  <2>1. index' = index + 1 /\ step' = "begin" /\ phase' = phase
    BY <1>2 DEF NextItem
  <2>2. InPlace' = InPlace
    BY <1>1, <2>1 DEF InPlace
  <2>3. index' \in DOMAIN items /\ \A i \in OfPlayers : i < index' => items[i].cards = {}
    BY <1>1, <1>2, <2>1 DEF OfPlayers
  <2> QED
    BY <1>1, <2>1, <2>2, <2>3 DEF CardsInv
<1>3. CASE ~(index < Len(items))
  <2>1. phase' \in {"discard", "done"}
    BY <1>3 DEF NextItem
  <2>2. \A i \in OfPlayers : items[i].cards = {}
    BY <1>1, <1>3 DEF OfPlayers
  <2>3. /\ InPlace' \subseteq InPlace
        /\ \A i \in InPlace : i \notin InPlace' => items[i].cards = {}
    BY <1>1, <2>2 DEF InPlace, OfPlayers
  <2>4. Placed(hand, items, InPlace)'
    BY <1>1, <2>3 DEF CardsInv, Placed
  <2> QED
    BY <1>1, <2>1, <2>2, <2>4 DEF CardsInv
<1> QED
  BY <1>2, <1>3

\* While the players choose, what changes is what a player p has promised, from its hand.
LEMMA PromisesKeepCards ==
  ASSUME CardsInv, phase = "discard", phase' = phase, hand' = hand,
         NEW p \in Bidders, NEW cards \in SUBSET hand[p],
         items' \in Seq(Goods),
         \A i \in DOMAIN items : /\ i \in DOMAIN items'
                                 /\ items'[i] = IF items[i].discarder = p THEN Item(p, cards)
                                                ELSE items[i],
         \A i \in DOMAIN items' : i \notin DOMAIN items =>
             /\ items'[i] = Item(p, cards)
             /\ \A j \in DOMAIN items' : items'[j].discarder = p => i = j
  PROVE  CardsInv'
<1>1. p # NoOne /\ Item(p, cards).discarder = p /\ Item(p, cards).cards = cards
  BY BiddingAssumption DEF BiddingAssumption, Item
<1>2. InPlace' = InPlace /\ \A i \in InPlace : items'[i] = items[i]
  BY <1>1 DEF InPlace
<1>3. Placed(hand, items, InPlace)'
  BY <1>2 DEF CardsInv, Placed
<1>4. ASSUME NEW i \in OfPlayers', NEW j \in OfPlayers', items'[i].discarder = items'[j].discarder
      PROVE  i = j
  <2>1. CASE i \in DOMAIN items /\ j \in DOMAIN items
    <3>1. items[i].discarder = items'[i].discarder /\ items[j].discarder = items'[j].discarder
      BY <1>1, <2>1
    <3>2. i \in OfPlayers /\ j \in OfPlayers
      BY <1>4, <2>1, <3>1 DEF OfPlayers
    <3> QED
      BY <1>4, <3>1, <3>2 DEF CardsInv
  <2>2. CASE i \notin DOMAIN items
    BY <1>1, <1>4, <2>2 DEF OfPlayers
  <2>3. CASE j \notin DOMAIN items
    BY <1>1, <1>4, <2>3 DEF OfPlayers
  <2> QED
    BY <2>1, <2>2, <2>3
<1>5. ASSUME NEW i \in OfPlayers'
      PROVE  items'[i].cards \subseteq hand[items'[i].discarder]
  <2>1. CASE items'[i] = Item(p, cards)
    BY <1>1, <2>1
  <2>2. CASE i \in OfPlayers /\ items'[i] = items[i]
    BY <2>2 DEF CardsInv
  <2> QED
    BY <1>5, <2>1, <2>2 DEF OfPlayers
<1> QED
  BY <1>3, <1>4, <1>5 DEF CardsInv

\* A first choice adds an item, a later one replaces it.
LEMMA DiscardKeepsCards ==
  ASSUME CardsInv, NEW p \in Bidders, NEW cards \in SUBSET hand[p],
         phase = "discard", phase' = phase, hand' = hand, items' = ItemsWith(p, cards)
  PROVE  CardsInv'
<1>1. /\ items \in Seq(Goods) /\ hand[p] \subseteq Cards
      /\ DOMAIN items = 1 .. Len(items) /\ Len(items) \in Nat
  BY DEF CardsInv
<1>2. Item(p, cards) \in Goods /\ Item(p, cards).discarder = p
  BY <1>1 DEF Item, Goods
<1>3. CASE \E i \in DOMAIN items : items[i].discarder = p
  <2>1. items' = [i \in DOMAIN items |->
                     IF items[i].discarder = p THEN Item(p, cards) ELSE items[i]]
    BY <1>3 DEF ItemsWith
  <2>2. items' \in Seq(Goods)
    <3> HIDE DEF Goods
    <3> QED
      BY <1>1, <1>2, <2>1
  <2> QED
    BY <2>1, <2>2, PromisesKeepCards
<1>4. CASE ~\E i \in DOMAIN items : items[i].discarder = p
  <2>1. items' = Append(items, Item(p, cards))
    BY <1>4 DEF ItemsWith
  <2>2. /\ items' \in Seq(Goods) /\ DOMAIN items' = 1 .. Len(items) + 1
        /\ \A i \in DOMAIN items : items'[i] = items[i]
        /\ items'[Len(items) + 1] = Item(p, cards)
    <3> HIDE DEF Goods
    <3> QED
      BY <1>1, <1>2, <2>1
  <2>3. \A i \in DOMAIN items' : i \notin DOMAIN items =>
            /\ items'[i] = Item(p, cards)
            /\ \A j \in DOMAIN items' : items'[j].discarder = p => i = j
    BY <1>1, <1>4, <2>2
  <2>4. \A i \in DOMAIN items : i \in DOMAIN items'
    BY <1>1, <2>2
  <2> QED
    BY <1>4, <2>2, <2>3, <2>4, PromisesKeepCards
<1> QED
  BY <1>3, <1>4

\* Who keeps all has promised nothing.
LEMMA KeepAllKeepsCards ==
  ASSUME CardsInv, NEW p \in Bidders, KeepAll(p)
  PROVE  CardsInv'
<1>1. /\ phase = "discard" /\ phase' = phase /\ hand' = hand
      /\ items' = [i \in DOMAIN items |->
                      IF items[i].discarder = p THEN Item(p, {}) ELSE items[i]]
  BY DEF KeepAll
<1>2. /\ items \in Seq(Goods) /\ DOMAIN items = 1 .. Len(items) /\ Len(items) \in Nat
      /\ Item(p, {}) \in Goods
  BY DEF CardsInv, Item, Goods
<1>3. items' \in Seq(Goods)
  <2> HIDE DEF Goods
  <2> QED
    BY <1>1, <1>2
<1> QED
  BY <1>1, <1>3, PromisesKeepCards

\* What was promised is for sale, and no longer in a hand.
LEMMA DiscardOverKeepsCards ==
  ASSUME CardsInv, DiscardOver
  PROVE  CardsInv'
<1> DEFINE full == {j \in DOMAIN items : items[j].cards # {}}
           goods == {items[i] : i \in full}
           of(p) == UNION {g.cards : g \in {x \in goods : x.discarder = p}}
<1>1. /\ phase = "discard" /\ items' = Sorted(goods) /\ index' = 1
      /\ hand' = [p \in Bidders |-> hand[p] \ of(p)]
      /\ phase' \in {"bid", "discard", "done"}
      /\ (phase' = "bid" <=> goods # {})
      /\ (phase' = "bid" => step' # "next")
  BY DEF DiscardOver
<1>2. /\ hand \in [Bidders -> SUBSET Cards] /\ items \in Seq(Goods)
      /\ Len(items) \in Nat /\ DOMAIN items = 1 .. Len(items)
      /\ Placed(hand, items, InPlace)
      /\ \A i, j \in OfPlayers : items[i].discarder = items[j].discarder => i = j
      /\ \A i \in OfPlayers : items[i].cards \subseteq hand[items[i].discarder]
  BY <1>1 DEF CardsInv
<1>3. \A i \in DOMAIN items :
         /\ items[i] \in Goods /\ items[i].discarder \in Bidders \cup {NoOne}
         /\ items[i].cards \subseteq Cards
         /\ (i \in InPlace <=> items[i].discarder = NoOne)
         /\ (i \in OfPlayers <=> items[i].discarder # NoOne)
  <2>1. \A i \in DOMAIN items : items[i] \in Goods
    BY <1>2
  <2>2. \A i \in DOMAIN items : /\ items[i].discarder \in Bidders \cup {NoOne}
                                /\ items[i].cards \subseteq Cards
    BY <2>1 DEF Goods
  <2> QED
    BY <1>1, <2>1, <2>2 DEF InPlace, OfPlayers
<1>4. ASSUME NEW i \in DOMAIN items, NEW j \in DOMAIN items, i # j
      PROVE  items[i].cards \cap items[j].cards = {}
  <2>1. CASE i \in InPlace /\ j \in InPlace
    BY <1>2, <1>4, <2>1 DEF Placed
  <2>2. CASE i \in InPlace /\ j \in OfPlayers
    BY <1>2, <1>3, <2>2 DEF Placed
  <2>3. CASE i \in OfPlayers /\ j \in InPlace
    BY <1>2, <1>3, <2>3 DEF Placed
  <2>4. CASE i \in OfPlayers /\ j \in OfPlayers
    <3>1. items[i].discarder # items[j].discarder
      BY <1>2, <1>4, <2>4
    <3> QED
      BY <1>2, <1>3, <2>4, <3>1 DEF Placed
  <2> QED
    BY <1>3, <2>1, <2>2, <2>3, <2>4
<1>5. AreGoods(goods)
  <2>1. IsFiniteSet(goods)
    <3>1. IsFiniteSet(full)
      <4>1. IsFiniteSet(1 .. Len(items)) /\ full \subseteq 1 .. Len(items)
        BY <1>2, FS_Interval
      <4> QED
        BY <4>1, FS_Subset
    <3> HIDE DEF full
    <3> QED
      BY <3>1, FiniteValues
  <2>2. \A i \in full : /\ items[i].cards \subseteq Nat /\ items[i].cards # {}
                        /\ IsFiniteSet(items[i].cards)
    BY <1>3, CardsAreFinite, FS_Subset
  <2>3. \A i, j \in full : items[i] # items[j] => items[i].cards \cap items[j].cards = {}
    BY <1>4
  <2> HIDE DEF full
  <2> QED
    BY <2>1, <2>2, <2>3 DEF AreGoods
<1>6. \A g \in goods : \E i \in full : g = items[i]
  OBVIOUS
<1>7. /\ items' \in Seq(goods)
      /\ \A g \in goods : \E k \in DOMAIN items' : items'[k] = g
      /\ \A k, l \in DOMAIN items' : items'[k] = items'[l] => k = l
  <2> HIDE DEF goods
  <2> QED
    BY <1>1, <1>5, SortedHasAll
<1>8. goods \subseteq Goods
  BY <1>3
<1>9. items' \in Seq(Goods) /\ \A k \in DOMAIN items' : items'[k] \in goods
  <2> HIDE DEF goods, Goods
  <2> QED
    BY <1>7, <1>8
\* The item that each new item was.
<1>10. ASSUME NEW k \in DOMAIN items'
       PROVE  \E i \in full : items'[k] = items[i]
  BY <1>6, <1>9
<1>11. ASSUME NEW k \in DOMAIN items', NEW l \in DOMAIN items', k # l
       PROVE  /\ items'[k].cards \cap items'[l].cards = {}
              /\ items'[k].discarder # NoOne => items'[k].discarder # items'[l].discarder
  <2>1. PICK i \in full, j \in full : items'[k] = items[i] /\ items'[l] = items[j]
    BY <1>10
  <2>2. i # j
    BY <1>7, <1>11, <2>1
  <2>3. items[i].discarder # NoOne => items[i].discarder # items[j].discarder
    BY <1>2, <1>3, <2>2
  <2> QED
    BY <1>4, <2>1, <2>2, <2>3
<1>12. ASSUME NEW p \in Bidders, NEW i \in full, items[i].discarder = p
       PROVE  items[i].cards \subseteq of(p)
  BY <1>12
<1>13. \A p \in Bidders : \A c \in of(p) : \E i \in full : c \in items[i].cards
  OBVIOUS
<1> HIDE DEF goods, full, of
<1>14. \A p, q \in Bidders : p # q => hand'[p] \cap hand'[q] = {}
  BY <1>1, <1>2 DEF Placed
<1>15. ASSUME NEW p \in Bidders, NEW k \in DOMAIN items'
       PROVE  hand'[p] \cap items'[k].cards = {}
  <2>1. PICK i \in full : items'[k] = items[i]
    BY <1>10
  <2>2. i \in DOMAIN items
    BY DEF full
  <2>3. CASE items[i].discarder = NoOne
    BY <1>1, <1>2, <1>3, <2>1, <2>2, <2>3 DEF Placed
  <2>4. CASE items[i].discarder = p
    BY <1>1, <1>12, <2>1, <2>4
  <2>5. CASE items[i].discarder \in Bidders \ {p}
    <3>1. items[i].discarder # NoOne
      BY <2>5, BiddingAssumption DEF BiddingAssumption
    <3>2. items[i].cards \subseteq hand[items[i].discarder]
      BY <1>2, <1>3, <2>2, <3>1
    <3>3. hand[p] \cap items[i].cards = {}
      BY <1>2, <2>5, <3>2 DEF Placed
    <3> QED
      BY <1>1, <2>1, <3>3
  <2> QED
    BY <1>3, <2>2, <2>3, <2>4, <2>5
<1>16. ASSUME NEW c \in Cards
       PROVE  \/ \E p \in Bidders : c \in hand'[p]
              \/ \E k \in DOMAIN items' : c \in items'[k].cards
  <2>1. ASSUME NEW i \in DOMAIN items, c \in items[i].cards
        PROVE  \E k \in DOMAIN items' : c \in items'[k].cards
    <3>1. items[i] \in goods
      BY <2>1 DEF goods, full
    <3> QED
      BY <1>7, <2>1, <3>1
  <2>2. CASE \E p \in Bidders : c \in hand[p]
    <3>1. PICK p \in Bidders : c \in hand[p]
      BY <2>2
    <3>2. CASE c \in of(p)
      <4>1. PICK i \in full : c \in items[i].cards
        BY <1>13, <3>2
      <4> QED
        BY <2>1, <4>1 DEF full
    <3>3. CASE c \notin of(p)
      BY <1>1, <3>1, <3>3
    <3> QED
      BY <3>2, <3>3
  <2>3. CASE \E i \in InPlace : c \in items[i].cards
    BY <2>1, <2>3 DEF InPlace
  <2> QED
    BY <1>2, <2>2, <2>3 DEF Placed
<1>17. Placed(hand', items', DOMAIN items')
  BY <1>11, <1>14, <1>15, <1>16 DEF Placed
<1>18. hand' \in [Bidders -> SUBSET Cards]
  BY <1>1, <1>2
<1>19. \A k, l \in OfPlayers' : items'[k].discarder = items'[l].discarder => k = l
  BY <1>11 DEF OfPlayers
<1>20. CASE goods # {}
  <2>1. phase' = "bid" /\ step' # "next"
    BY <1>1, <1>20
  <2>2. InPlace' = DOMAIN items'
    BY <2>1 DEF InPlace
  <2>3. 1 \in DOMAIN items' /\ DOMAIN items' \subseteq Nat \ {0}
    <3>1. \E k : k \in DOMAIN items'
      BY <1>7, <1>20
    <3> QED
      BY <1>7, <3>1
  <2>4. \A k \in OfPlayers' : ~(k < 1)
    BY <2>3 DEF OfPlayers
  <2>5. Placed(hand, items, InPlace)'
    BY <1>17, <2>2
  <2> QED
    BY <1>1, <1>9, <1>18, <1>19, <2>1, <2>3, <2>4, <2>5 DEF CardsInv
<1>21. CASE goods = {}
  <2>1. phase' \in {"discard", "done"} /\ DOMAIN items' = {}
    BY <1>1, <1>9, <1>21
  <2>2. OfPlayers' = {} /\ InPlace' = DOMAIN items'
    BY <2>1 DEF OfPlayers, InPlace
  <2>3. Placed(hand, items, InPlace)'
    BY <1>17, <2>2
  <2> QED
    BY <1>9, <1>18, <2>1, <2>2, <2>3 DEF CardsInv
<1> QED
  BY <1>20, <1>21

\* Whatever the players and the stages do, the cards stay together.
LEMMA CardsStep ==
  ASSUME CardsInv, [BidNext]_bidVars
  PROVE  CardsInv'
<1>1. CASE UNCHANGED bidVars
  BY <1>1, CardsStay DEF bidVars
<1>2. CASE Internal \/ Timeout
  <2>1. CASE BeginBid \/ BidAgain \/ BeginDiscard \/ Timeout
    <3>1. /\ phase' = phase /\ index' = index /\ hand' = hand /\ items' = items
          /\ step' # "next"
      BY <2>1 DEF BeginBid, BidAgain, BeginDiscard, Timeout, Settle
    <3> QED
      BY <3>1, CardsStay
  <2> QED
    BY <1>2, <2>1, SoldKeepsCards, UnsoldKeepsCards, NextItemKeepsCards,
       DiscardOverKeepsCards DEF Internal
<1>3. ASSUME NEW p \in Bidders,
             \/ \E c \in NoBid .. Coins * Cardinality(Bidders) : Bid(p, c)
             \/ BotBids(p) \/ Leave(p)
      PROVE  CardsInv'
  <2>1. /\ phase' = phase /\ index' = index /\ hand' = hand /\ items' = items
        /\ step' # "next"
    BY <1>3 DEF Bid, BotBids, Leave, Settle
  <2> QED
    BY <2>1, CardsStay
<1>4. ASSUME NEW p \in Bidders, NEW cards \in SUBSET hand[p], Discard(p, cards)
      PROVE  CardsInv'
  <2>1. phase = "discard" /\ phase' = phase /\ hand' = hand /\ items' = ItemsWith(p, cards)
    BY <1>4 DEF Discard
  <2> QED
    BY <2>1, DiscardKeepsCards
<1>5. ASSUME NEW p \in Bidders, BotDiscards(p)
      PROVE  CardsInv'
  <2>1. phase = "discard" /\ phase' = phase /\ hand' = hand /\ index' = index /\ step' # "next"
    BY <1>5 DEF BotDiscards, Settle
  <2>2. PICK cards \in SUBSET hand[p] : items' = IF cards = {} THEN items ELSE ItemsWith(p, cards)
    BY <1>5 DEF BotDiscards
  <2>3. CASE cards = {}
    BY <2>1, <2>2, <2>3, CardsStay
  <2>4. CASE cards # {}
    BY <2>1, <2>2, <2>4, DiscardKeepsCards
  <2> QED
    BY <2>3, <2>4
<1> QED
  BY <1>1, <1>2, <1>3, <1>4, <1>5, KeepAllKeepsCards DEF BidNext

\* Whatever is bid and discarded, by however many players for whatever deck, and
\* whether or not what is discarded is sold: each card is in exactly one place.
THEOREM NoCardIsLost == BidSpec => []EveryCardOnce
<1>1. CardsInv => EveryCardOnce
  <2> SUFFICES ASSUME CardsInv, NEW c \in Cards
               PROVE  Cardinality({p \in Bidders : c \in hand[p]})
                        + Cardinality({i \in DOMAIN items :
                              /\ c \in items[i].cards
                              /\ phase = "discard" => items[i].discarder = NoOne}) = 1
    BY DEF EveryCardOnce
  <2> DEFINE inHands == {p \in Bidders : c \in hand[p]}
             inItems == {i \in DOMAIN items :
                            /\ c \in items[i].cards
                            /\ phase = "discard" => items[i].discarder = NoOne}
  <2>1. inItems = {i \in InPlace : c \in items[i].cards}
    BY DEF InPlace
  <2>2. Placed(hand, items, InPlace)
    BY DEF CardsInv
  <2>3. CASE \E p \in Bidders : c \in hand[p]
    <3>1. PICK p \in Bidders : c \in hand[p]
      BY <2>3
    <3>2. inHands = {p} /\ inItems = {}
      BY <2>1, <2>2, <3>1 DEF Placed
    <3> HIDE DEF inHands, inItems
    <3>3. Cardinality(inHands) = 1 /\ Cardinality(inItems) = 0
      BY <3>2, FS_Singleton, FS_EmptySet
    <3> QED
      BY <3>3 DEF inHands, inItems
  <2>4. CASE \E i \in InPlace : c \in items[i].cards
    <3>1. PICK i \in InPlace : c \in items[i].cards
      BY <2>4
    <3>2. inItems = {i} /\ inHands = {}
      BY <2>1, <2>2, <3>1 DEF Placed
    <3> HIDE DEF inHands, inItems
    <3>3. Cardinality(inItems) = 1 /\ Cardinality(inHands) = 0
      BY <3>2, FS_Singleton, FS_EmptySet
    <3> QED
      BY <3>3 DEF inHands, inItems
  <2> QED
    BY <2>2, <2>3, <2>4 DEF Placed
<1> QED
  BY <1>1, InitCards, CardsStep, PTL DEF BidSpec

-----------------------------------------------------------------------------
(* Bidding poker: who may bid, and how much.                                *)

\* Who may bid.
Best == {p \in Bidders : allow[p]}

\* A manager that nobody has bid to.
NewManager ==
    /\ count = 0
    /\ \A p \in Bidders : allow[p] /\ chip[p] = NoBid /\ cur[p] = NoBid

\* In a later round those who may bid were level, and everybody else is behind them.
BidsInv ==
    /\ coins \in [Bidders -> Nat] /\ cur \in [Bidders -> Nat] /\ chip \in [Bidders -> Nat]
    /\ allow \in [Bidders -> BOOLEAN] /\ count \in Nat
    /\ phase # "bid" \/ step \in {"begin", "next"} => NewManager
    /\ \A p \in Bidders : /\ chip[p] <= cur[p] /\ cur[p] <= coins[p]
                          /\ cur[p] # NoBid => p # Discarder
    /\ count = 0 => \A p \in Bidders : allow[p] /\ chip[p] = NoBid
    /\ count > 0 =>
          /\ Cardinality(Best) >= 2
          /\ \A p, q \in Best : chip[p] = chip[q] /\ chip[p] # NoBid
          /\ \A p \in Best, q \in Bidders \ Best : cur[q] <= chip[p] /\ chip[q] <= chip[p]

\* BidOver finds the highest of the bids that stand.
LEMMA HighestStands ==
  ASSUME BidsInv, StillIn # {}
  PROVE  /\ Price \in Nat \ {0} /\ Highest # {} /\ Highest \subseteq StillIn
         /\ \A p \in StillIn : cur[p] <= Price
         /\ \A p \in Highest : cur[p] = Price
<1> DEFINE bids == {cur[p] : p \in StillIn}
<1>1. StillIn \subseteq Bidders /\ IsFiniteSet(StillIn)
  BY BiddingAssumption, FS_Subset DEF StillIn, BiddingAssumption
<1>2. IsFiniteSet(bids)
  BY <1>1, FiniteValues
<1>3. bids \subseteq Nat \ {0} /\ bids # {}
  BY <1>1 DEF BidsInv, StillIn, NoBid
<1>4. Price = Max(bids)
  BY DEF Price
<1>5. Price \in bids /\ \A b \in bids : b <= Price
  <2> HIDE DEF bids
  <2>1. \E x \in bids : \A y \in bids : y <= x
    BY <1>2, <1>3, GreatestNumber
  <2>2. \E x \in bids : \A y \in bids : x >= y
    BY <1>3, <2>1
  <2>3. Price \in bids /\ \A y \in bids : Price >= y
    BY <1>4, <2>2, Zenon DEF Max
  <2> QED
    BY <1>3, <2>3
<1> QED
  BY <1>3, <1>5 DEF Highest

\* What leaves coins and bids alone, and begins no other item.
LEMMA BidsStay ==
  ASSUME BidsInv, phase' = phase, UNCHANGED <<coins, cur, chip, allow, count>>,
         Discarder' = Discarder \/ NewManager,
         step' \notin {"begin", "next"} \/ NewManager
  PROVE  BidsInv'
<1>1. NewManager => NewManager'
  BY DEF NewManager
<1>2. Best' = Best
  BY DEF Best
<1>3. NewManager => \A p \in Bidders : cur[p] = NoBid
  BY DEF NewManager
<1> QED
  BY <1>1, <1>2, <1>3 DEF BidsInv

\* A manager that has sold, or that has not, is gone.
LEMMA ManagerGone ==
  ASSUME BidsInv, StageLeft, coins' \in [Bidders -> Nat]
  PROVE  BidsInv'
<1>1. NewManager' /\ NoBid \in Nat
  BY DEF StageLeft, NewManager, NoBid
<1>2. cur' \in [Bidders -> Nat] /\ chip' \in [Bidders -> Nat] /\ allow' \in [Bidders -> BOOLEAN]
  BY <1>1 DEF StageLeft
<1> QED
  BY <1>1, <1>2 DEF BidsInv, NewManager, NoBid

\* The buyer has the coins that it pays.
LEMMA SoldKeepsBids ==
  ASSUME BidsInv, Sold
  PROVE  BidsInv'
<1>1. StillIn # {}
  BY FS_EmptySet DEF Sold
<1>2. PICK w : w = CHOOSE p \in Highest : TRUE
  OBVIOUS
<1>3. w \in Bidders /\ cur[w] = Price /\ Price <= coins[w] /\ Price \in Nat
  <2>1. w \in Highest
    BY <1>1, <1>2, HighestStands
  <2> QED
    BY <1>1, <2>1, HighestStands DEF StillIn, BidsInv
<1>4. coins' = [p \in Bidders |-> coins[p] + (IF p = Discarder THEN Price ELSE 0)
                                           - (IF p = w THEN Price ELSE 0)]
  BY <1>2 DEF Sold
<1>5. coins' \in [Bidders -> Nat]
  BY <1>3, <1>4 DEF BidsInv
<1> QED
  BY <1>5, ManagerGone DEF Sold

\* Who has bid the most is level, and everybody else is behind.
LEMMA BidAgainKeepsBids ==
  ASSUME BidsInv, BidAgain
  PROVE  BidsInv'
<1>1. /\ StillIn # {} /\ Cardinality(Highest) > 1
      /\ count' = count + 1 /\ chip' = cur /\ allow' = [p \in Bidders |-> p \in Highest]
      /\ UNCHANGED <<phase, index, coins, items, cur>>
      /\ phase = "bid" /\ step' \in {"over", "wait"}
  BY DEF BidAgain, Closed, Settle
<1>2. /\ Price \in Nat \ {0} /\ Highest \subseteq StillIn
      /\ \A p \in StillIn : cur[p] <= Price
      /\ \A p \in Highest : cur[p] = Price
  BY <1>1, HighestStands
<1>3. Best' = Highest
  BY <1>1, <1>2 DEF Best, StillIn
<1>4. Cardinality(Highest) \in Nat
  <2>1. IsFiniteSet(Highest)
    BY <1>2, BiddingAssumption, FS_Subset DEF BiddingAssumption, StillIn
  <2> QED
    BY <2>1, FS_CardinalityType
<1>5. ASSUME NEW q \in Bidders
      PROVE  cur[q] <= Price
  <2>1. CASE q \in StillIn
    BY <1>2, <2>1
  <2>2. CASE cur[q] = NoBid
    BY <1>2, <2>2 DEF NoBid
  <2>3. CASE ~allow[q]
    <3>1. count > 0 /\ q \notin Best
      BY <2>3 DEF BidsInv, Best
    <3>2. PICK p \in StillIn : TRUE
      BY <1>1
    <3>3. p \in Best /\ p \in Bidders
      BY DEF StillIn, Best
    <3>4. cur[q] <= chip[p] /\ chip[p] <= cur[p] /\ cur[p] <= Price
      BY <1>2, <3>1, <3>3 DEF BidsInv
    <3> QED
      BY <1>2, <3>3, <3>4 DEF BidsInv
  <2> QED
    BY <2>1, <2>2, <2>3 DEF StillIn
<1>6. Discarder' = Discarder
  BY <1>1 DEF Discarder
<1>7. /\ \A p, q \in Best' : chip'[p] = chip'[q] /\ chip'[p] # NoBid
      /\ \A p \in Best', q \in Bidders : cur'[q] <= chip'[p] /\ chip'[q] <= chip'[p]
  BY <1>1, <1>2, <1>3, <1>5 DEF NoBid
<1>8. count' > 0 /\ count' \in Nat /\ Cardinality(Best') >= 2
  BY <1>1, <1>3, <1>4 DEF BidsInv
<1>9. allow' \in [Bidders -> BOOLEAN]
  BY <1>1
<1> QED
  BY <1>1, <1>6, <1>7, <1>8, <1>9 DEF BidsInv

\* What an accepted bid does.
Raises(p, c) == cur' = [cur EXCEPT ![p] = c]

\* A bid that is accepted is that of somebody who may bid, and not below his last one.
LEMMA BidKeepsBids ==
  ASSUME BidsInv, phase = "bid", step = "wait", NEW p \in Bidders, NEW c \in Nat,
         MayBid(p, c), Raises(p, c), step' \in {"wait", "over"},
         UNCHANGED <<phase, index, coins, items, allow, chip, count>>
  PROVE  BidsInv'
<1>1. p # Discarder /\ c <= coins[p] /\ allow[p] /\ c >= chip[p]
  BY DEF MayBid, BidCounts
<1>2. cur' \in [Bidders -> Nat] /\ \A q \in Bidders : cur'[q] = IF q = p THEN c ELSE cur[q]
  BY DEF Raises, BidsInv
<1>3. Discarder' = Discarder /\ Best' = Best /\ p \in Best
  BY <1>1 DEF Discarder, Best
<1>4. \A q \in Bidders : /\ chip[q] <= cur'[q] /\ cur'[q] <= coins[q]
                         /\ cur'[q] # NoBid => q # Discarder
  BY <1>1, <1>2 DEF BidsInv
<1>5. count > 0 => \A b \in Best, q \in Bidders \ Best : cur'[q] <= chip[b] /\ chip[q] <= chip[b]
  BY <1>2, <1>3 DEF BidsInv
<1> QED
  BY <1>2, <1>3, <1>4, <1>5 DEF BidsInv

\* As long as nobody has bid to the manager, nothing can be wrong with it.
LEMMA NewManagerStays ==
  ASSUME BidsInv, NewManager, UNCHANGED <<coins, cur, chip, allow, count>>
  PROVE  BidsInv'
<1>1. NewManager' /\ NoBid \in Nat
  BY DEF NewManager, NoBid
<1> QED
  BY <1>1 DEF BidsInv, NewManager, NoBid

\* At the beginning nobody has bid.
LEMMA InitBids ==
  ASSUME BidInit
  PROVE  BidsInv
<1>1. Coins \in Nat /\ NoBid \in Nat /\ NoBid = 0
  BY BiddingAssumption DEF BiddingAssumption, NoBid
<1>2. NewManager
  BY DEF BidInit, NewManager
<1> QED
  BY <1>1, <1>2 DEF BidInit, BidsInv, NewManager

\* Only a bid that is accepted, and the end of a round of bidding, touch the manager.
LEMMA BidsStep ==
  ASSUME BidsInv, [BidNext]_bidVars
  PROVE  BidsInv'
<1>1. CASE Sold
  BY <1>1, SoldKeepsBids
<1>2. CASE Unsold
  BY <1>2, ManagerGone DEF Unsold, BidsInv
<1>3. CASE BidAgain
  BY <1>3, BidAgainKeepsBids
<1>4. CASE BeginBid \/ NextItem \/ BeginDiscard \/ DiscardOver
  <2>1. NewManager
    BY <1>4 DEF BidsInv, BeginBid, NextItem, BeginDiscard, DiscardOver
  <2>2. UNCHANGED <<coins, cur, chip, allow, count>>
    BY <1>4 DEF BeginBid, NextItem, BeginDiscard, DiscardOver
  <2> QED
    BY <2>1, <2>2, NewManagerStays
<1>5. CASE Timeout
  <2>1. /\ phase' = phase /\ UNCHANGED <<coins, cur, chip, allow, count>>
        /\ Discarder' = Discarder /\ step' = "over"
    BY <1>5 DEF Timeout, Discarder
  <2> QED
    BY <2>1, BidsStay
<1>6. ASSUME NEW p \in Bidders, NEW c \in NoBid .. Coins * Cardinality(Bidders), Bid(p, c)
      PROVE  BidsInv'
  <2>1. c \in Nat
    <3>1. Coins \in Nat /\ Cardinality(Bidders) \in Nat
      BY BiddingAssumption, FS_CardinalityType DEF BiddingAssumption
    <3>2. Coins * Cardinality(Bidders) \in Int
      BY <3>1
    <3> QED
      BY <3>2, c \in NoBid .. Coins * Cardinality(Bidders) DEF NoBid
  <2>2. Raises(p, c)
    BY <1>6 DEF Bid, Raises
  <2>3. /\ phase = "bid" /\ step = "wait" /\ MayBid(p, c)
        /\ step' \in {"wait", "over"}
        /\ UNCHANGED <<phase, index, coins, items, allow, chip, count>>
    BY <1>6 DEF Bid, Active, Settle
  <2> QED
    BY <2>1, <2>2, <2>3, BidKeepsBids
<1>7. ASSUME NEW p \in Bidders, BotBids(p)
      PROVE  BidsInv'
  <2>1. /\ phase = "bid" /\ step = "wait" /\ step' \in {"wait", "over"}
        /\ UNCHANGED <<phase, index, coins, items, allow, chip, count>>
    BY <1>7 DEF BotBids, Settle
  <2>2. CASE cur' = cur
    BY <2>1, <2>2, BidsStay DEF Discarder
  <2>3. CASE cur' # cur
    <3>1. PICK c \in 1 .. coins[p] \div 4 : MayBid(p, c) /\ Raises(p, c)
      BY <1>7, <2>3 DEF BotBids, Raises
    <3>2. c \in Nat
      <4>1. coins[p] \div 4 \in Int
        BY DEF BidsInv
      <4> QED
        BY <4>1
    <3> QED
      BY <2>1, <3>1, <3>2, BidKeepsBids
  <2> QED
    BY <2>2, <2>3
<1>8. ASSUME NEW p \in Bidders, Leave(p)
      PROVE  BidsInv'
  <2>1. /\ phase' = phase /\ UNCHANGED <<coins, cur, chip, allow, count>>
        /\ Discarder' = Discarder /\ step' \in {"wait", "over"}
    BY <1>8 DEF Leave, Discarder, Settle
  <2> QED
    BY <2>1, BidsStay
<1>9. ASSUME NEW p \in Bidders, (\E cards \in SUBSET hand[p] : Discard(p, cards))
                                \/ KeepAll(p) \/ BotDiscards(p)
      PROVE  BidsInv'
  <2>1. phase = "discard" /\ UNCHANGED <<coins, cur, chip, allow, count>>
    BY <1>9 DEF Discard, KeepAll, BotDiscards
  <2> QED
    BY <2>1, NewManagerStays DEF BidsInv
<1>10. CASE UNCHANGED bidVars
  <2>1. /\ UNCHANGED <<phase, step, coins, cur, chip, allow, count>>
        /\ Discarder' = Discarder
    BY <1>10 DEF bidVars, Discarder
  <2> QED
    BY <2>1, BidsStay DEF BidsInv
<1> QED
  BY <1>1, <1>2, <1>3, <1>4, <1>5, <1>6, <1>7, <1>8, <1>9, <1>10 DEF BidNext, Internal

\* A later round of bidding is among those who were level, and nobody can fall behind
\* or bid what it has not.
THEOREM LaterRoundsAreFair == BidSpec => []LaterRoundsAreForTheBest
<1>1. BidInit => BidsInv
  BY InitBids
<1>2. BidsInv /\ [BidNext]_bidVars => BidsInv'
  BY BidsStep
<1>3. BidsInv => LaterRoundsAreForTheBest
  <2> SUFFICES ASSUME BidsInv, phase = "bid", step = "wait"
               PROVE  LaterRoundsAreForTheBest
    BY DEF LaterRoundsAreForTheBest
  <2>1. \A p \in Bidders : cur[p] <= coins[p] /\ (cur[p] # NoBid => p # Discarder)
    BY DEF BidsInv
  <2>2. ASSUME count > 0, NEW p \in Best, NEW q \in Bidders
        PROVE  cur[p] >= chip[p] /\ chip[q] <= chip[p]
    <3>1. p \in Bidders
      BY DEF Best
    <3>2. cur[p] >= chip[p]
      BY <3>1 DEF BidsInv
    <3>3. CASE q \in Best
      BY <2>2, <3>1, <3>3 DEF BidsInv
    <3>4. CASE q \notin Best
      BY <2>2, <3>1, <3>4 DEF BidsInv
    <3> QED
      BY <3>2, <3>3, <3>4
  <2> QED
    BY <2>1, <2>2 DEF LaterRoundsAreForTheBest, BidsInv, Best
<1> QED
  BY <1>1, <1>2, <1>3, PTL DEF BidSpec

-----------------------------------------------------------------------------
(* Bidding poker: what the scores share out.                                *)

\* What each deck leaves of a pool.
LeftOf(r) == r - PercentOf(r, 50)
Halves(g, r) == g = [i \in Nat |-> IF i = 0 THEN r ELSE LeftOf(g[i - 1])]

\* A pool can be halved again and again.
LEMMA HalvesExist ==
  ASSUME NEW r
  PROVE  \E g : Halves(g, r)
<1> DEFINE Right(g, k) == \A i \in 0 .. k : g[i] = IF i = 0 THEN r ELSE LeftOf(g[i - 1])
           K == {k \in Nat : \E g : Right(g, k)}
<1>1. 0 \in K
  <2> DEFINE z == [i \in {0} |-> r]
  <2>1. Right(z, 0)
    OBVIOUS
  <2> HIDE DEF z
  <2> QED
    BY <2>1
<1>2. ASSUME NEW k \in Nat, k \in K
      PROVE  k + 1 \in K
  <2>1. PICK g : Right(g, k)
    BY <1>2
  <2> DEFINE h == [i \in 0 .. k + 1 |-> IF i = k + 1 THEN LeftOf(g[k]) ELSE g[i]]
  <2>2. ASSUME NEW i \in 0 .. k + 1
        PROVE  h[i] = IF i = 0 THEN r ELSE LeftOf(h[i - 1])
    <3>1. CASE i = k + 1
      <4>1. i # 0 /\ i - 1 = k /\ k \in 0 .. k + 1 /\ k # k + 1
        BY <3>1
      <4>2. h[i] = LeftOf(g[k]) /\ h[k] = g[k]
        BY <3>1, <4>1
      <4> QED
        BY <4>1, <4>2
    <3>2. CASE i # k + 1
      <4>1. i \in 0 .. k /\ h[i] = g[i]
        BY <3>2
      <4>2. i # 0 => i - 1 \in 0 .. k + 1 /\ i - 1 # k + 1
        BY <4>1
      <4>3. i # 0 => h[i - 1] = g[i - 1]
        BY <4>2
      <4> QED
        BY <2>1, <4>1, <4>3
    <3> QED
      BY <3>1, <3>2
  <2> HIDE DEF h
  <2> QED
    BY <2>2
<1>3. ASSUME NEW k \in Nat, NEW g, NEW h, Right(g, k), Right(h, k)
      PROVE  g[k] = h[k]
  <2> DEFINE T == {i \in Nat : i <= k => g[i] = h[i]}
  <2>1. 0 \in T
    BY <1>3
  <2>2. ASSUME NEW i \in Nat, i \in T
        PROVE  i + 1 \in T
    <3> SUFFICES ASSUME i + 1 <= k
                 PROVE  g[i + 1] = h[i + 1]
      OBVIOUS
    <3>1. i + 1 \in 0 .. k /\ i + 1 # 0 /\ (i + 1) - 1 = i /\ i <= k
      OBVIOUS
    <3>2. g[i] = h[i]
      BY <2>2, <3>1
    <3>3. g[i + 1] = LeftOf(g[i]) /\ h[i + 1] = LeftOf(h[i])
      BY <1>3, <3>1
    <3> QED
      BY <3>2, <3>3
  <2> HIDE DEF T
  <2>3. k \in T
    BY <2>1, <2>2, Induction
  <2> QED
    BY <2>3 DEF T
<1>4. \A k \in Nat : \E g : Right(g, k)
  <2> HIDE DEF K
  <2>1. Nat \subseteq K
    BY <1>1, <1>2, Induction
  <2> QED
    BY <2>1 DEF K
<1> DEFINE upTo(k) == CHOOSE g : Right(g, k)
           a == [k \in Nat |-> upTo(k)[k]]
<1>5. \A k \in Nat : Right(upTo(k), k)
  BY <1>4
<1> HIDE DEF upTo
<1>6. ASSUME NEW k \in Nat
      PROVE  a[k] = IF k = 0 THEN r ELSE LeftOf(a[k - 1])
  <2>1. upTo(k)[k] = IF k = 0 THEN r ELSE LeftOf(upTo(k)[k - 1])
    BY <1>5
  <2>2. CASE k = 0
    BY <2>1, <2>2
  <2>3. CASE k # 0
    <3>1. k - 1 \in Nat /\ \A i \in 0 .. k - 1 : i \in 0 .. k
      BY <2>3
    <3>2. Right(upTo(k), k - 1) /\ Right(upTo(k - 1), k - 1)
      BY <1>5, <3>1
    <3> HIDE DEF Right
    <3>3. upTo(k)[k - 1] = upTo(k - 1)[k - 1]
      BY <1>3, <3>1, <3>2
    <3> QED
      BY <2>1, <2>3, <3>1, <3>3
  <2> QED
    BY <2>2, <2>3
<1>7. Halves(a, r)
  BY <1>6 DEF Halves
<1> QED
  BY <1>7

\* The function that the model halves by is such a one.
LEMMA HalvedIs ==
  ASSUME NEW r
  PROVE  Halves(Halved(r), r)
<1>1. Halved(r) = CHOOSE g : Halves(g, r)
  BY DEF Halved, Halves, LeftOf
<1> QED
  BY <1>1, HalvesExist

\* What is left gets less, and there is never less than nothing.
LEMMA HalvesFall ==
  ASSUME NEW r \in Nat, NEW g, Halves(g, r)
  PROVE  g[0] = r /\ \A i \in Nat : g[i] \in Nat /\ g[i + 1] <= g[i]
<1> DEFINE T == {i \in Nat : g[i] \in Nat}
<1>1. \A n \in Nat : LeftOf(n) \in Nat /\ LeftOf(n) <= n
  BY DEF LeftOf, PercentOf
<1>2. g[0] = r /\ \A i \in Nat : g[i + 1] = LeftOf(g[i])
  <2>1. \A i \in Nat : i + 1 \in Nat /\ i + 1 # 0 /\ (i + 1) - 1 = i
    OBVIOUS
  <2>2. \A i \in Nat : g[i] = IF i = 0 THEN r ELSE LeftOf(g[i - 1])
    BY DEF Halves
  <2> QED
    BY <2>1, <2>2
<1>3. 0 \in T /\ \A i \in Nat : i \in T => i + 1 \in T
  BY <1>1, <1>2
<1> HIDE DEF T
<1>4. Nat \subseteq T
  BY <1>3, Induction
<1> QED
  BY <1>1, <1>2, <1>4 DEF T

NotBehind(h, p) == {q \in Decks(h) : ~Better(h[p], h[q])}

\* Hands without a card in common.
Apart(h) == /\ h \in [Bidders -> SUBSET Cards]
            /\ \A p, q \in Bidders : p # q => h[p] \cap h[q] = {}

\* No two decks have the same place, and each place has a deck.
LEMMA PlacesAreTaken ==
  ASSUME NEW h, Apart(h)
  PROVE  /\ IsFiniteSet(Decks(h)) /\ Cardinality(Decks(h)) \in Nat
         /\ \A p \in Decks(h) : Place(h, p) \in 1 .. Cardinality(Decks(h))
         /\ \A p, q \in Decks(h) : Place(h, p) = Place(h, q) => p = q
         /\ \A i \in 1 .. Cardinality(Decks(h)) : \E p \in Decks(h) : Place(h, p) = i
<1> DEFINE D == Decks(h)
           n == Cardinality(D)
           place == [p \in D |-> Place(h, p)]
<1>1. IsFiniteSet(D) /\ n \in Nat /\ D \subseteq Bidders
  BY BiddingAssumption, FS_Subset, FS_CardinalityType DEF BiddingAssumption, Decks
<1>2. \A p \in D : Max(h[p]) \in h[p] /\ Max(h[p]) \in Nat
  <2> TAKE p \in D
  <2>1. h[p] \subseteq Nat /\ IsFiniteSet(h[p])
    BY <1>1, CardsAreFinite, FS_Subset DEF Apart
  <2>2. h[p] # {}
    <3>1. Cardinality(h[p]) >= DeckSize
      BY DEF Decks, HasDeck
    <3>2. Cardinality({}) = 0 /\ ~(0 >= DeckSize)
      BY BiddingAssumption, FS_EmptySet DEF BiddingAssumption
    <3> QED
      BY <3>1, <3>2
  <2>3. \E x \in h[p] : \A y \in h[p] : y <= x
    BY <2>1, <2>2, GreatestNumber
  <2>4. \E x \in h[p] : \A y \in h[p] : x >= y
    BY <2>1, <2>3
  <2>5. Max(h[p]) \in h[p]
    BY <2>4, Zenon DEF Max
  <2> QED
    BY <2>1, <2>5
<1>3. \A p, q \in D : p # q => Max(h[p]) # Max(h[q])
  BY <1>1, <1>2 DEF Apart
<1>4. \A p \in D : /\ p \in NotBehind(h, p)
                   /\ NotBehind(h, p) = {q \in D : Max(h[q]) >= Max(h[p])}
  BY <1>2 DEF NotBehind, Better
<1>5. \A p \in D : /\ IsFiniteSet(NotBehind(h, p)) /\ place[p] \in 1 .. n
                   /\ place[p] = Cardinality(NotBehind(h, p))
  <2> TAKE p \in D
  <2>1. NotBehind(h, p) \subseteq D
    BY DEF NotBehind
  <2>2. IsFiniteSet(NotBehind(h, p)) /\ place[p] \in Nat /\ place[p] <= n
    BY <1>1, <2>1, FS_Subset, FS_CardinalityType DEF Place, NotBehind
  <2>3. place[p] # 0
    BY <1>4, <2>2, FS_EmptySet DEF Place, NotBehind
  <2> QED
    BY <1>1, <2>2, <2>3 DEF Place, NotBehind
<1>6. ASSUME NEW p \in D, NEW q \in D, Max(h[p]) > Max(h[q])
      PROVE  place[p] # place[q]
  <2>1. /\ NotBehind(h, p) \subseteq NotBehind(h, q)
        /\ q \in NotBehind(h, q) /\ q \notin NotBehind(h, p)
    BY <1>2, <1>4, <1>6
  <2>2. Cardinality(NotBehind(h, p)) # Cardinality(NotBehind(h, q))
    BY <1>5, <2>1, FS_Subset
  <2> QED
    BY <1>5, <2>2
<1>7. \A p, q \in D : place[p] = place[q] => p = q
  <2> SUFFICES ASSUME NEW p \in D, NEW q \in D, p # q
               PROVE  place[p] # place[q]
    OBVIOUS
  <2>1. Max(h[p]) > Max(h[q]) \/ Max(h[q]) > Max(h[p])
    BY <1>2, <1>3
  <2> HIDE DEF place, D
  <2> QED
    BY <1>6, <2>1
<1>8. place \in Injection(D, 1 .. n)
  <2>1. place \in [D -> 1 .. n]
    BY <1>5
  <2> HIDE DEF place, n, D
  <2> QED
    BY <1>7, <2>1 DEF Injection, IsInjective
<1>9. IsFiniteSet(1 .. n) /\ Cardinality(1 .. n) = n
  BY <1>1, FS_Interval
<1>10. place \in Surjection(D, 1 .. n)
  BY <1>1, <1>8, <1>9, FS_Injection
<1>11. \A i \in 1 .. n : \E p \in D : place[p] = i
  BY <1>10 DEF Surjection
<1> QED
  BY <1>1, <1>5, <1>7, <1>11

\* The sum of the coins.
LEMMA SumIs ==
  ASSUME NEW f
  PROVE  SumUp(f) = SumTo(f, DOMAIN f)
BY DEF SumUp, FoldFunction, FoldFunctionOnSet, MapThenFoldSet, SumTo, Adds, Summand, OneOf

\* The decks together get the whole pool.
LEMMA PoolIsShared ==
  ASSUME NEW h, Apart(h), Decks(h) # {}, NEW pool \in Nat, NEW rest, Halves(rest, pool)
  PROVE  /\ Lowest(h) \in Decks(h)
         /\ \A p \in Bidders : Won(rest, h, p) \in Nat
         /\ SumTo([p \in Bidders |-> Won(rest, h, p)], Bidders) = pool
<1> DEFINE D == Decks(h)
           n == Cardinality(D)
           w == [p \in Bidders |-> Won(rest, h, p)]
           upTo(i) == {p \in D : Place(h, p) <= i}
           T == {i \in Nat : i < n => SumTo(w, upTo(i)) = pool - rest[i]}
<1>1. /\ IsFiniteSet(D) /\ n \in Nat
      /\ \A p \in D : Place(h, p) \in 1 .. n
      /\ \A p, q \in D : Place(h, p) = Place(h, q) => p = q
      /\ \A i \in 1 .. n : \E p \in D : Place(h, p) = i
  BY PlacesAreTaken
<1>2. rest[0] = pool /\ \A i \in Nat : rest[i] \in Nat /\ rest[i + 1] <= rest[i]
  BY HalvesFall
<1>3. n # 0
  BY <1>1, FS_EmptySet
<1>4. Lowest(h) \in D /\ Place(h, Lowest(h)) = n
  <2>1. n \in 1 .. n
    BY <1>1, <1>3
  <2>2. \E p \in D : Place(h, p) = n
    BY <1>1, <2>1
  <2> QED
    BY <2>2 DEF Lowest
<1>5. \A p \in D : (p = Lowest(h)) <=> (Place(h, p) = n)
  BY <1>1, <1>4
<1>6. \A p \in D : Won(rest, h, p) = IF Place(h, p) = n THEN rest[n - 1]
                                      ELSE rest[Place(h, p) - 1] - rest[Place(h, p)]
  <2> TAKE p \in D
  <2>1. CASE Place(h, p) = n
    <3>1. Won(rest, h, p) = rest[n - 1] - 0 /\ n - 1 \in Nat
      BY <1>1, <1>3, <1>5, <2>1 DEF Won
    <3> QED
      BY <1>2, <2>1, <3>1
  <2>2. CASE Place(h, p) # n
    BY <1>5, <2>2 DEF Won
  <2> QED
    BY <2>1, <2>2
<1>7. \A p \in Bidders : Won(rest, h, p) \in Nat
  <2> TAKE p \in Bidders
  <2>1. CASE p \notin D
    BY <2>1 DEF Won
  <2>2. CASE p \in D
    <3>1. PICK i \in Nat : Place(h, p) = i + 1 /\ i < n
      <4>1. Place(h, p) - 1 \in Nat
        BY <1>1, <2>2
      <4> QED
        BY <1>1, <2>2, <4>1
    <3>2. Place(h, p) - 1 = i
      BY <3>1
    <3>3. Place(h, p) = n => i = n - 1
      BY <1>1, <3>1
    <3>4. rest[i] \in Nat /\ rest[i + 1] \in Nat /\ rest[i] - rest[i + 1] \in Nat
      BY <1>2
    <3> QED
      BY <1>6, <2>2, <3>1, <3>2, <3>3, <3>4
  <2> QED
    BY <2>1, <2>2
<1>8. w \in [Bidders -> Int] /\ IsFiniteSet(Bidders) /\ D \subseteq Bidders
  BY <1>7, BiddingAssumption DEF BiddingAssumption, Decks
<1> HIDE DEF w
<1>9. ASSUME NEW i \in Nat, i < n
      PROVE  \E p \in D : /\ Place(h, p) = i + 1 /\ upTo(i + 1) = upTo(i) \cup {p}
                          /\ p \in Bidders \ upTo(i) /\ upTo(i) \in SUBSET Bidders
  <2>1. i + 1 \in 1 .. n
    BY <1>1, <1>9
  <2>2. PICK p \in D : Place(h, p) = i + 1
    BY <1>1, <2>1
  <2>3. \A q \in D : Place(h, q) <= i + 1 <=> Place(h, q) <= i \/ q = p
    BY <1>1, <2>2
  <2>4. ~(i + 1 <= i)
    OBVIOUS
  <2> QED
    BY <1>8, <2>2, <2>3, <2>4
<1>10. 0 \in T
  <2>1. upTo(0) = {}
    BY <1>1
  <2>2. SumTo(w, {}) = 0
    BY <1>8, SumGrows
  <2>3. SumTo(w, upTo(0)) = pool - rest[0]
    <3>1. pool - rest[0] = 0
      BY <1>2
    <3> HIDE DEF upTo, T
    <3> QED
      BY <2>1, <2>2, <3>1
  <2> QED
    BY <2>3
<1>11. ASSUME NEW i \in Nat, i \in T
       PROVE  i + 1 \in T
  <2> SUFFICES ASSUME i + 1 < n
               PROVE  SumTo(w, upTo(i + 1)) = pool - rest[i + 1]
    OBVIOUS
  <2>1. i < n
    BY <1>1
  <2>2. PICK p \in D : /\ Place(h, p) = i + 1 /\ upTo(i + 1) = upTo(i) \cup {p}
                       /\ p \in Bidders \ upTo(i) /\ upTo(i) \in SUBSET Bidders
    BY <1>9, <2>1
  <2>3. w[p] = rest[i] - rest[i + 1]
    <3>1. (i + 1) - 1 = i /\ i + 1 # n
      BY <1>1
    <3> QED
      BY <1>6, <2>2, <3>1 DEF w
  <2>4. SumTo(w, upTo(i)) = pool - rest[i]
    BY <1>11, <2>1
  <2>5. SumTo(w, upTo(i + 1)) = w[p] + SumTo(w, upTo(i))
    BY <1>8, <2>2, SumGrows
  <2>6. rest[i] \in Nat /\ rest[i + 1] \in Nat
    BY <1>2
  <2> QED
    BY <2>3, <2>4, <2>5, <2>6
<1>12. SumTo(w, upTo(n - 1)) = pool - rest[n - 1]
  <2>1. n - 1 \in Nat /\ n - 1 < n
    BY <1>1, <1>3
  <2> HIDE DEF T
  <2>2. n - 1 \in T
    BY <1>10, <1>11, <2>1, Induction
  <2> QED
    BY <2>1, <2>2 DEF T
<1>13. SumTo(w, D) = pool
  <2>1. n - 1 \in Nat /\ n - 1 < n /\ (n - 1) + 1 = n
    BY <1>1, <1>3
  <2>2. PICK p \in D : /\ Place(h, p) = n /\ upTo(n) = upTo(n - 1) \cup {p}
                       /\ p \in Bidders \ upTo(n - 1) /\ upTo(n - 1) \in SUBSET Bidders
    BY <1>9, <2>1
  <2>3. w[p] = rest[n - 1]
    BY <1>6, <2>2 DEF w
  <2>4. SumTo(w, upTo(n)) = w[p] + SumTo(w, upTo(n - 1))
    BY <1>8, <2>2, SumGrows
  <2>5. upTo(n) = D
    BY <1>1
  <2>6. rest[n - 1] \in Nat
    BY <1>2, <2>1
  <2>7. \A a \in Nat : a + (pool - a) = pool
    OBVIOUS
  <2> HIDE DEF upTo, T, n, D
  <2> QED
    BY <1>12, <2>3, <2>4, <2>5, <2>6, <2>7
<1>14. \A p \in Bidders \ D : w[p] = 0
  BY DEF w, Won
<1>15. SumTo(w, Bidders) = SumTo(w, D)
  BY <1>8, <1>14, SumOfSome
<1> QED
  BY <1>4, <1>7, <1>13, <1>15 DEF w

\* A percentage is not more than the whole.
LEMMA PercentIsLess ==
  ASSUME NEW v \in Nat, NEW k \in 0 .. 100
  PROVE  PercentOf(v, k) \in Nat /\ PercentOf(v, k) <= v
<1>1. PICK x \in Int, y \in Int : x = v * (100 - k) /\ y = v * k
  OBVIOUS
<1>2. x = 100 * v - y /\ x >= 0 /\ y >= 0
  <2>1. v * (100 - k) = 100 * v - v * k
    OBVIOUS
  <2>2. \A a, b \in Nat : a * b \in Nat
    OBVIOUS
  <2>3. 100 - k \in Nat /\ k \in Nat
    OBVIOUS
  <2>4. x \in Nat /\ y \in Nat
    BY <1>1, <2>2, <2>3
  <2> QED
    BY <1>1, <2>1, <2>4
<1>3. x \div 100 \in Nat /\ x \div 100 <= v
  BY <1>2
<1> QED
  BY <1>1, <1>3 DEF PercentOf

\* The scores share out the coins and the pool, if there is a deck.
LEMMA BonusShares ==
  ASSUME NEW c \in [Bidders -> Nat], SumUp(c) <= Coins * Cardinality(Bidders),
         NEW h, Apart(h), NEW scores,
         \A p \in Bidders : scores[p] = c[p] + PlayerBonus(c, h)[p],
         scores = [p \in Bidders |-> scores[p]]
  PROVE  /\ \A p \in Bidders : scores[p] >= 0
         /\ SumUp(scores) = IF Decks(h) = {} THEN SumUp(c) ELSE Coins * Cardinality(Bidders)
<1>1. IsFiniteSet(Bidders) /\ Coins * Cardinality(Bidders) \in Int
  <2>1. Coins \in Nat /\ Cardinality(Bidders) \in Nat
    BY BiddingAssumption, FS_CardinalityType DEF BiddingAssumption
  <2> QED
    BY <2>1, BiddingAssumption DEF BiddingAssumption
<1>2. /\ SumUp(c) = SumTo(c, Bidders) /\ SumTo(c, Bidders) \in Int
      /\ SumUp(scores) = SumTo(scores, Bidders)
  BY <1>1, SumIs, SumGrows
<1>3. CASE Decks(h) = {}
  <2>1. \A p \in Bidders : PlayerBonus(c, h)[p] = 0
    BY <1>3 DEF PlayerBonus
  <2>2. \A p \in Bidders : scores[p] = c[p]
    BY <2>1
  <2>3. scores = c
    BY <2>2
  <2> QED
    BY <1>3, <2>3
<1>4. CASE Decks(h) # {}
  <2> DEFINE lost == Lost(c, h)
             pool == Pool(c) + SumTo(lost, Bidders)
             rest == Halved(pool)
             won == [p \in Bidders |-> Won(rest, h, p)]
             kept == [p \in Bidders |-> scores[p] - won[p]]
  <2>1. \A p \in Bidders : lost[p] \in Nat /\ lost[p] <= c[p]
    <3> TAKE p \in Bidders
    <3>1. Penalty \in 0 .. 100
      BY BiddingAssumption DEF BiddingAssumption
    <3>2. PercentOf(c[p], Penalty) \in Nat /\ PercentOf(c[p], Penalty) <= c[p]
      BY <3>1, PercentIsLess
    <3> QED
      BY <3>2 DEF Lost
  <2>2. lost \in [Bidders -> Nat] /\ SumTo(lost, Bidders) \in Nat
    <3>1. lost \in [Bidders -> Nat]
      BY <2>1 DEF Lost
    <3> DEFINE zero == [p \in Bidders |-> 0]
    <3>2. SumTo(zero, Bidders) = 0
      <4>1. {} \in SUBSET Bidders /\ \A x \in Bidders : zero[x] = IF x \in {} THEN 0 ELSE 0
        OBVIOUS
      <4>2. zero \in [Bidders -> Int]
        OBVIOUS
      <4> HIDE DEF zero
      <4>3. SumTo(zero, Bidders) = 0 * Cardinality({})
        BY <1>1, <4>1, <4>2, SumCounts
      <4> QED
        BY <4>3, FS_EmptySet
    <3>3. \A p \in Bidders : zero[p] <= lost[p]
      BY <2>1
    <3>4. zero \in [Bidders -> Int] /\ lost \in [Bidders -> Int]
      BY <3>1
    <3> HIDE DEF zero, lost
    <3>5. SumTo(zero, Bidders) <= SumTo(lost, Bidders)
      BY <1>1, <3>3, <3>4, SumBelow
    <3>6. SumTo(lost, Bidders) \in Int
      BY <1>1, <3>4, SumGrows
    <3> QED
      BY <3>1, <3>2, <3>5, <3>6
  <2>3. Pool(c) = Coins * Cardinality(Bidders) - SumTo(c, Bidders) /\ pool \in Nat
    BY <1>1, <1>2, <2>2 DEF Pool
  <2>4. \A p \in Bidders : PlayerBonus(c, h)[p] = won[p] - lost[p]
    <3>1. SumUp(lost) = SumTo(lost, Bidders)
      BY <2>2, SumIs
    <3> QED
      BY <1>4, <3>1 DEF PlayerBonus
  <2> HIDE DEF lost, pool
  <2>5. Halves(rest, pool)
    BY HalvedIs
  <2> HIDE DEF rest
  <2>6. won \in [Bidders -> Nat] /\ SumTo(won, Bidders) = pool
    BY <1>4, <2>3, <2>5, PoolIsShared
  <2> HIDE DEF won
  <2>7. \A p \in Bidders : /\ scores[p] = c[p] + (won[p] - lost[p])
                           /\ c[p] \in Nat /\ won[p] \in Nat /\ lost[p] \in Nat
    BY <2>2, <2>4, <2>6
  <2>8. \A p \in Bidders : scores[p] = kept[p] + won[p] /\ c[p] = kept[p] + lost[p]
    BY <2>7
  <2>9. kept \in [Bidders -> Int] /\ scores \in [Bidders -> Int]
    BY <2>7
  <2> HIDE DEF kept
  <2>10. SumTo(scores, Bidders) = SumTo(kept, Bidders) + SumTo(won, Bidders)
    BY <1>1, <2>6, <2>8, <2>9, SumAdds
  <2>11. SumTo(c, Bidders) = SumTo(kept, Bidders) + SumTo(lost, Bidders)
    BY <1>1, <2>2, <2>8, <2>9, SumAdds
  <2>12. SumTo(kept, Bidders) \in Int
    BY <1>1, <2>9, SumGrows
  <2>13. SumUp(scores) = Coins * Cardinality(Bidders)
    BY <1>1, <1>2, <2>2, <2>3, <2>6, <2>10, <2>11, <2>12 DEF pool
  <2>14. \A p \in Bidders : scores[p] >= 0
    BY <2>1, <2>7
  <2> QED
    BY <1>4, <2>13, <2>14
<1> QED
  BY <1>3, <1>4

\* The bonus is always up to date, and nobody has made coins.
ScoresInv ==
    /\ SumUp(coins) <= Coins * Cardinality(Bidders)
    /\ bonus = PlayerBonus(coins, hand)

\* What is paid goes to the seller or into the pool.
LEMMA PaymentKeepsCoins ==
  ASSUME BidsInv, Sold
  PROVE  SumUp(coins') <= SumUp(coins)
<1>1. PICK w \in Highest : coins' = [p \in Bidders |->
                              coins[p] + (IF p = Discarder THEN Price ELSE 0)
                                       - (IF p = w THEN Price ELSE 0)]
  <2>1. StillIn # {}
    BY FS_EmptySet DEF Sold
  <2>2. (CHOOSE p \in Highest : TRUE) \in Highest
    BY <2>1, HighestStands
  <2> QED
    BY <2>2 DEF Sold
<1>2. Price \in Nat /\ w \in Bidders
  <2>1. StillIn # {}
    BY <1>1 DEF Highest
  <2> QED
    BY <1>1, <2>1, HighestStands DEF Highest, StillIn
<1>3. IsFiniteSet(Bidders) /\ coins \in [Bidders -> Nat]
  BY BiddingAssumption DEF BiddingAssumption, BidsInv
<1> DEFINE seller == {p \in Bidders : p = Discarder}
           got == [p \in Bidders |-> IF p \in seller THEN Price ELSE 0]
           gave == [p \in Bidders |-> IF p \in {w} THEN Price ELSE 0]
           kept == [p \in Bidders |-> coins[p] - gave[p]]
<1>4. /\ got \in [Bidders -> Int] /\ gave \in [Bidders -> Int] /\ kept \in [Bidders -> Int]
      /\ \A p \in Bidders : coins[p] = kept[p] + gave[p] /\ coins'[p] = kept[p] + got[p]
  <2> HIDE DEF BidsInv
  <2> QED
    BY <1>1, <1>2, <1>3
<1>5. coins' \in [Bidders -> Int]
  BY <1>1, <1>2, <1>3
<1>6. SumTo(gave, Bidders) = Price * Cardinality({w})
  <2>1. {w} \in SUBSET Bidders /\ \A p \in Bidders : gave[p] = IF p \in {w} THEN Price ELSE 0
    BY <1>2
  <2> HIDE DEF gave
  <2> QED
    BY <1>2, <1>3, <1>4, <2>1, SumCounts
<1>7. SumTo(got, Bidders) = Price * Cardinality(seller)
  <2>1. seller \in SUBSET Bidders /\ \A p \in Bidders : got[p] = IF p \in seller THEN Price ELSE 0
    OBVIOUS
  <2> HIDE DEF got, seller
  <2> QED
    BY <1>2, <1>3, <1>4, <2>1, SumCounts
<1>8. SumTo(got, Bidders) <= SumTo(gave, Bidders)
  <2>1. Cardinality({w}) = 1
    BY FS_Singleton
  <2>2. Cardinality(seller) = 0 \/ Cardinality(seller) = 1
    <3>1. seller = {} \/ seller = {Discarder}
      OBVIOUS
    <3> HIDE DEF seller
    <3> QED
      BY <3>1, FS_EmptySet, FS_Singleton
  <2> HIDE DEF seller, got, gave
  <2>3. Price * 0 = 0 /\ Price * 1 = Price
    BY <1>2
  <2> QED
    BY <1>2, <1>6, <1>7, <2>1, <2>2, <2>3
<1> HIDE DEF got, gave, kept, seller
<1>9. SumTo(coins, Bidders) = SumTo(kept, Bidders) + SumTo(gave, Bidders)
  BY <1>3, <1>4, SumAdds
<1>10. SumTo(coins', Bidders) = SumTo(kept, Bidders) + SumTo(got, Bidders)
  <2>1. PICK after : after = coins'
    OBVIOUS
  <2>2. after \in [Bidders -> Int] /\ \A p \in Bidders : after[p] = kept[p] + got[p]
    BY <1>4, <1>5, <2>1
  <2>3. IsFiniteSet(Bidders) /\ kept \in [Bidders -> Int] /\ got \in [Bidders -> Int]
    BY <1>3, <1>4
  <2>4. SumTo(after, Bidders) = SumTo(kept, Bidders) + SumTo(got, Bidders)
    BY <2>2, <2>3, SumAdds
  <2> QED
    BY <2>1, <2>4
<1>11. SumTo(kept, Bidders) \in Int /\ SumTo(got, Bidders) \in Int /\ SumTo(gave, Bidders) \in Int
  BY <1>3, <1>4, SumGrows
<1>12. SumUp(coins) = SumTo(coins, Bidders) /\ SumUp(coins') = SumTo(coins', Bidders)
  BY <1>3, <1>5, SumIs
<1> QED
  BY <1>8, <1>9, <1>10, <1>11, <1>12

\* At first nobody has a deck.
LEMMA InitScores == BidInit => ScoresInv
<1> SUFFICES ASSUME BidInit
             PROVE  ScoresInv
  OBVIOUS
<1>1. IsFiniteSet(Bidders) /\ Coins \in Nat
  BY BiddingAssumption DEF BiddingAssumption
<1>2. SumTo(coins, Bidders) = Coins * Cardinality(Bidders)
  <2>1. /\ coins \in [Bidders -> Int] /\ Bidders \in SUBSET Bidders
        /\ \A p \in Bidders : coins[p] = IF p \in Bidders THEN Coins ELSE 0
    BY <1>1 DEF BidInit
  <2> QED
    BY <1>1, <2>1, SumCounts
<1>3. SumUp(coins) = SumTo(coins, Bidders) /\ SumTo(coins, Bidders) \in Int
  <2>1. coins \in [Bidders -> Int]
    BY <1>1 DEF BidInit
  <2> QED
    BY <1>1, <2>1, SumIs, SumGrows
<1>4. Decks(hand) = {}
  <2>1. Cardinality({}) = 0 /\ ~(0 >= DeckSize)
    BY BiddingAssumption, FS_EmptySet DEF BiddingAssumption
  <2>2. \A p \in Bidders : hand[p] = {}
    BY DEF BidInit
  <2> QED
    BY <2>1, <2>2 DEF Decks, HasDeck
<1>5. PlayerBonus(coins, hand) = [p \in Bidders |-> 0]
  BY <1>4 DEF PlayerBonus
<1> QED
  BY <1>2, <1>3, <1>5 DEF ScoresInv, BidInit

\* Every stage that moves coins or cards brings the bonus up to date.
LEMMA ScoresStep ==
  ASSUME CardsInv, BidsInv, ScoresInv, [BidNext]_bidVars
  PROVE  ScoresInv'
<1>0. /\ SumUp(coins) \in Int /\ Coins * Cardinality(Bidders) \in Int
      /\ SumUp(coins)' = SumUp(coins')
      /\ PlayerBonus(coins, hand)' = PlayerBonus(coins', hand')
  <2>1. /\ IsFiniteSet(Bidders) /\ coins \in [Bidders -> Nat]
        /\ Coins \in Nat /\ Cardinality(Bidders) \in Nat
    BY BiddingAssumption, FS_CardinalityType DEF BiddingAssumption, BidsInv
  <2>2. SumUp(coins) \in Int
    BY <2>1, SumIs, SumGrows
  <2> QED
    BY <2>1, <2>2
<1>1. CASE UNCHANGED <<coins, bonus, hand>>
  BY <1>0, <1>1 DEF ScoresInv
<1>2. CASE Sold
  <2>1. SumUp(coins') <= SumUp(coins) /\ bonus' = PlayerBonus(coins', hand')
    BY <1>2, PaymentKeepsCoins DEF Sold
  <2>2. SumUp(coins') \in Int
    <3>1. coins' \in [Bidders -> Nat] /\ IsFiniteSet(Bidders)
      BY <1>2, BiddingAssumption, SoldKeepsBids DEF BiddingAssumption, BidsInv
    <3> QED
      BY <3>1, SumIs, SumGrows
  <2> QED
    BY <1>0, <2>1, <2>2 DEF ScoresInv
<1>3. CASE Unsold
  BY <1>0, <1>3 DEF Unsold, ScoresInv
<1>4. CASE DiscardOver
  <2> DEFINE goods == {items[i] : i \in {j \in DOMAIN items : items[j].cards # {}}}
             of(p) == UNION {g.cards : g \in {x \in goods : x.discarder = p}}
  <2>1. /\ coins' = coins /\ hand' = [p \in Bidders |-> hand[p] \ of(p)]
        /\ bonus' = IF goods = {} THEN bonus ELSE PlayerBonus(coins, hand')
    BY <1>4 DEF DiscardOver
  <2>2. CASE goods = {}
    <3>1. \A p \in Bidders : of(p) = {}
      BY <2>2
    <3> HIDE DEF of
    <3>2. hand' = hand
      BY <2>1, <3>1 DEF CardsInv
    <3> QED
      BY <1>0, <2>1, <2>2, <3>2 DEF ScoresInv
  <2>3. CASE goods # {}
    BY <1>0, <2>1, <2>3 DEF ScoresInv
  <2> QED
    BY <2>2, <2>3
<1>5. CASE BeginBid \/ BidAgain \/ NextItem \/ BeginDiscard \/ Timeout \/ UNCHANGED bidVars
  BY <1>1, <1>5 DEF BeginBid, BidAgain, NextItem, BeginDiscard, Timeout, bidVars
<1>6. ASSUME NEW p \in Bidders,
             \/ \E c \in NoBid .. Coins * Cardinality(Bidders) : Bid(p, c)
             \/ \E cards \in SUBSET hand[p] : Discard(p, cards)
             \/ KeepAll(p) \/ BotBids(p) \/ BotDiscards(p) \/ Leave(p)
      PROVE  UNCHANGED <<coins, bonus, hand>>
  BY <1>6 DEF Bid, Discard, KeepAll, BotBids, BotDiscards, Leave
<1> QED
  BY <1>1, <1>2, <1>3, <1>4, <1>5, <1>6 DEF BidNext, Internal

\* However many players there are and whatever they pay for the cards: as soon as one
\* has a deck the scores share out all coins, the pool included, and no score is
\* negative.
THEOREM CoinsAreSharedOut == BidSpec => []ScoresShareOutAll
<1>1. CardsInv /\ BidsInv /\ ScoresInv => ScoresShareOutAll
  <2> SUFFICES ASSUME CardsInv, BidsInv, ScoresInv
               PROVE  ScoresShareOutAll
    OBVIOUS
  <2> DEFINE scores == [p \in Bidders |-> PlayerScore(p)]
  <2>1. Apart(hand) /\ coins \in [Bidders -> Nat] /\ bonus = PlayerBonus(coins, hand)
    BY DEF CardsInv, Placed, BidsInv, ScoresInv, Apart
  <2>2. \A p \in Bidders : scores[p] = coins[p] + PlayerBonus(coins, hand)[p]
    BY <2>1 DEF PlayerScore
  <2>3. scores = [p \in Bidders |-> scores[p]]
    OBVIOUS
  <2> HIDE DEF scores
  <2>4. /\ \A p \in Bidders : scores[p] >= 0
        /\ SumUp(scores) = IF Decks(hand) = {} THEN SumUp(coins) ELSE Coins * Cardinality(Bidders)
    BY <2>1, <2>2, <2>3, BonusShares DEF ScoresInv
  <2> QED
    BY <2>1, <2>4 DEF ScoresShareOutAll, scores, Decks
<1>2. BidInit => CardsInv /\ BidsInv /\ ScoresInv
  BY InitCards, InitBids, InitScores
<1>3. CardsInv /\ BidsInv /\ ScoresInv /\ [BidNext]_bidVars => (CardsInv /\ BidsInv /\ ScoresInv)'
  BY CardsStep, BidsStep, ScoresStep
<1> QED
  BY <1>1, <1>2, <1>3, PTL DEF BidSpec


-----------------------------------------------------------------------------
(* Crowd: which choices count.                                              *)

\* A choice that may be given points: an option of the question and, under special
\* rule 9, not the last one of a player who is there.
Legal(p) ==
    /\ people[p].select < Options(question, Seats)
    /\ rule = 9 /\ Present(p) => people[p].select # people[p].lastSelect

\* Whoever is ready has chosen what he may; before the question is drawn nobody is.
ChoicesInv ==
    /\ people = [p \in Everyone |-> [select |-> people[p].select,
                                     lastSelect |-> people[p].lastSelect,
                                     score |-> people[p].score, last |-> people[p].last]]
    /\ \A p \in Everyone : people[p].select \in Int
    /\ ready \in Mask!Masker
    /\ stage \in {"begin", "wait", "over", "done"}
    /\ stage \in {"wait", "over"} =>
          /\ question \in Asked
          /\ \A p \in Everyone : ready.ready[p] => Legal(p)
    /\ stage = "begin" => \A p \in Everyone : ~ready.ready[p]

\* The questions that create_question and test_question know.
Questions == 1 .. all_question_num + t_question_num

\* Every question of the game, also those of test mode 2, has a second option.
LEMMA TwoOptions ==
  ASSUME NEW q \in Questions, NEW n \in Nat, n >= 4
  PROVE  Options(q, n) \in Int /\ Options(q, n) >= 2
<1>1. ASSUME NEW k \in Nat, k >= 4
      PROVE  Min({n, k}) \in Int /\ Min({n, k}) >= 4
  <2>1. \E x \in {n, k} : \A y \in {n, k} : x <= y
    BY <1>1
  <2>2. Min({n, k}) \in {n, k}
    BY <2>1 DEF Min
  <2> QED
    BY <1>1, <2>2
<1>2. CASE q \in {61, 83}
  BY <1>1, <1>2 DEF Options
<1>3. CASE q \in {62, 66}
  BY <1>3 DEF Options
<1>4. CASE q \notin {61, 62, 66, 83}
  BY <1>4 DEF Options, Questions, all_question_num, t_question_num
<1> QED
  BY <1>2, <1>3, <1>4

\* The masker after its methods.
LEMMA MaskersStay ==
  ASSUME NEW m \in Mask!Masker, NEW p \in Everyone
  PROVE  /\ Mask!SetActive(m, p) \in Mask!Masker
         /\ Mask!SetActive(m, p).ready = m.ready
         /\ Mask!SetReady(m, p) \in Mask!Masker
         /\ Mask!SetReady(m, p).ready = [m.ready EXCEPT ![p] = TRUE]
         /\ Mask!SilentlySetReady(m, p) \in Mask!Masker
         /\ Mask!SilentlySetReady(m, p).ready = [m.ready EXCEPT ![p] = TRUE]
         /\ Mask!SetPermanentInactive(m, p) \in Mask!Masker
         /\ Mask!SetPermanentInactive(m, p).ready = m.ready
<1>1. /\ Mask!SetActive(m, p) \in Mask!Masker
      /\ Mask!SetActive(m, p).ready = m.ready
  BY DEF Mask!Masker, Mask!SetActive, Mask!ActiveState
<1>2. /\ Mask!SetReady(m, p) \in Mask!Masker
      /\ Mask!SetReady(m, p).ready = [m.ready EXCEPT ![p] = TRUE]
  BY DEF Mask!Masker, Mask!SetReady
<1>3. /\ Mask!SilentlySetReady(m, p) \in Mask!Masker
      /\ Mask!SilentlySetReady(m, p).ready = [m.ready EXCEPT ![p] = TRUE]
  BY DEF Mask!Masker, Mask!SilentlySetReady
<1>4. /\ Mask!SetPermanentInactive(m, p) \in Mask!Masker
      /\ Mask!SetPermanentInactive(m, p).ready = m.ready
  BY DEF Mask!Masker, Mask!SetPermanentInactive, Mask!Inactivate, Mask!ActiveState
<1> QED
  BY <1>1, <1>2, <1>3, <1>4

\* Whoever could not be waited for, a new round begins with nobody ready.
LEMMA MaskersClear ==
  ASSUME NEW m \in Mask!Masker
  PROVE  /\ Mask!ClearReady(m) \in Mask!Masker
         /\ \A p \in Everyone : ~Mask!ClearReady(m).ready[p]
         /\ \A S \in SUBSET Everyone : Mask!SetTemporaryInactive(m, S) \in Mask!Masker
BY DEF Mask!Masker, Mask!ClearReady, Mask!SetTemporaryInactive, Mask!Inactivate,
       Mask!ActiveState

\* The choices of a round's end become the last ones, whatever the points.
LEMMA CountedChoices ==
  ASSUME ChoicesInv, NEW m, EndRound(m)
  PROVE  /\ people' = [p \in Everyone |-> [select |-> people'[p].select,
                                           lastSelect |-> people'[p].lastSelect,
                                           score |-> people'[p].score,
                                           last |-> people'[p].last]]
         /\ \A p \in Everyone : /\ people'[p].select = Defaulted[p].select
                                /\ people'[p].lastSelect = Defaulted[p].select
<1>1. PICK scores, counted : /\ counted = Counted(Defaulted, scores)
                             /\ people' = IF turn + 1 > Turns THEN GameEnd(counted) ELSE counted
  BY DEF EndRound
<1>2. \A p \in Everyone :
         counted[p] = [select |-> Defaulted[p].select, lastSelect |-> Defaulted[p].select,
                       score |-> counted[p].score, last |-> counted[p].last]
  BY <1>1 DEF Counted
<1>3. counted = [p \in Everyone |-> counted[p]]
  BY <1>1 DEF Counted
<1>4. CASE people' = counted
  BY <1>2, <1>3, <1>4
<1>5. CASE people' = GameEnd(counted)
  <2>1. people' = [p \in Everyone |-> people'[p]]
    BY <1>5 DEF GameEnd
  <2>2. ASSUME NEW p \in Everyone
        PROVE  \E s : people'[p] = [counted[p] EXCEPT !.score = s]
    BY <1>5 DEF GameEnd
  <2>3. ASSUME NEW p \in Everyone
        PROVE  people'[p] = [select |-> Defaulted[p].select, lastSelect |-> Defaulted[p].select,
                             score |-> people'[p].score, last |-> people'[p].last]
    <3>1. PICK s : people'[p] = [counted[p] EXCEPT !.score = s]
      BY <2>2
    <3>2. PICK d, x, y : counted[p] = [select |-> d, lastSelect |-> d, score |-> x, last |-> y]
                         /\ d = Defaulted[p].select
      BY <1>2
    <3>3. people'[p] = [select |-> d, lastSelect |-> d, score |-> s, last |-> y]
      BY <3>1, <3>2
    <3> QED
      BY <3>2, <3>3
  <2> QED
    BY <2>1, <2>3
<1> QED
  BY <1>1, <1>4, <1>5

\* Who has not chosen is given a legal choice.
LEMMA DefaultsAreLegal ==
  ASSUME ChoicesInv, stage \in {"wait", "over"}, NEW p \in Everyone
  PROVE  /\ Defaulted[p].select \in Int
         /\ Defaulted[p].select < Options(question, Seats)
         /\ rule = 9 /\ Present(p) => Defaulted[p].select # people[p].lastSelect
<1>1. Options(question, Seats) \in Int /\ Options(question, Seats) >= 2
  BY TwoOptions, CrowdAssumption DEF ChoicesInv, CrowdAssumption, Questions
<1>2. CASE ready.ready[p]
  BY <1>2 DEF Defaulted, ChoicesInv, Legal
<1>3. CASE ~ready.ready[p]
  <2>1. people[p] = [select |-> people[p].select, lastSelect |-> people[p].lastSelect,
                     score |-> people[p].score, last |-> people[p].last]
    BY DEF ChoicesInv
  <2>2. Defaulted[p].select = DefaultSelect(people[p])
    BY <1>3, <2>1 DEF Defaulted
  <2> QED
    BY <1>1, <2>2 DEF DefaultSelect
<1> QED
  BY <1>2, <1>3

\* In the beginning nobody has chosen.
LEMMA InitChoices == CrowdInit => ChoicesInv
BY DEF CrowdInit, ChoicesInv, NewPlayer, Mask!NewMasker, Mask!Masker, Mask!ActiveState

\* A round that is over leaves the next one to begin.
LEMMA EndKeepsChoices ==
  ASSUME ChoicesInv, NEW m \in Mask!Masker, stage \in {"wait", "over"}, EndRound(m)
  PROVE  ChoicesInv'
<1>1. /\ ready' = Mask!ClearReady(m) /\ stage' \in {"begin", "done"}
  BY DEF EndRound
<1>2. ready' \in Mask!Masker /\ \A p \in Everyone : ~ready'.ready[p]
  BY <1>1, MaskersClear
<1> QED
  BY <1>1, <1>2, CountedChoices, DefaultsAreLegal DEF ChoicesInv

\* What p has chosen is o now.
Chooses(p, o) == people' = [people EXCEPT ![p].select = o]

\* In a round a request changes the choice of one player, who is ready or has left.
LEMMA RequestKeepsChoices ==
  ASSUME ChoicesInv, stage = "wait", NEW p \in Everyone,
         NEW o \in Int, Chooses(p, o),
         o < Options(question, Seats),
         rule = 9 /\ Present(p)' => o # people[p].lastSelect,
         ready' \in Mask!Masker,
         \A q \in Everyone \ {p} : ready'.ready[q] = ready.ready[q],
         stage' \in {"wait", "over"}, question' = question, rule' = rule,
         gone \subseteq gone'
  PROVE  ChoicesInv'
<1>1. people'[p] = [people[p] EXCEPT !.select = o]
  BY DEF ChoicesInv, Chooses
<1>2. \A q \in Everyone \ {p} : people'[q] = people[q]
  BY DEF ChoicesInv, Chooses
<1>3. people[p] = [select |-> people[p].select, lastSelect |-> people[p].lastSelect,
                   score |-> people[p].score, last |-> people[p].last]
  BY DEF ChoicesInv
<1>4. people'[p] = [select |-> o, lastSelect |-> people[p].lastSelect,
                    score |-> people[p].score, last |-> people[p].last]
  BY <1>1, <1>3
<1>5. \A q \in Everyone :
         people'[q] = [select |-> people'[q].select, lastSelect |-> people'[q].lastSelect,
                       score |-> people'[q].score, last |-> people'[q].last]
  BY <1>2, <1>4 DEF ChoicesInv
<1>6. people' = [q \in Everyone |-> people'[q]]
  BY DEF ChoicesInv, Chooses
<1>7. ASSUME NEW q \in Everyone, ready'.ready[q]
      PROVE  Legal(q)'
  <2>1. CASE q = p
    BY <1>4, <2>1 DEF Legal, Present
  <2>2. CASE q # p
    BY <1>2, <1>7, <2>2 DEF Legal, Present, ChoicesInv
  <2> QED
    BY <2>1, <2>2
<1>8. people' = [q \in Everyone |-> [select |-> people'[q].select,
                                     lastSelect |-> people'[q].lastSelect,
                                     score |-> people'[q].score, last |-> people'[q].last]]
  BY <1>5, <1>6
<1>9. \A q \in Everyone : people'[q].select \in Int
  BY <1>2, <1>4 DEF ChoicesInv
<1> QED
  BY <1>7, <1>8, <1>9 DEF ChoicesInv

\* Every request, round and time-out keeps the choices legal.
LEMMA ChoicesStep ==
  ASSUME ChoicesInv, [CrowdNext]_crowdVars
  PROVE  ChoicesInv'
<1>1. CASE UNCHANGED crowdVars
  BY <1>1 DEF crowdVars, ChoicesInv, Legal, Present
<1>2. CASE BeginRound
  <2>1. /\ stage = "begin" /\ stage' \in {"wait", "over"} /\ question' \in Asked
        /\ UNCHANGED <<rule, people, ready, gone>>
    BY <1>2 DEF BeginRound, SettleRound
  <2> QED
    BY <2>1 DEF ChoicesInv
<1>3. CASE RoundOver
  BY <1>3, EndKeepsChoices DEF RoundOver, ChoicesInv
<1>4. CASE RoundTimeout
  <2>1. PICK m : m = Mask!SetTemporaryInactive(ready, {p \in Everyone : ~ready.ready[p]})
    OBVIOUS
  <2>2. m \in Mask!Masker /\ EndRound(m) /\ stage = "wait"
    BY <1>4, <2>1, MaskersClear DEF RoundTimeout, ChoicesInv
  <2> QED
    BY <2>2, EndKeepsChoices
<1>5. ASSUME NEW p \in Everyone, NEW o \in Letters, Submit(p, o)
      PROVE  ChoicesInv'
  <2>1. /\ stage = "wait" /\ stage' \in {"wait", "over"} /\ UNCHANGED <<rule, question, gone>>
        /\ ready \in Mask!Masker /\ question \in Asked /\ o \in Int
    BY <1>5, CrowdAssumption DEF Submit, SettleRound, ChoicesInv, CrowdAssumption
  <2>2. PICK m : m = Mask!SetActive(ready, p)
    OBVIOUS
  <2>3. m \in Mask!Masker /\ m.ready = ready.ready
    BY <2>1, <2>2, MaskersStay
  <2>4. CASE Refused(p, o)
    <3>1. ready' = m /\ UNCHANGED people
      BY <1>5, <2>2, <2>4 DEF Submit
    <3> QED
      BY <2>1, <2>3, <3>1 DEF ChoicesInv, Legal, Present
  <2>5. CASE ~Refused(p, o)
    <3>1. ready' = Mask!SetReady(m, p) /\ Chooses(p, o)
      BY <1>5, <2>2, <2>5 DEF Submit, Chooses
    <3>2. Options(question, Seats) \in Int
      BY <2>1, TwoOptions, CrowdAssumption DEF CrowdAssumption, Questions
    <3>3. o < Options(question, Seats) /\ (rule = 9 => o # people[p].lastSelect)
      BY <2>1, <2>5, <3>2 DEF Refused
    <3>4. ready' \in Mask!Masker /\ ready'.ready = [ready.ready EXCEPT ![p] = TRUE]
      BY <2>3, <3>1, MaskersStay
    <3>5. \A q \in Everyone \ {p} : ready'.ready[q] = ready.ready[q]
      BY <2>1, <3>4 DEF Mask!Masker
    <3> QED
      BY <2>1, <3>1, <3>3, <3>4, <3>5, RequestKeepsChoices
  <2> QED
    BY <2>4, <2>5
<1>6. ASSUME NEW p \in Everyone, NEW o \in Expects, MachineSubmits(p, o)
      PROVE  ChoicesInv'
  <2>1. /\ stage = "wait" /\ stage' \in {"wait", "over"} /\ UNCHANGED <<rule, question, gone>>
        /\ ready \in Mask!Masker /\ question \in Asked /\ o \in Int
        /\ p \in Machines /\ o + 1 <= Options(question, Seats)
        /\ Chooses(p, o)
        /\ ready' = Mask!SilentlySetReady(ready, p)
    BY <1>6, CrowdAssumption DEF MachineSubmits, Chooses, SettleRound, ChoicesInv, CrowdAssumption
  <2>2. Options(question, Seats) \in Int
    BY <2>1, TwoOptions, CrowdAssumption DEF CrowdAssumption, Questions
  <2>3. ready' \in Mask!Masker /\ ready'.ready = [ready.ready EXCEPT ![p] = TRUE]
    BY <2>1, MaskersStay
  <2>4. \A q \in Everyone \ {p} : ready'.ready[q] = ready.ready[q]
    BY <2>1, <2>3 DEF Mask!Masker
  <2>5. ~Present(p)'
    BY <2>1 DEF Present
  <2>6. o < Options(question, Seats)
    BY <2>1, <2>2
  <2> QED
    BY <2>1, <2>3, <2>4, <2>5, <2>6, RequestKeepsChoices
<1>7. ASSUME NEW p \in Everyone, LeaveGame(p)
      PROVE  ChoicesInv'
  <2>1. /\ stage = "wait" /\ stage' \in {"wait", "over"} /\ UNCHANGED <<rule, question>>
        /\ ready \in Mask!Masker /\ question \in Asked
        /\ Chooses(p, 0)
        /\ ready' = Mask!SetPermanentInactive(ready, p) /\ gone' = gone \cup {p}
    BY <1>7 DEF LeaveGame, SettleRound, ChoicesInv, Chooses
  <2>2. 0 < Options(question, Seats)
    BY <2>1, TwoOptions, CrowdAssumption DEF CrowdAssumption, Questions
  <2>3. ready' \in Mask!Masker /\ ready'.ready = ready.ready
    BY <2>1, MaskersStay
  <2>4. ~Present(p)'
    BY <2>1 DEF Present
  <2> QED
    BY <2>1, <2>2, <2>3, <2>4, RequestKeepsChoices
<1> QED
  BY <1>1, <1>2, <1>3, <1>4, <1>5, <1>6, <1>7 DEF CrowdNext

\* In every question of the game and for every number of players: whatever was
\* submitted, taken back or left open when the time was up, points are given for options
\* of the question, and under special rule 9 for other ones than in the round before.
THEOREM OnlyLegalChoicesCount == CrowdSpec => ChoicesAreLegal
<1> DEFINE LegalStep ==
      turn' # turn =>
        \A p \in Everyone :
            /\ people'[p].lastSelect < Options(question, Seats)
            /\ rule = 9 /\ Present(p) => people'[p].lastSelect # people[p].lastSelect
<1>1. ASSUME ChoicesInv, [CrowdNext]_crowdVars
      PROVE  [LegalStep]_crowdVars
  <2> SUFFICES ASSUME turn' # turn
               PROVE  LegalStep
    OBVIOUS
  <2>1. RoundOver \/ RoundTimeout
    BY <1>1 DEF CrowdNext, crowdVars, BeginRound, Submit, MachineSubmits, LeaveGame
  <2>2. PICK m : EndRound(m) /\ stage \in {"wait", "over"}
    BY <2>1 DEF RoundOver, RoundTimeout
  <2>3. \A p \in Everyone : people'[p].lastSelect = Defaulted[p].select
    BY <1>1, <2>2, CountedChoices
  <2> QED
    BY <1>1, <2>2, <2>3, DefaultsAreLegal
<1>2. [][ChoicesInv /\ ChoicesInv' /\ [CrowdNext]_crowdVars]_crowdVars => ChoicesAreLegal
  <2>1. ChoicesInv /\ ChoicesInv' /\ [CrowdNext]_crowdVars => [LegalStep]_crowdVars
    BY <1>1
  <2> QED
    BY <2>1, PTL DEF ChoicesAreLegal
<1> QED
  BY <1>2, InitChoices, ChoicesStep, PTL DEF CrowdSpec

-----------------------------------------------------------------------------
(* The pots of a betting game.                                              *)

\* Those the loop has come to, what they have bet, and how much of it is up to n.
Done == Bettors \ left
Gone == {stake[b] : b \in Done} \ {0}
UpTo(n) == {l \in Gone : l <= n}

Pot == [total_coins : Nat, winner_ids : SUBSET Bettors, participant_ids : SUBSET Bettors]

\* The loop has taken the same from everybody it has not come to, the highest bet it
\* has come to, and has opened the pots of all levels up to there.
PotsInv ==
    /\ stake \in [Bettors -> Nat] /\ remains \in [Bettors -> Nat]
    /\ left \subseteq Bettors /\ pots \in Seq(Pot)
    /\ dividing =>
         /\ \E base \in Gone \cup {0} :
               /\ \A d \in Done : stake[d] <= base
               /\ \A o \in left : base <= stake[o] /\ remains[o] = stake[o] - base
         /\ \A d \in Done : remains[d] = 0
         /\ Len(pots) = Cardinality(Gone)
         /\ \A n \in Gone : pots[Cardinality(UpTo(n))] = PotOf(n)

\* The bets that the loop has come to are finitely many.
LEMMA GoneIsFinite ==
  ASSUME PotsInv
  PROVE  /\ IsFiniteSet(Gone) /\ Gone \subseteq Nat \ {0} /\ Cardinality(Gone) \in Nat
         /\ \A n \in Gone : Cardinality(UpTo(n)) \in 1 .. Cardinality(Gone)
<1>1. IsFiniteSet(Done)
  BY BetAssumption, FS_Subset DEF BetAssumption, Done
<1>2. IsFiniteSet({stake[b] : b \in Done})
  BY <1>1, FiniteValues
<1>3. IsFiniteSet(Gone) /\ Cardinality(Gone) \in Nat
  BY <1>2, FS_Subset, FS_CardinalityType DEF Gone
<1>4. Gone \subseteq Nat \ {0}
  BY DEF PotsInv, Gone, Done
<1>5. ASSUME NEW n \in Gone
      PROVE  Cardinality(UpTo(n)) \in 1 .. Cardinality(Gone)
  <2>1. UpTo(n) \subseteq Gone /\ n \in UpTo(n)
    BY <1>4 DEF UpTo
  <2>2. IsFiniteSet(UpTo(n)) /\ Cardinality(UpTo(n)) <= Cardinality(Gone)
    BY <1>3, <2>1, FS_Subset
  <2>3. Cardinality(UpTo(n)) \in Nat /\ Cardinality(UpTo(n)) # 0
    BY <2>1, <2>2, FS_CardinalityType, FS_EmptySet
  <2> QED
    BY <1>3, <2>2, <2>3
<1> QED
  BY <1>3, <1>4, <1>5

\* A bet that is no higher than the last opens no pot.
LEMMA NoNewPot ==
  ASSUME PotsInv, NEW b \in Bettors, Divide(b), remains[b] = 0
  PROVE  PotsInv'
<1>1. /\ dividing /\ b \in left /\ stake' = stake /\ pots' = pots /\ left' = left \ {b}
      /\ dividing' /\ remains' = [o \in Bettors |-> IF o \in left THEN remains[o] - 0 ELSE remains[o]]
      /\ \A n : PotOf(n)' = PotOf(n)
  BY DEF Divide, PotOf, BestOf, Levels
<1>2. PICK base \in Gone \cup {0} :
         /\ \A d \in Done : stake[d] <= base
         /\ \A o \in left : base <= stake[o] /\ remains[o] = stake[o] - base
  BY <1>1 DEF PotsInv
<1>3. stake[b] = base
  <2>1. stake[b] \in Nat /\ base \in Nat
    BY <1>2, GoneIsFinite DEF PotsInv
  <2> QED
    BY <1>1, <1>2, <2>1
<1>4. Done' = Done \cup {b}
  BY <1>1 DEF Done
<1>5. Gone' = Gone
  BY <1>1, <1>3, <1>4 DEF Gone
<1>6. remains' = remains
  BY <1>1 DEF PotsInv
<1>7. \A n : UpTo(n)' = UpTo(n)
  BY <1>5 DEF UpTo
<1>8. \A d \in Done' : stake[d] <= base /\ remains[d] = 0
  BY <1>1, <1>2, <1>3, <1>4 DEF PotsInv
<1> QED
  BY <1>1, <1>2, <1>5, <1>6, <1>7, <1>8 DEF PotsInv

\* A higher one opens the pot of its level.
LEMMA NewPot ==
  ASSUME PotsInv, NEW b \in Bettors, Divide(b), remains[b] # 0
  PROVE  PotsInv'
<1>1. /\ dividing /\ b \in left /\ stake' = stake /\ left' = left \ {b} /\ dividing'
      /\ \A o \in left : stake[b] <= stake[o]
      /\ remains' = [o \in Bettors |-> IF o \in left THEN remains[o] - remains[b] ELSE remains[o]]
      /\ \A n : PotOf(n)' = PotOf(n)
  BY DEF Divide, PotOf, BestOf, Levels
<1>2. PICK base \in Gone \cup {0} :
         /\ \A d \in Done : stake[d] <= base
         /\ \A o \in left : base <= stake[o] /\ remains[o] = stake[o] - base
  BY <1>1 DEF PotsInv
<1>3. /\ stake \in [Bettors -> Nat] /\ remains \in [Bettors -> Nat] /\ left \subseteq Bettors
      /\ base \in Nat /\ stake[b] \in Nat
      /\ remains[b] = stake[b] - base /\ base < stake[b] /\ stake[b] # 0
  <2>1. base \in Nat
    BY <1>2, GoneIsFinite
  <2>2. stake \in [Bettors -> Nat] /\ remains \in [Bettors -> Nat] /\ left \subseteq Bettors
    BY DEF PotsInv
  <2>3. stake[b] \in Nat /\ base <= stake[b] /\ remains[b] = stake[b] - base
    BY <1>1, <1>2, <2>2
  <2> QED
    BY <2>1, <2>2, <2>3
<1>4. /\ Done' = Done \cup {b} /\ Gone' = Gone \cup {stake[b]} /\ stake[b] \notin Gone
      /\ \A n \in Gone : n <= base
  <2>1. Done' = Done \cup {b}
    BY <1>1 DEF Done
  <2>2. \A n \in Gone : n <= base
    BY <1>2 DEF Gone
  <2>3. Gone' = {stake[d] : d \in Done \cup {b}} \ {0}
    BY <1>1, <2>1 DEF Gone
  <2>4. Gone' = Gone \cup {stake[b]}
    BY <1>3, <2>3 DEF Gone
  <2>5. stake[b] \notin Gone
    <3>1. Gone \subseteq Nat
      BY GoneIsFinite
    <3> QED
      BY <1>3, <2>2, <3>1
  <2> QED
    BY <2>1, <2>2, <2>4, <2>5
<1>5. /\ IsFiniteSet(Gone) /\ Gone \subseteq Nat \ {0} /\ Cardinality(Gone) \in Nat
      /\ \A n \in Gone : Cardinality(UpTo(n)) \in 1 .. Cardinality(Gone)
  BY GoneIsFinite
<1>6. Cardinality(Gone') = Cardinality(Gone) + 1
  BY <1>4, <1>5, FS_AddElement
<1>7. /\ \A n : n = stake[b] => UpTo(n)' = Gone'
      /\ \A n \in Gone : UpTo(n)' = UpTo(n)
  <2>1. \A n : UpTo(n)' = {l \in Gone' : l <= n}
    BY DEF UpTo
  <2>2. \A n \in Gone \cup {stake[b]} : n \in Nat /\ n <= stake[b]
    BY <1>3, <1>4, <1>5
  <2>3. \A n : n = stake[b] => UpTo(n)' = Gone'
    BY <1>1, <1>4, <2>1, <2>2
  <2>4. ASSUME NEW n \in Gone
        PROVE  UpTo(n)' = UpTo(n)
    <3>1. ~(stake[b] <= n)
      BY <1>3, <1>4, <2>2
    <3> QED
      BY <1>4, <2>1, <3>1 DEF UpTo
  <2> QED
    BY <2>3, <2>4
<1>8. PotOf(stake[b]) = [total_coins |-> remains[b] * Cardinality(left),
                         winner_ids |-> BestOf(left), participant_ids |-> left]
  <2>1. {l \in Levels : l < stake[b]} = Gone
    <3>1. ASSUME NEW l \in Gone
          PROVE  l \in Levels /\ l < stake[b]
      <4>1. l \in Nat /\ l <= base
        BY <1>4, <1>5
      <4> QED
        BY <1>3, <4>1 DEF Levels, Gone, Done
    <3>2. ASSUME NEW l \in Levels, l < stake[b]
          PROVE  l \in Gone
      <4>1. PICK o \in Bettors : l = stake[o] /\ l # 0
        BY DEF Levels
      <4>2. o \notin left
        BY <1>1, <1>3, <3>2, <4>1
      <4> QED
        BY <4>1, <4>2 DEF Gone, Done
    <3> QED
      BY <3>1, <3>2
  <2>2. Max({0} \cup Gone) = base
    <3>1. base \in {0} \cup Gone /\ \A n \in {0} \cup Gone : n \in Nat /\ base >= n
      BY <1>2, <1>3, <1>4, <1>5
    <3>2. ASSUME NEW x \in {0} \cup Gone, \A y \in {0} \cup Gone : x >= y
          PROVE  x = base
      BY <3>1, <3>2
    <3> QED
      BY <3>1, <3>2 DEF Max
  <2>3. {o \in Bettors : stake[o] >= stake[b]} = left
    <3>1. ASSUME NEW o \in Bettors, stake[o] >= stake[b]
          PROVE  o \in left
      BY <1>2, <1>3, <3>1 DEF Done
    <3> QED
      BY <1>1, <1>3, <3>1
  <2> QED
    BY <1>3, <2>1, <2>2, <2>3 DEF PotOf
<1>9. pots' = Append(pots, PotOf(stake[b])) /\ PotOf(stake[b]) \in Pot
  <2>1. IsFiniteSet(left) /\ Cardinality(left) \in Nat
    BY <1>3, BetAssumption, FS_Subset, FS_CardinalityType DEF BetAssumption
  <2>2. remains[b] \in Nat /\ remains[b] * Cardinality(left) \in Nat
    BY <1>3, <2>1
  <2>3. BestOf(left) \subseteq Bettors
    BY <1>3 DEF BestOf
  <2> QED
    BY <1>3, <1>8, <2>2, <2>3 DEF Divide, Pot
<1>10. /\ pots' \in Seq(Pot) /\ Len(pots') = Cardinality(Gone) + 1
       /\ pots'[Cardinality(Gone) + 1] = PotOf(stake[b])
       /\ \A i \in 1 .. Cardinality(Gone) : pots'[i] = pots[i]
  <2>1. PICK p \in Pot : p = PotOf(stake[b])
    BY <1>9
  <2>2. pots \in Seq(Pot) /\ Len(pots) = Cardinality(Gone) /\ pots' = Append(pots, p)
    BY <1>1, <1>9, <2>1 DEF PotsInv
  <2> HIDE DEF Pot
  <2> QED
    BY <2>1, <2>2
<1>11. \A n \in Gone' : pots'[Cardinality(UpTo(n)')] = PotOf(n)'
  <2>1. ASSUME NEW n \in Gone
        PROVE  pots'[Cardinality(UpTo(n)')] = PotOf(n)'
    <3>1. Cardinality(UpTo(n)) \in 1 .. Cardinality(Gone) /\ UpTo(n)' = UpTo(n)
      BY <1>5, <1>7
    <3>2. pots[Cardinality(UpTo(n))] = PotOf(n)
      BY <1>1 DEF PotsInv
    <3>3. PotOf(n)' = PotOf(n)
      BY <1>1
    <3>4. pots'[Cardinality(UpTo(n))] = pots[Cardinality(UpTo(n))]
      BY <1>10, <3>1
    <3>5. Cardinality(UpTo(n)') = Cardinality(UpTo(n))
      BY <3>1
    <3> QED
      BY <3>2, <3>3, <3>4, <3>5
  <2>2. ASSUME NEW n, n = stake[b]
        PROVE  pots'[Cardinality(UpTo(n)')] = PotOf(n)'
    <3>1. PotOf(n)' = PotOf(stake[b])
      BY <1>1, <2>2
    <3>2. Cardinality(UpTo(n)') = Cardinality(Gone) + 1
      BY <1>6, <1>7, <2>2
    <3> QED
      BY <1>10, <3>1, <3>2
  <2> QED
    BY <1>4, <2>1, <2>2
<1>12. remains' \in [Bettors -> Nat] /\ \A d \in Done' : remains'[d] = 0
  <2>1. \A o \in left : remains[o] - remains[b] = stake[o] - stake[b] /\ stake[o] - stake[b] \in Nat
    BY <1>1, <1>2, <1>3
  <2>2. \A d \in Done : remains[d] = 0
    BY <1>1 DEF PotsInv
  <2> QED
    BY <1>1, <1>3, <1>4, <2>1, <2>2 DEF Done
<1>13. \A o \in left' : stake[b] <= stake[o] /\ remains'[o] = stake[o] - stake[b]
  BY <1>1, <1>2, <1>3
<1>14. stake[b] \in Gone' /\ \A d \in Done' : stake[d] <= stake[b]
  BY <1>1, <1>2, <1>3, <1>4 DEF Done
<1> QED
  BY <1>1, <1>3, <1>6, <1>10, <1>11, <1>12, <1>13, <1>14 DEF PotsInv

\* A new division and each turn of its loop keep the invariant.
LEMMA PotsStep == PotsInv /\ [BetNext]_betVars => PotsInv'
<1> SUFFICES ASSUME PotsInv, [BetNext]_betVars
             PROVE  PotsInv'
  OBVIOUS
<1>1. ASSUME NEW c \in [Bettors -> 0 .. MaxCoins], NEW h \in [Bettors -> Hands], CallBetPool(c, h)
      PROVE  PotsInv'
  <2>1. /\ stake' = c /\ remains' = c /\ left' = Bettors /\ pots' = <<>>
        /\ stake' \in [Bettors -> Nat] /\ \A b \in Bettors : c[b] \in Nat
    BY <1>1, BetAssumption DEF CallBetPool, BetAssumption
  <2>2. Done' = {} /\ Gone' = {}
    BY <2>1 DEF Done, Gone
  <2>3. Len(<<>>) = Cardinality({}) /\ <<>> \in Seq(Pot)
    BY FS_EmptySet
  <2> QED
    BY <2>1, <2>2, <2>3 DEF PotsInv
<1>2. ASSUME NEW b \in Bettors, Divide(b)
      PROVE  PotsInv'
  BY <1>2, NoNewPot, NewPot
<1>3. CASE UNCHANGED betVars
  <2>1. /\ UNCHANGED <<stake, prize, remains, left, pots, dividing>>
        /\ Done' = Done /\ Gone' = Gone
        /\ \A n : UpTo(n)' = UpTo(n) /\ PotOf(n)' = PotOf(n)
    BY <1>3 DEF betVars, Done, Gone, UpTo, PotOf, BestOf, Levels
  <2> QED
    BY <2>1 DEF PotsInv
<1> QED
  BY <1>1, <1>2, <1>3 DEF BetNext

\* However many bet and in whatever order equal bets come up, there is one pot for each
\* level, lowest first, for those who reached it, and nothing that was bet is lost.
THEOREM PotsAreDivided == BetSpec => []PotsAreTheLevels
<1>1. BetInit => PotsInv
  BY DEF BetInit, PotsInv
<1>2. PotsInv => PotsAreTheLevels
  <2> SUFFICES ASSUME PotsInv, dividing, left = {}
               PROVE  /\ Len(pots) = Cardinality(Levels)
                      /\ \A level \in Levels :
                             pots[Cardinality({l \in Levels : l <= level})] = PotOf(level)
                      /\ \A b \in Bettors : remains[b] = 0
    BY DEF PotsAreTheLevels
  <2>1. Done = Bettors /\ Gone = Levels
    BY DEF Done, Gone, Levels
  <2> QED
    BY <2>1 DEF PotsInv, UpTo
<1> QED
  BY <1>1, <1>2, PotsStep, PTL DEF BetSpec

-----------------------------------------------------------------------------
(* HpKiller: whom the round waits for.                                      *)

\* The roles are records, and those who have a seat have one of the game's.
RoleFields == {"kind", "pid", "team", "next", "hp", "act", "off", "alive", "heavy", "winner",
               "cures", "doing", "last", "curse", "used", "hidden"}
IsRole(r) == r = [f \in RoleFields |-> r[f]]
SeatsAll == 0 .. Size - 1
\* The roles of a game, each with a seat of it or none.
IsCast(c) ==
    /\ DOMAIN c = DOMAIN This.roles /\ c = [t \in DOMAIN c |-> c[t]]
    /\ \A t \in DOMAIN c : IsRole(c[t]) /\ c[t].pid \in SeatsAll \cup {NoSeat}

\* Nobody is another one or sits elsewhere.
SameSeats(c, d) ==
    /\ DOMAIN d = DOMAIN c /\ d = [t \in DOMAIN d |-> d[t]]
    /\ \A t \in DOMAIN c : IsRole(d[t]) /\ d[t].pid = c[t].pid

\* Whoever changes but keeps his seat is one of the game.
LEMMA StillCast ==
  ASSUME NEW c, NEW d, IsCast(c), SameSeats(c, d)
  PROVE  IsCast(d)
BY DEF IsCast, SameSeats

\* There are finitely many tokens.
LEMMA RolesAreFinite ==
  ASSUME NEW roles \in Seq(Occupations)
  PROVE  IsFiniteSet(DOMAIN roles)
<1>1. PICK n \in Nat : DOMAIN roles = 1 .. n
  OBVIOUS
<1>2. IsFiniteSet(1 .. n)
  BY FS_Interval
<1> QED
  BY <1>1, <1>2

\* LoadRoleVec_: a token that is no puppet's is of a player of the game.
LEMMA SeatIsOfTheGame ==
  ASSUME NEW roles \in Seq(Occupations), NEW t \in DOMAIN roles
  PROVE  Seat(roles, t) \in 0 .. SeatsOf(roles) - 1 \cup {NoSeat}
<1> DEFINE A == {i \in 1 .. t - 1 : roles[i] # "puppet"}
           B == {i \in DOMAIN roles : roles[i] # "puppet"}
<1>1. DOMAIN roles = 1 .. Len(roles) /\ Len(roles) \in Nat /\ t \in Nat
  OBVIOUS
<1>2. IsFiniteSet(DOMAIN roles)
  BY RolesAreFinite
<1>3. IsFiniteSet(B) /\ A \subseteq B
  <2>1. B \subseteq DOMAIN roles /\ A \subseteq B
    BY <1>1
  <2> QED
    BY <1>2, <2>1, FS_Subset
<1>4. CASE roles[t] # "puppet"
  <2>1. t \in B /\ A \subseteq B \ {t}
    BY <1>1, <1>3, <1>4
  <2> HIDE DEF A, B
  <2>2. IsFiniteSet(B \ {t}) /\ Cardinality(B \ {t}) = Cardinality(B) - 1
    BY <1>3, <2>1, FS_RemoveElement
  <2>3. Cardinality(A) <= Cardinality(B \ {t}) /\ Cardinality(A) \in Nat /\ Cardinality(B) \in Nat
    BY <1>3, <2>1, <2>2, FS_Subset, FS_CardinalityType
  <2>4. Cardinality(A) \in 0 .. Cardinality(B) - 1
    BY <2>2, <2>3
  <2>5. Seat(roles, t) = Cardinality(A) /\ SeatsOf(roles) = Cardinality(B)
    BY <1>4 DEF Seat, SeatsOf, A, B
  <2> QED
    BY <2>4, <2>5
<1>5. CASE roles[t] = "puppet"
  BY <1>5 DEF Seat
<1> QED
  BY <1>4, <1>5

\* The seats of Q are out for good.
OutNow == "PERMANENTLY_INACTIVE"
Vacant(m, Q) == [p \in SeatsAll |-> IF p \in Q THEN OutNow ELSE m.active[p]]
Ousted(m, Q) ==
    [active |-> Vacant(m, Q),
     ready |-> m.ready,
     anyReady |-> m.anyReady \/ \E p \in Q : m.active[p] = "ACTIVE",
     allPermanent |-> m.allPermanent
                        \/ (Q # {} /\ \A p \in SeatsAll : p \in Q \/ m.active[p] = OutNow)]

\* Whom Eliminate puts out of the game for good is out, the others are as they were.
LEMMA OustedIsMasker ==
  ASSUME NEW m \in Masked(Size)!Masker, NEW Q
  PROVE  /\ Ousted(m, Q) \in Masked(Size)!Masker
         /\ \A p \in SeatsAll :
               Ousted(m, Q).active[p] = IF p \in Q THEN OutNow ELSE m.active[p]
BY DEF Ousted, Vacant, OutNow, SeatsAll, Masked!Masker, Masked!ActiveState

\* Eliminate of one more player.
LEMMA OneMoreOut ==
  ASSUME NEW m \in Masked(Size)!Masker, NEW Q, NEW p \in SeatsAll
  PROVE  Masked(Size)!SetPermanentInactive(Ousted(m, Q), p) = Ousted(m, Q \cup {p})
<1> DEFINE r == Ousted(m, Q)
           n == Masked(Size)!Inactivate(r, {p}, OutNow)
           R == Q \cup {p}
<1>1. r \in Masked(Size)!Masker
  BY OustedIsMasker
<1>2. [q \in SeatsAll |-> IF q \in {p} THEN OutNow ELSE r.active[q]] = Vacant(m, R)
  BY DEF Ousted, Vacant
<1>3. (r.anyReady \/ \E q \in {p} : r.active[q] = "ACTIVE")
         = (m.anyReady \/ \E q \in R : m.active[q] = "ACTIVE")
  BY DEF Masked!Masker, Ousted, Vacant, OutNow
<1>4. n = [r EXCEPT !.active = Vacant(m, R),
                    !.anyReady = m.anyReady \/ \E q \in R : m.active[q] = "ACTIVE"]
  <2> HIDE DEF r
  <2> QED
    BY <1>1, <1>2, <1>3 DEF Masked!Inactivate, SeatsAll, Masked!Masker
<1>5. (r.allPermanent \/ \A q \in SeatsAll : Vacant(m, R)[q] = OutNow)
        = (m.allPermanent \/ (R # {} /\ \A q \in SeatsAll : q \in R \/ m.active[q] = OutNow))
  BY DEF Masked!Masker, Ousted, Vacant
<1>6. Masked(Size)!SetPermanentInactive(r, p) = [n EXCEPT !.allPermanent =
         n.allPermanent \/ \A q \in SeatsAll : n.active[q] = OutNow]
  BY DEF Masked!SetPermanentInactive, OutNow, SeatsAll
<1>7. r.ready = m.ready
  BY DEF Ousted
<1> HIDE DEF r, n, R
<1>8. n.active = Vacant(m, R) /\ n.allPermanent = r.allPermanent
  BY <1>1, <1>4 DEF Masked!Masker
<1>9. Masked(Size)!SetPermanentInactive(r, p) = [n EXCEPT !.allPermanent =
         m.allPermanent \/ (R # {} /\ \A q \in SeatsAll : q \in R \/ m.active[q] = OutNow)]
  BY <1>5, <1>6, <1>8
<1>10. Masked(Size)!SetPermanentInactive(r, p) = Ousted(m, R)
  BY <1>1, <1>4, <1>7, <1>9 DEF Ousted, Masked!Masker
<1> QED
  BY <1>10 DEF r, R

\* Eliminate of all players of a set, in whatever order it goes through the roles.
LEMMA AllOusted ==
  ASSUME NEW m \in Masked(Size)!Masker, NEW c, NEW S, IsFiniteSet(S),
         \A t \in S : c[t].pid \in SeatsAll
  PROVE  FoldSet(LAMBDA t, n : Masked(Size)!SetPermanentInactive(n, c[t].pid), m, S)
            = Ousted(m, {c[t].pid : t \in S})
<1> DEFINE Of(s) == {c[t].pid : t \in s}
           Step(g, s) == IF s = {} THEN m
              ELSE Masked(Size)!SetPermanentInactive(g[s \ {OneOf(s)}], c[OneOf(s)].pid)
           Folds(g) == g = [s \in SUBSET S |-> Step(g, s)]
           h == [s \in SUBSET S |-> Ousted(m, Of(s))]
<1>1. ASSUME NEW s \in SUBSET S
      PROVE  Ousted(m, Of(s)) = IF s = {} THEN m
                ELSE Masked(Size)!SetPermanentInactive(Ousted(m, Of(s \ {OneOf(s)})),
                                                       c[OneOf(s)].pid)
  <2>1. CASE s = {}
    <3>1. Of(s) = {}
      BY <2>1
    <3>2. Vacant(m, {}) = m.active
      BY DEF Masked!Masker, Vacant, SeatsAll
    <3>3. Ousted(m, {}) = m
      BY <3>2 DEF Ousted, Masked!Masker
    <3> QED
      BY <2>1, <3>1, <3>3
  <2>2. CASE s # {}
    <3> DEFINE o == OneOf(s)
    <3>1. o \in s /\ c[o].pid \in SeatsAll
      BY <2>2 DEF OneOf
    <3> HIDE DEF o
    <3>2. Of(s \ {o}) \cup {c[o].pid} = Of(s)
      BY <3>1
    <3> HIDE DEF Of
    <3>3. Masked(Size)!SetPermanentInactive(Ousted(m, Of(s \ {o})), c[o].pid)
             = Ousted(m, Of(s \ {o}) \cup {c[o].pid})
      BY <3>1, OneMoreOut
    <3> QED
      BY <2>2, <3>2, <3>3 DEF o
  <2> QED
    BY <2>1, <2>2
<1>2. Folds(h)
  <2>1. \A s \in SUBSET S : Step(h, s) = Ousted(m, Of(s))
    BY <1>1
  <2> QED
    BY <2>1
<1> DEFINE g == CHOOSE x : Folds(x)
<1>3. Folds(g)
  BY <1>2
<1> DEFINE T == {s \in SUBSET S : g[s] = Ousted(m, Of(s))}
<1>4. \A s \in SUBSET S : g[s] = Step(g, s)
  <2> HIDE DEF Step, g
  <2> QED
    BY <1>3
<1> HIDE DEF g
<1>5. {} \in T
  BY <1>1, <1>4
<1>6. \A s \in SUBSET S : s # {} /\ s \ {OneOf(s)} \in T => s \in T
  BY <1>1, <1>4
<1>7. S \in T
  <2> HIDE DEF T
  <2> QED
    BY <1>5, <1>6, OneByOne
<1>8. FoldSet(LAMBDA t, n : Masked(Size)!SetPermanentInactive(n, c[t].pid), m, S) = g[S]
  BY DEF FoldSet, MapThenFoldSet, g, OneOf
<1> QED
  BY <1>7, <1>8

\* Eliminate: whoever of S has a seat is out, and nobody comes back.
LEMMA OutIs ==
  ASSUME HuntAssumption, hunt \in {Hunts[i] : i \in DOMAIN Hunts},
         NEW m \in Masked(Size)!Masker, NEW c, IsCast(c), NEW S, S \subseteq DOMAIN c
  PROVE  /\ Out(m, c, S) \in Masked(Size)!Masker
         /\ \A t \in S : c[t].pid # NoSeat => Out(m, c, S).active[c[t].pid] = OutNow
         /\ \A p \in SeatsAll : m.active[p] = OutNow => Out(m, c, S).active[p] = OutNow
<1> DEFINE T == {t \in S : c[t].pid # NoSeat}
           Q == {c[t].pid : t \in T}
<1>1. This.roles \in Seq(Occupations)
  BY DEF HuntAssumption, IsHunt, This
<1>2. IsFiniteSet(DOMAIN This.roles)
  BY <1>1, RolesAreFinite
<1>3. IsFiniteSet(T)
  <2>1. T \subseteq DOMAIN This.roles
    BY DEF IsCast
  <2> QED
    BY <1>2, <2>1, FS_Subset
<1>4. \A t \in T : c[t].pid \in SeatsAll
  BY DEF IsCast
<1>5. Out(m, c, S) = FoldSet(LAMBDA t, n : Masked(Size)!SetPermanentInactive(n, c[t].pid), m, T)
  BY DEF Out
<1> HIDE DEF T
<1>6. Out(m, c, S) = Ousted(m, Q)
  BY <1>3, <1>4, <1>5, AllOusted
<1>7. Q \subseteq SeatsAll
  BY <1>4
<1>8. \A t \in T : c[t].pid \in Q
  OBVIOUS
<1> HIDE DEF Q
<1>9. /\ Ousted(m, Q) \in Masked(Size)!Masker
      /\ \A p \in SeatsAll : Ousted(m, Q).active[p] = IF p \in Q THEN OutNow ELSE m.active[p]
  BY OustedIsMasker
<1>10. \A t \in T : Ousted(m, Q).active[c[t].pid] = OutNow
  BY <1>4, <1>8, <1>9
<1>11. \A t \in S : c[t].pid # NoSeat => t \in T
  BY DEF T
<1> QED
  BY <1>6, <1>9, <1>10, <1>11

\* What the masker's other methods leave alone.
LEMMA MaskerGoesOn ==
  ASSUME NEW m \in Masked(Size)!Masker, NEW p
  PROVE  /\ Masked(Size)!SetActive(m, p) \in Masked(Size)!Masker
         /\ Masked(Size)!SetReady(m, p) \in Masked(Size)!Masker
         /\ Masked(Size)!SilentlySetReady(m, p) \in Masked(Size)!Masker
         /\ Masked(Size)!ClearReady(m) \in Masked(Size)!Masker
         /\ \A q \in SeatsAll : m.active[q] = OutNow =>
               /\ Masked(Size)!SetActive(m, p).active[q] = OutNow
               /\ Masked(Size)!SetReady(m, p).active[q] = OutNow
               /\ Masked(Size)!SilentlySetReady(m, p).active[q] = OutNow
               /\ Masked(Size)!ClearReady(m).active[q] = OutNow
<1>1. /\ Masked(Size)!SetActive(m, p) \in Masked(Size)!Masker
      /\ \A q \in SeatsAll : m.active[q] = OutNow =>
               Masked(Size)!SetActive(m, p).active[q] = OutNow
  BY DEF Masked!SetActive, Masked!Masker, Masked!ActiveState, OutNow, SeatsAll
<1>2. /\ Masked(Size)!SetReady(m, p) \in Masked(Size)!Masker
      /\ \A q \in SeatsAll : m.active[q] = OutNow =>
               Masked(Size)!SetReady(m, p).active[q] = OutNow
  BY DEF Masked!SetReady, Masked!Masker
<1>3. /\ Masked(Size)!SilentlySetReady(m, p) \in Masked(Size)!Masker
      /\ \A q \in SeatsAll : m.active[q] = OutNow =>
               Masked(Size)!SilentlySetReady(m, p).active[q] = OutNow
  BY DEF Masked!SilentlySetReady, Masked!Masker
<1>4. /\ Masked(Size)!ClearReady(m) \in Masked(Size)!Masker
      /\ \A q \in SeatsAll : m.active[q] = OutNow =>
               Masked(Size)!ClearReady(m).active[q] = OutNow
  BY DEF Masked!ClearReady, Masked!Masker
<1> QED
  BY <1>1, <1>2, <1>3, <1>4

\* HookUnreadyPlayers only keeps a masker: who was out may be hooked instead.
LEMMA HookedIsMasker ==
  ASSUME NEW m \in Masked(Size)!Masker, NEW Q
  PROVE  Masked(Size)!SetTemporaryInactive(m, Q) \in Masked(Size)!Masker
BY DEF Masked!SetTemporaryInactive, Masked!Inactivate, Masked!Masker, Masked!ActiveState

\* A role in which a field is changed is a role, of the same seat.
LEMMA StillRole ==
  ASSUME NEW r, IsRole(r), NEW v, NEW w
  PROVE  /\ IsRole([r EXCEPT !.doing = v]) /\ IsRole([r EXCEPT !.used = v])
         /\ IsRole([r EXCEPT !.hidden = v]) /\ IsRole([r EXCEPT !.off = v])
         /\ IsRole([r EXCEPT !.hp = v]) /\ IsRole([r EXCEPT !.winner = v])
         /\ IsRole([r EXCEPT !.act = v, !.team = w])
         /\ IsRole([r EXCEPT !.curse = v, !.hp = w])
<1>1. IsRole([r EXCEPT !.doing = v])
  BY DEF IsRole, RoleFields
<1>2. IsRole([r EXCEPT !.used = v])
  BY DEF IsRole, RoleFields
<1>3. IsRole([r EXCEPT !.hidden = v])
  BY DEF IsRole, RoleFields
<1>4. IsRole([r EXCEPT !.off = v])
  BY DEF IsRole, RoleFields
<1>5. IsRole([r EXCEPT !.hp = v])
  BY DEF IsRole, RoleFields
<1>6. IsRole([r EXCEPT !.winner = v])
  BY DEF IsRole, RoleFields
<1>7. IsRole([r EXCEPT !.act = v, !.team = w])
  BY DEF IsRole, RoleFields
<1>8. IsRole([r EXCEPT !.curse = v, !.hp = w])
  BY DEF IsRole, RoleFields
<1> QED
  BY <1>1, <1>2, <1>3, <1>4, <1>5, <1>6, <1>7, <1>8

\* RoleBase: everybody can act at first and has the seat of his token.
LEMMA NewIsRole ==
  ASSUME NEW h, NEW t
  PROVE  IsRole(NewRole(h, t)) /\ NewRole(h, t).pid = Seat(h.roles, t) /\ NewRole(h, t).act = TRUE
BY DEF IsRole, RoleFields, NewRole

\* RoleBase::OnRoundEnd does not move anybody.
LEMMA AgedIsRole ==
  ASSUME NEW r, IsRole(r)
  PROVE  IsRole(Aged(r)) /\ Aged(r).pid = r.pid
<1>1. CASE ~r.act /\ ~r.alive
  BY <1>1 DEF Aged
<1>2. CASE ~(~r.act /\ ~r.alive)
  <2> DEFINE act == r.act /\ ~r.off
             alive == r.alive /\ r.hp > 0
             cures == IF Does(r, "cure") /\ r.cures > 0 THEN r.cures - 1 ELSE r.cures
             uses == IF r.kind = "guard" /\ ~Does(r, "shield") THEN {} ELSE r.used
             s == [r EXCEPT !.act = act, !.off = FALSE, !.alive = alive, !.cures = cures,
                            !.used = uses, !.last = r.doing.kind, !.doing = Pass]
  <2>1. Aged(r) = s
    BY <1>2 DEF Aged
  <2> HIDE DEF act, alive, cures, uses
  <2>2. IsRole(s) /\ s.pid = r.pid
    BY DEF IsRole, RoleFields
  <2> QED
    BY <2>1, <2>2
<1> QED
  BY <1>1, <1>2

\* What two changes leave alone.
LEMMA SeatsOfSeats ==
  ASSUME NEW c, NEW d, NEW e, SameSeats(c, d), SameSeats(d, e)
  PROVE  SameSeats(c, e)
BY DEF SameSeats

\* Hp and curses change, nobody moves.
LEMMA StruckInSeats ==
  ASSUME NEW c, IsCast(c)
  PROVE  SameSeats(c, Struck(c))
<1> DEFINE hp(t) == c[t].hp - Hurt(c, t) + Gained(c, t)
                       - (IF Does(c[t], "pass") THEN 0 ELSE Cursed(c, t))
           s(t) == [c[t] EXCEPT !.curse = Cursed(c, t), !.hp = hp(t)]
<1>1. Struck(c) = [t \in DOMAIN c |-> s(t)]
  BY DEF Struck
<1>2. ASSUME NEW t \in DOMAIN c
      PROVE  IsRole(s(t)) /\ s(t).pid = c[t].pid
  <2>1. IsRole(c[t])
    BY DEF IsCast
  <2> HIDE DEF hp
  <2> QED
    BY <2>1 DEF IsRole, RoleFields
<1> HIDE DEF s
<1> QED
  BY <1>1, <1>2 DEF SameSeats

\* SettlementShieldAnti_ changes hp only.
LEMMA ReflectedInSeats ==
  ASSUME NEW c, IsCast(c)
  PROVE  SameSeats(c, Reflected(c))
<1> DEFINE safe == Shielded(c)
           back(s) == MapThenSumSet(LAMBDA t : IF Avoided(c, s, t) THEN 0
                                               ELSE Amount(c[s], t), safe)
           spared(t) == Aimed(c, "attack", t, LAMBDA s : ~Avoided(c, s, t))
           hp(t) == c[t].hp + (IF t \in safe THEN spared(t) ELSE 0)
                            - (IF Does(c[t], "attack") THEN back(t) ELSE 0)
           r(t) == [c[t] EXCEPT !.hp = hp(t)]
<1>1. Reflected(c) = IF safe = {} THEN c ELSE [t \in DOMAIN c |-> r(t)]
  BY DEF Reflected
<1>2. ASSUME NEW t \in DOMAIN c
      PROVE  IsRole(r(t)) /\ r(t).pid = c[t].pid
  <2>1. IsRole(c[t])
    BY DEF IsCast
  <2> HIDE DEF hp
  <2> QED
    BY <2>1 DEF IsRole, RoleFields
<1> HIDE DEF r, safe
<1> QED
  BY <1>1, <1>2 DEF SameSeats, IsCast

\* SettlementAction_ moves nobody either.
LEMMA SettledInSeats ==
  ASSUME NEW c, IsCast(c)
  PROVE  SameSeats(c, Settled(c))
<1> DEFINE d == Reflected(Struck(c))
           off(t) == d[t].off \/ t \in Banished(c)
           r(t) == [d[t] EXCEPT !.off = off(t)]
<1>1. SameSeats(c, d) /\ IsCast(d)
  BY StruckInSeats, ReflectedInSeats, StillCast, SeatsOfSeats
<1>2. Settled(c) = [t \in DOMAIN c |-> r(t)]
  BY DEF Settled
<1> HIDE DEF d
<1>3. ASSUME NEW t \in DOMAIN c
      PROVE  IsRole(r(t)) /\ r(t).pid = c[t].pid
  <2>1. IsRole(d[t]) /\ d[t].pid = c[t].pid
    BY <1>1 DEF SameSeats
  <2> HIDE DEF off
  <2> QED
    BY <2>1 DEF IsRole, RoleFields
<1> HIDE DEF r
<1> QED
  BY <1>2, <1>3 DEF SameSeats

\* RolesOnRoundEnd_: the dead keep their seats.
LEMMA BuriedInSeats ==
  ASSUME NEW c, IsCast(c)
  PROVE  SameSeats(c, Buried(c))
<1> DEFINE d == [t \in DOMAIN c |-> Aged(c[t])]
           dead == {t \in DOMAIN c : c[t].alive /\ ~d[t].alive}
           heir == IF First(c, {"traitor"}) > 0 THEN First(c, {"traitor"})
                   ELSE First(c, {"firstTraitor"})
           brother(t) == First(c, Twins \ {c[t].kind})
           orphaned == {t \in dead : c[t].kind \in Twins /\ brother(t) > 0 /\ d[brother(t)].hp > 0}
           act(t) == d[t].act /\ ~(t \in dead /\ c[t].kind # "ghost")
           heavy(t) == d[t].heavy \/ (t = heir /\ \E k \in dead : c[k].kind = "killer")
           next(t) == IF \E s \in orphaned : brother(s) = t
                      THEN c[CHOOSE s \in orphaned : brother(s) = t].team ELSE d[t].next
           r(t) == [d[t] EXCEPT !.act = act(t), !.heavy = heavy(t), !.next = next(t)]
<1>1. Buried(c) = [t \in DOMAIN c |-> r(t)]
  BY DEF Buried
<1>2. ASSUME NEW t \in DOMAIN c
      PROVE  IsRole(r(t)) /\ r(t).pid = c[t].pid
  <2>1. IsRole(c[t])
    BY DEF IsCast
  <2>2. IsRole(d[t]) /\ d[t].pid = c[t].pid
    BY <2>1, AgedIsRole
  <2> HIDE DEF d, act, heavy, next
  <2> QED
    BY <2>2 DEF IsRole, RoleFields
<1> HIDE DEF r
<1> QED
  BY <1>1, <1>2 DEF SameSeats

\* The Act functions: who acts goes on being able to act unless he says good night, and then
\* it is this that he is doing.
LEMMA ActedIsRole ==
  ASSUME NEW r, IsRole(r), NEW a
  PROVE  /\ IsRole(Acted(r, a)) /\ Acted(r, a).pid = r.pid
         /\ Acted(r, a).act = r.act \/ Does(Acted(r, a), "night")
<1> DEFINE s == [r EXCEPT !.doing = a]
<1>1. IsRole(s) /\ s.pid = r.pid /\ s.act = r.act /\ s.doing = a
  BY DEF IsRole, RoleFields
<1>2. CASE a.kind = "injury"
  <2>1. Acted(r, a) = [s EXCEPT !.used = s.used \cup {a.hp[1]}]
    BY <1>2 DEF Acted
  <2> HIDE DEF s
  <2> QED
    BY <1>1, <2>1 DEF IsRole, RoleFields
<1>3. CASE a.kind = "exorcise"
  <2>1. Acted(r, a) = [s EXCEPT !.used = {0}]
    BY <1>3 DEF Acted
  <2> HIDE DEF s
  <2> QED
    BY <1>1, <2>1 DEF IsRole, RoleFields
<1>4. CASE a.kind = "shield"
  <2>1. Acted(r, a) = [s EXCEPT !.used = ToSet(a.on)]
    BY <1>4 DEF Acted
  <2> HIDE DEF s
  <2> QED
    BY <1>1, <2>1 DEF IsRole, RoleFields
<1>5. CASE a.kind = "assign"
  <2> DEFINE more == [t \in DOMAIN s.hidden |-> IF t \in ToSet(a.on)
                        THEN s.hidden[t] + a.hp[SelectInSeq(a.on, LAMBDA u : u = t)]
                        ELSE s.hidden[t]]
  <2>1. Acted(r, a) = [s EXCEPT !.hidden = more]
    BY <1>5 DEF Acted
  <2> HIDE DEF s, more
  <2> QED
    BY <1>1, <2>1 DEF IsRole, RoleFields
<1>6. CASE a.kind = "release"
  <2> DEFINE blow == [kind |-> "attack", on |-> a.on,
                      hp |-> [i \in DOMAIN a.on |-> r.hidden[a.on[i]]]]
             none == [t \in DOMAIN s.hidden |-> IF t \in ToSet(a.on) THEN 0 ELSE s.hidden[t]]
  <2>1. Acted(r, a) = [s EXCEPT !.doing = blow, !.hidden = none]
    BY <1>1, <1>6 DEF Acted, IsRole, RoleFields
  <2> HIDE DEF s, blow, none
  <2> QED
    BY <1>1, <2>1 DEF IsRole, RoleFields
<1>7. CASE a.kind = "night"
  <2>1. Acted(r, a) = [s EXCEPT !.off = TRUE, !.act = FALSE]
    BY <1>7 DEF Acted
  <2> HIDE DEF s
  <2> QED
    BY <1>1, <1>7, <2>1 DEF IsRole, RoleFields, Does
<1>8. CASE a.kind \notin {"injury", "exorcise", "shield", "assign", "release", "night"}
  <2>1. Acted(r, a) = s
    BY <1>8 DEF Acted
  <2> QED
    BY <1>1, <2>1
<1> QED
  BY <1>2, <1>3, <1>4, <1>5, <1>6, <1>7, <1>8

\* A refused action takes nobody's ability to act.
LEMMA RefusingIsRole ==
  ASSUME NEW r, IsRole(r), NEW a
  PROVE  /\ IsRole(Refusing(r, a)) /\ Refusing(r, a).pid = r.pid
         /\ Refusing(r, a).act = r.act
<1> QED
  BY DEF Refusing, IsRole, RoleFields

\* One of the games.
HuntGame == hunt \in {Hunts[i] : i \in DOMAIN Hunts}

\* Why whoever is awaited can act: the roles keep their seats, so that Eliminate hits whom it
\* means to.
HuntInv ==
    /\ HuntGame
    /\ IsCast(cast)
    /\ awake \in Masked(Size)!Masker
    /\ TheActiveCanAct

\* Of the same game.
OfTheGame(d, m) == IsCast(d) /\ m \in Masked(Size)!Masker
\* Whoever is waited for in d and m can act.
AllCanAct(d, m) ==
    \A t \in DOMAIN d :
        \/ d[t].act \/ d[t].pid = NoSeat
        \/ Does(d[t], "night")
        \/ m.active[d[t].pid] = OutNow

\* The invariant after a step, from what the step leaves behind.
LEMMA InvAgain ==
  ASSUME HuntInv, hunt' = hunt, OfTheGame(cast', awake'), hour' # "done" => AllCanAct(cast', awake')
  PROVE  HuntInv'
<1>1. HuntGame' /\ Size' = Size
  BY DEF HuntInv, HuntGame, Size, This
<1>2. IsCast(cast)'
  BY <1>1 DEF IsCast, This, SeatsAll, OfTheGame
<1>3. (awake \in Masked(Size)!Masker)'
  BY <1>1 DEF OfTheGame, Masked!Masker
<1>4. TheActiveCanAct'
  BY DEF TheActiveCanAct, AllCanAct, Tokens, OutNow, Does, NoSeat
<1> QED
  BY <1>1, <1>2, <1>3, <1>4 DEF HuntInv

\* The constructor of MainStage: everybody can act.
LEMMA InvToStart ==
  ASSUME HuntAssumption, HuntInit
  PROVE  HuntInv
<1>1. HuntGame
  BY DEF HuntInit, HuntGame
<1>2. This.roles \in Seq(Occupations)
  BY <1>1 DEF HuntAssumption, IsHunt, HuntGame, This
<1>3. cast = [t \in DOMAIN This.roles |-> NewRole(This, t)]
  BY DEF HuntInit
<1>4. \A t \in DOMAIN This.roles :
         /\ IsRole(cast[t]) /\ cast[t].pid = Seat(This.roles, t)
         /\ cast[t].act = TRUE
  BY <1>3, NewIsRole
<1>5. \A t \in DOMAIN This.roles : Seat(This.roles, t) \in SeatsAll \cup {NoSeat}
  BY <1>2, SeatIsOfTheGame DEF Size, SeatsAll
<1>6. IsCast(cast)
  <2>1. DOMAIN cast = DOMAIN This.roles /\ cast = [t \in DOMAIN cast |-> cast[t]]
    BY <1>3
  <2> QED
    BY <1>4, <1>5, <2>1 DEF IsCast
<1>7. awake \in Masked(Size)!Masker
  BY DEF HuntInit, Masked!NewMasker, Masked!Masker, Masked!ActiveState
<1>8. TheActiveCanAct
  BY <1>3, <1>4 DEF TheActiveCanAct, Tokens
<1> QED
  BY <1>1, <1>6, <1>7, <1>8 DEF HuntInv

\* Winners stay where they are.
LEMMA CrownedInSeats ==
  ASSUME NEW c, IsCast(c), NEW lost
  PROVE  SameSeats(c, Crowned(c, lost))
<1> DEFINE winner(t) == CASE c[t].team \in {"civilian", "killer"} -> c[t].team \notin lost
                          [] c[t].kind \in Traitors -> "traitor" \notin lost
                          [] OTHER -> c[t].winner
           r(t) == [c[t] EXCEPT !.winner = winner(t)]
<1>1. Crowned(c, lost) = [t \in DOMAIN c |-> r(t)]
  BY DEF Crowned
<1>2. ASSUME NEW t \in DOMAIN c
      PROVE  IsRole(r(t)) /\ r(t).pid = c[t].pid
  <2>1. IsRole(c[t])
    BY DEF IsCast
  <2> HIDE DEF winner
  <2> QED
    BY <2>1 DEF IsRole, RoleFields
<1> HIDE DEF r
<1> QED
  BY <1>1, <1>2 DEF SameSeats

\* The end of CheckTeamsLost_ when the game goes on: Eliminate comes last, after the ready
\* flags were cleared and whatever a timeout did to the masker, for all who cannot act now.
LEMMA GoesOn ==
  ASSUME HuntAssumption, HuntInv, NEW c, NEW lost, NEW m, OfTheGame(c, m), Goes(c, lost, m)
  PROVE  OfTheGame(cast', awake') /\ AllCanAct(cast', awake')
<1> DEFINE newly == {t \in DOMAIN c : c[t].team \in {"civilian", "killer"} \cap (lost \ fallen)}
           act(t) == c[t].act /\ t \notin newly
           r(t) == [c[t] EXCEPT !.act = act(t), !.team = c[t].next]
           d == [t \in DOMAIN c |-> r(t)]
           still == {t \in DOMAIN c : ~d[t].act}
           told == {t \in newly : c[t].act}
           first == Out(m, c, told)
           clear == Masked(Size)!ClearReady(first)
           last == Out(clear, d, still)
<1>1. cast' = d /\ Handled(last, "CONTINUE")
  BY DEF Goes
<1>2. awake' = last
  BY <1>1 DEF Handled
<1>3. SameSeats(c, d)
  <2>1. ASSUME NEW t \in DOMAIN c
        PROVE  IsRole(r(t)) /\ r(t).pid = c[t].pid
    <3>1. IsRole(c[t])
      BY DEF IsCast, OfTheGame
    <3> HIDE DEF act
    <3> QED
      BY <3>1 DEF IsRole, RoleFields
  <2> HIDE DEF r
  <2> QED
    BY <2>1 DEF SameSeats
<1>4. IsCast(c) /\ m \in Masked(Size)!Masker /\ HuntGame
  BY DEF OfTheGame, HuntInv
<1>5. IsCast(d)
  BY <1>3, <1>4, StillCast
<1>6. told \subseteq DOMAIN c /\ still \subseteq DOMAIN d
  OBVIOUS
<1> HIDE DEF d, told
<1>7. first \in Masked(Size)!Masker
  BY <1>4, <1>6, OutIs DEF HuntGame
<1> HIDE DEF first
<1>8. clear \in Masked(Size)!Masker
  BY <1>7 DEF Masked!ClearReady, Masked!Masker
<1> HIDE DEF clear, still
<1>9. /\ last \in Masked(Size)!Masker
      /\ \A t \in still : d[t].pid # NoSeat => last.active[d[t].pid] = OutNow
  BY <1>4, <1>5, <1>6, <1>8, OutIs DEF HuntGame
<1> HIDE DEF last
<1>10. \A t \in DOMAIN d : d[t].act \/ t \in still
  BY <1>3 DEF still, SameSeats
<1> QED
  BY <1>1, <1>2, <1>5, <1>9, <1>10 DEF OfTheGame, AllCanAct

\* OnRoundFinish_, with any masker: the next round waits only for those who can act.
LEMMA RoundIsFinished ==
  ASSUME HuntAssumption, HuntInv, NEW m \in Masked(Size)!Masker, RoundFinish(m)
  PROVE  OfTheGame(cast', awake') /\ (hour' # "done" => AllCanAct(cast', awake'))
<1> DEFINE c == Buried(Settled(cast))
           outs == Banished(cast) \cup
                   {t \in Tokens : cast[t].alive /\ ~c[t].alive /\ c[t].kind # "ghost"}
           n == Out(m, c, outs)
           lost == Losers(c)
           r(t) == [c[t] EXCEPT !.winner = c[t].kind = "agent"]
<1>1. IsCast(cast)
  BY DEF HuntInv
<1>2. SameSeats(cast, c) /\ IsCast(c)
  <2>1. SameSeats(cast, Settled(cast))
    BY <1>1, SettledInSeats
  <2>2. IsCast(Settled(cast))
    BY <1>1, <2>1, StillCast
  <2>3. SameSeats(Settled(cast), c)
    BY <2>2, BuriedInSeats
  <2> QED
    BY <1>1, <2>1, <2>3, SeatsOfSeats, StillCast
<1>3. \/ /\ cast' = [t \in Tokens |-> r(t)]
         /\ awake' = n /\ hour' = "done"
      \/ Ends(c, LetOff(c, lost), n)
      \/ Ends(c, lost, n)
      \/ Goes(c, lost, n)
  BY DEF RoundFinish
<1> HIDE DEF c
<1>4. outs \subseteq DOMAIN c
  BY <1>2 DEF Banished, Tokens, SameSeats
<1> HIDE DEF outs
<1>5. n \in Masked(Size)!Masker
  BY <1>2, <1>4, OutIs DEF HuntInv, HuntGame
<1> HIDE DEF n, lost
<1>6. CASE cast' = [t \in Tokens |-> r(t)] /\ awake' = n /\ hour' = "done"
  <2>1. ASSUME NEW t \in Tokens
        PROVE  IsRole(r(t)) /\ r(t).pid = cast[t].pid
    <3>1. IsRole(c[t]) /\ c[t].pid = cast[t].pid
      BY <1>2 DEF Tokens, SameSeats
    <3> QED
      BY <3>1 DEF IsRole, RoleFields
  <2> HIDE DEF r
  <2>2. SameSeats(cast, cast')
    BY <1>6, <2>1 DEF SameSeats, Tokens
  <2> QED
    BY <1>1, <1>5, <1>6, <2>2, StillCast DEF OfTheGame
<1>7. ASSUME NEW l, Ends(c, l, n)
      PROVE  OfTheGame(cast', awake') /\ hour' = "done"
  <2>1. cast' = Crowned(c, l) /\ awake' = n /\ hour' = "done"
    BY <1>7 DEF Ends
  <2>2. IsCast(Crowned(c, l))
    BY <1>2, CrownedInSeats, StillCast
  <2> QED
    BY <1>5, <2>1, <2>2 DEF OfTheGame
<1>8. CASE Goes(c, lost, n)
  BY <1>2, <1>5, <1>8, GoesOn DEF OfTheGame
<1> QED
  BY <1>3, <1>6, <1>7, <1>8

\* Nobody whom the masker waits for comes to be unable to act: nobody comes back, and who
\* cannot act any more has just said good night.
LEMMA ActsAgain ==
  ASSUME HuntInv, hour = "wait", hunt' = hunt, NEW m \in Masked(Size)!Masker,
         \A q \in SeatsAll : awake.active[q] = OutNow => m.active[q] = OutNow,
         awake' = m, SameSeats(cast, cast'),
         \A t \in DOMAIN cast : \/ cast'[t].act = cast[t].act /\ cast'[t].doing = cast[t].doing
                                \/ cast[t].act /\ cast'[t].act = cast[t].act
                                \/ Does(cast'[t], "night")
  PROVE  HuntInv'
<1>1. IsCast(cast) /\ TheActiveCanAct
  BY DEF HuntInv
<1>2. OfTheGame(cast', awake')
  BY <1>1, StillCast DEF OfTheGame
<1>3. ASSUME NEW t \in DOMAIN cast'
      PROVE  \/ cast'[t].act \/ cast'[t].pid = NoSeat
             \/ Does(cast'[t], "night")
             \/ m.active[cast'[t].pid] = OutNow
  <2>1. t \in DOMAIN cast /\ cast'[t].pid = cast[t].pid
    BY DEF SameSeats
  <2>2. cast[t].act \/ cast[t].pid = NoSeat \/ Does(cast[t], "night")
           \/ awake.active[cast[t].pid] = OutNow
    BY <1>1, <2>1 DEF TheActiveCanAct, Tokens, OutNow
  <2>3. cast[t].pid \in SeatsAll \cup {NoSeat}
    BY <1>1, <2>1 DEF IsCast
  <2>4. CASE Does(cast'[t], "night")
    BY <2>4
  <2>5. CASE cast[t].act /\ cast'[t].act = cast[t].act
    BY <2>5
  <2>6. CASE cast'[t].act = cast[t].act /\ cast'[t].doing = cast[t].doing
    <3>1. Does(cast[t], "night") => Does(cast'[t], "night")
      BY <2>6 DEF Does
    <3> QED
      BY <2>1, <2>2, <2>3, <2>6, <3>1
  <2> QED
    BY <2>1, <2>4, <2>5, <2>6
<1>4. AllCanAct(cast', awake')
  BY <1>3 DEF AllCanAct
<1> QED
  BY <1>2, <1>4, InvAgain

\* One role acts, and acting cannot have made it unable to act but by a good night.
LEMMA OneRole ==
  ASSUME IsCast(cast), NEW t, NEW r,
         t \in DOMAIN cast => /\ IsRole(r) /\ r.pid = cast[t].pid
                              /\ (cast[t].act /\ r.act = cast[t].act) \/ Does(r, "night"),
         cast' = [cast EXCEPT ![t] = r]
  PROVE  /\ SameSeats(cast, cast')
         /\ \A u \in DOMAIN cast :
               \/ cast'[u].act = cast[u].act /\ cast'[u].doing = cast[u].doing
               \/ cast[u].act /\ cast'[u].act = cast[u].act
               \/ Does(cast'[u], "night")
BY DEF SameSeats, IsCast

\* Nobody does anything.
LEMMA SameCast ==
  ASSUME IsCast(cast), cast' = cast
  PROVE  /\ SameSeats(cast, cast')
         /\ \A u \in DOMAIN cast : cast'[u].act = cast[u].act /\ cast'[u].doing = cast[u].doing
BY DEF SameSeats, IsCast

\* A command, whether it is heard or not.
LEMMA RequestStep ==
  ASSUME HuntInv, NEW p, NEW a, NEW public, Request(p, a, public)
  PROVE  HuntInv'
<1> DEFINE t == TokenOf(p)
           m == Masked(Size)!SetActive(awake, p)
           n == Masked(Size)!SetReady(m, p)
<1>1. IsCast(cast) /\ awake \in Masked(Size)!Masker
  BY DEF HuntInv
<1>2. /\ m \in Masked(Size)!Masker
      /\ \A q \in SeatsAll : awake.active[q] = OutNow => m.active[q] = OutNow
  BY <1>1, MaskerGoesOn
<1>3. /\ hour = "wait" /\ hunt' = hunt
      /\ \/ awake' = m /\ cast' = cast
         \/ /\ cast[t].act /\ awake' = m
            /\ cast' = [cast EXCEPT ![t] = Refusing(cast[t], a)]
         \/ /\ cast[t].act /\ awake' = n
            /\ cast' = [cast EXCEPT ![t] = Acted(cast[t], a)]
  BY DEF Request, Handled
<1> HIDE DEF t, m
<1>4. n \in Masked(Size)!Masker /\ \A q \in SeatsAll : m.active[q] = OutNow => n.active[q] = OutNow
  BY <1>2, MaskerGoesOn
<1> HIDE DEF n
<1>5. CASE awake' = m /\ cast' = cast
  BY <1>1, <1>2, <1>3, <1>5, SameCast, ActsAgain
<1>6. CASE cast[t].act /\ awake' = m /\ cast' = [cast EXCEPT ![t] = Refusing(cast[t], a)]
  <2>1. t \in DOMAIN cast => /\ IsRole(Refusing(cast[t], a))
                             /\ Refusing(cast[t], a).pid = cast[t].pid
                             /\ cast[t].act /\ Refusing(cast[t], a).act = cast[t].act
    BY <1>1, <1>6, RefusingIsRole DEF IsCast
  <2> DEFINE r == Refusing(cast[t], a)
  <2> HIDE DEF r
  <2>2. /\ SameSeats(cast, cast')
        /\ \A u \in DOMAIN cast :
               \/ cast'[u].act = cast[u].act /\ cast'[u].doing = cast[u].doing
               \/ cast[u].act /\ cast'[u].act = cast[u].act
               \/ Does(cast'[u], "night")
    BY <1>1, <1>6, <2>1, OneRole DEF r
  <2> QED
    BY <1>2, <1>3, <1>6, <2>2, ActsAgain
<1>7. CASE cast[t].act /\ awake' = n /\ cast' = [cast EXCEPT ![t] = Acted(cast[t], a)]
  <2>1. t \in DOMAIN cast => /\ IsRole(Acted(cast[t], a)) /\ Acted(cast[t], a).pid = cast[t].pid
                             /\ \/ cast[t].act /\ Acted(cast[t], a).act = cast[t].act
                                \/ Does(Acted(cast[t], a), "night")
    BY <1>1, <1>7, ActedIsRole DEF IsCast
  <2> DEFINE r == Acted(cast[t], a)
  <2> HIDE DEF r
  <2>2. /\ SameSeats(cast, cast')
        /\ \A u \in DOMAIN cast :
               \/ cast'[u].act = cast[u].act /\ cast'[u].doing = cast[u].doing
               \/ cast[u].act /\ cast'[u].act = cast[u].act
               \/ Does(cast'[u], "night")
    BY <1>1, <1>7, <2>1, OneRole DEF r
  <2> QED
    BY <1>2, <1>3, <1>4, <1>7, <2>2, ActsAgain
<1> QED
  BY <1>3, <1>5, <1>6, <1>7

\* OnComputerAct
LEMMA ComputerStep ==
  ASSUME HuntInv, NEW p, NEW a, ComputerAct(p, a)
  PROVE  HuntInv'
<1> DEFINE t == TokenOf(p)
           n == Masked(Size)!SilentlySetReady(awake, p)
<1>1. IsCast(cast) /\ awake \in Masked(Size)!Masker
  BY DEF HuntInv
<1>2. /\ n \in Masked(Size)!Masker
      /\ \A q \in SeatsAll : awake.active[q] = OutNow => n.active[q] = OutNow
  BY <1>1, MaskerGoesOn
<1>3. /\ hour = "wait" /\ hunt' = hunt /\ awake' = n
      /\ \/ cast' = cast
         \/ cast[t].act /\ cast' = [cast EXCEPT ![t] = Acted(cast[t], a)]
  BY DEF ComputerAct, Handled
<1> HIDE DEF t, n
<1>4. CASE cast' = cast
  BY <1>1, <1>2, <1>3, <1>4, SameCast, ActsAgain
<1>5. CASE cast[t].act /\ cast' = [cast EXCEPT ![t] = Acted(cast[t], a)]
  <2>1. t \in DOMAIN cast => /\ IsRole(Acted(cast[t], a)) /\ Acted(cast[t], a).pid = cast[t].pid
                             /\ \/ cast[t].act /\ Acted(cast[t], a).act = cast[t].act
                                \/ Does(Acted(cast[t], a), "night")
    BY <1>1, <1>5, ActedIsRole DEF IsCast
  <2> DEFINE r == Acted(cast[t], a)
  <2> HIDE DEF r
  <2>2. /\ SameSeats(cast, cast')
        /\ \A u \in DOMAIN cast :
               \/ cast'[u].act = cast[u].act /\ cast'[u].doing = cast[u].doing
               \/ cast[u].act /\ cast'[u].act = cast[u].act
               \/ Does(cast'[u], "night")
    BY <1>1, <1>5, <2>1, OneRole DEF r
  <2> QED
    BY <1>2, <1>3, <2>2, ActsAgain
<1> QED
  BY <1>3, <1>4, <1>5

\* HandleLeave: a player who leaves may still be able to act, but nobody waits for him.
LEMMA LeaveStep ==
  ASSUME HuntInv, NEW p, HuntLeave(p)
  PROVE  HuntInv'
<1> DEFINE n == Masked(Size)!SetPermanentInactive(awake, p)
<1>1. IsCast(cast) /\ awake \in Masked(Size)!Masker
  BY DEF HuntInv
<1>2. n \in Masked(Size)!Masker
  BY <1>1 DEF Masked!SetPermanentInactive, Masked!Inactivate, Masked!Masker, Masked!ActiveState
<1>3. \A q \in SeatsAll : awake.active[q] = OutNow => n.active[q] = OutNow
  BY <1>1 DEF Masked!SetPermanentInactive, Masked!Inactivate, Masked!Masker, OutNow, SeatsAll
<1>4. hour = "wait" /\ hunt' = hunt /\ awake' = n /\ cast' = cast
  BY DEF HuntLeave, Handled
<1> HIDE DEF n
<1> QED
  BY <1>1, <1>2, <1>3, <1>4, SameCast, ActsAgain

\* OnStageTimeout hooks those who are out as well; the end of the round puts them out again.
LEMMA TimeoutStep ==
  ASSUME HuntAssumption, HuntInv, HuntTimeout
  PROVE  HuntInv'
<1> DEFINE n == Masked(Size)!SetTemporaryInactive(awake, {p \in 0 .. Size - 1 : ~awake.ready[p]})
<1>1. n \in Masked(Size)!Masker
  BY HookedIsMasker DEF HuntInv
<1>2. RoundFinish(n) /\ hunt' = hunt
  BY DEF HuntTimeout
<1> HIDE DEF n
<1> QED
  BY <1>1, <1>2, RoundIsFinished, InvAgain

\* OnStageOver
LEMMA OverStep ==
  ASSUME HuntAssumption, HuntInv, HuntOver
  PROVE  HuntInv'
<1>1. RoundFinish(awake) /\ hunt' = hunt
  BY DEF HuntOver
<1> QED
  BY <1>1, RoundIsFinished, InvAgain DEF HuntInv

\* A step that changes none of it.
LEMMA HuntStutters ==
  ASSUME HuntInv, UNCHANGED <<hunt, cast, awake, hour>>
  PROVE  HuntInv'
<1>1. OfTheGame(cast', awake')
  BY DEF HuntInv, OfTheGame
<1>2. hour' # "done" => AllCanAct(cast', awake')
  BY DEF HuntInv, TheActiveCanAct, AllCanAct, Tokens, OutNow
<1> QED
  BY <1>1, <1>2, InvAgain

\* Every step of the stage keeps the invariant.
LEMMA HuntInvIsInductive ==
  ASSUME HuntAssumption, HuntInv, [HuntNext]_huntVars
  PROVE  HuntInv'
<1>1. CASE HuntInternal
  BY <1>1, OverStep DEF HuntInternal
<1>2. CASE HuntLate
  BY <1>2, TimeoutStep DEF HuntLate
<1>3. CASE ScriptStep
  <2> DEFINE s == This.script[line + 1]
  <2>1. Play(s)
    BY <1>3 DEF ScriptStep
  <2> HIDE DEF s
  <2>2. CASE s.do = "say"
    <3>1. Request(s.pid, s.act, FALSE)
      BY <2>1, <2>2 DEF Play
    <3> QED
      BY <3>1, RequestStep
  <2>3. CASE s.do = "timeout"
    <3>1. HuntTimeout
      BY <2>1, <2>3 DEF Play
    <3> QED
      BY <3>1, TimeoutStep
  <2>4. CASE s.do \notin {"say", "timeout"}
    <3>1. UNCHANGED <<hunt, cast, awake, hour>>
      BY <2>1, <2>4 DEF Play
    <3> QED
      BY <3>1, HuntStutters
  <2> QED
    BY <2>2, <2>3, <2>4
<1>4. CASE HuntStep
  <2>1. PICK p \in 0 .. Size - 1 :
          \/ \E a \in This.said : Request(p, a, FALSE)
          \/ Request(p, Pass, TRUE)
          \/ \E a \in This.said : ComputerAct(p, a)
          \/ HuntLeave(p)
    BY <1>4 DEF HuntStep
  <2> QED
    BY <2>1, RequestStep, ComputerStep, LeaveStep
<1>5. CASE UNCHANGED huntVars
  BY <1>5, HuntStutters DEF huntVars
<1> QED
  BY <1>1, <1>2, <1>3, <1>4, <1>5 DEF HuntNext

\* The inductive invariant: the seats of the roles never change, the masker is one, and
\* whoever it waits for can act.
THEOREM HuntersAreOfTheGame ==
  ASSUME HuntAssumption
  PROVE  HuntSpec => []HuntInv
<1>1. HuntInit => HuntInv
  BY InvToStart
<1>2. HuntInv /\ [HuntNext]_huntVars => HuntInv'
  BY HuntInvIsInductive
<1> QED
  BY <1>1, <1>2, PTL DEF HuntSpec

\* In a game of any roles, options and actions, after any number of rounds: whom the round
\* waits for can act, and may be answered; who died, was banished or lost with his side is out
\* for good (GenericAct_, OnStageTimeout and CheckTeamsLost_ of games/hp_killer/mygame.cc).
THEOREM WhoIsAwaitedCanAct ==
  ASSUME HuntAssumption
  PROVE  HuntSpec => []TheActiveCanAct
<1>1. HuntInv => TheActiveCanAct
  BY DEF HuntInv
<1> QED
  BY <1>1, HuntersAreOfTheGame, PTL

-----------------------------------------------------------------------------
(* HpKiller: what the roles are like between two rounds.                  *)

\* A role of token t in c.
RoleIsFair(c, t) ==
    LET r == c[t]
    IN  /\ r.kind = This.roles[t]
        /\ r.hp \in Int /\ r.curse \in Nat /\ r.alive \in BOOLEAN
        /\ r.alive = FALSE => r.hp <= 0
        /\ DOMAIN r.hidden = DOMAIN c /\ \A u \in DOMAIN c : r.hidden[u] \in Nat
        /\ r.cures \in IF r.kind = "goddess" THEN {-1} ELSE 0 .. This.cures
\* Only a twin changes sides, and only between the two teams.
TeamIsFair(r) ==
    /\ r.team \in {"civilian", "killer", "special"}
    /\ IF r.kind \in Twins THEN {r.team, r.next} \subseteq {"civilian", "killer"}
       ELSE r.team = TeamOf(r.kind) /\ r.next = TeamOf(r.kind)
\* The kinds of action whose numbers are added up.
Harmful == {"attack", "injury", "curse", "cure"}
\* What the role of token t is doing: it aims at nobody who is dead.
AimIsFair(c, t) ==
    LET d == c[t].doing
    IN  /\ d.hp \in Seq(Int)
        /\ \A i \in DOMAIN d.hp : /\ d.kind \in Harmful => d.hp[i] \in Nat
                                  /\ d.on[i] \in DOMAIN c => c[d.on[i]].alive = TRUE
        /\ c[t].alive = FALSE /\ ~c[t].act => d.hp = <<>>
\* The roles between two rounds, or while they are acting.
TableIsSet(c) ==
    \A t \in DOMAIN c : /\ RoleIsFair(c, t) /\ AimIsFair(c, t) /\ TeamIsFair(c[t])
                        /\ c[t].team = c[t].next /\ c[t].winner = FALSE

-----------------------------------------------------------------------------
(* HpKiller: what actions add up to.                                      *)

\* What adds up numbers adds up to a number, and nothing to nothing.
LEMMA NoSumIsNegative ==
  ASSUME NEW S, IsFiniteSet(S), NEW f \in [S -> Nat], NEW g, Adds(g, f, S)
  PROVE  g[S] \in Nat /\ ((\A x \in S : f[x] = 0) => g[S] = 0)
<1> DEFINE T == {s \in SUBSET S : g[s] \in Nat /\ ((\A x \in S : f[x] = 0) => g[s] = 0)}
<1>1. \A s \in SUBSET S : g[s] = IF s = {} THEN 0 ELSE f[OneOf(s)] + g[s \ {OneOf(s)}]
  BY DEF Adds, Summand
<1>2. {} \in T
  <2>1. {} \in SUBSET S /\ g[{}] = 0
    BY <1>1
  <2> QED
    BY <2>1
<1>3. ASSUME NEW s \in SUBSET S, s # {}, s \ {OneOf(s)} \in T
      PROVE  s \in T
  <2>1. OneOf(s) \in s
    BY <1>3 DEF OneOf
  <2>2. g[s] = f[OneOf(s)] + g[s \ {OneOf(s)}]
    BY <1>1, <1>3
  <2> QED
    BY <1>3, <2>1, <2>2
<1> HIDE DEF T
<1>4. S \in T
  BY <1>2, <1>3, OneByOne
<1> QED
  BY <1>4 DEF T

\* What a role says of a token is a number, and nothing if it says nothing.
LEMMA AmountIsNatural ==
  ASSUME NEW r, NEW t, Aims(r, t) \subseteq Nat, IsFiniteSet(Aims(r, t))
  PROVE  Amount(r, t) \in Nat /\ (Aims(r, t) = {} => Amount(r, t) = 0)
<1> DEFINE S == Aims(r, t)
           f == [x \in S |-> x]
           Folds(g) == g = [s \in SUBSET S |->
                              IF s = {} THEN 0 ELSE OneOf(s) + g[s \ {OneOf(s)}]]
           g == CHOOSE x : Folds(x)
<1>1. Amount(r, t) = g[S]
  BY DEF Amount, MapThenSumSet, MapThenFoldSet, OneOf
<1> HIDE DEF S
<1>2. ASSUME NEW h
      PROVE  Adds(h, f, S) <=> Folds(h)
  <2>1. \A s \in SUBSET S : s # {} => f[OneOf(s)] = OneOf(s)
    BY DEF OneOf
  <2> HIDE DEF f
  <2>2. \A s \in SUBSET S : Summand(f, h, s) = IF s = {} THEN 0 ELSE OneOf(s) + h[s \ {OneOf(s)}]
    BY <2>1 DEF Summand
  <2> QED
    BY <2>2 DEF Adds
<1>3. \E h : Adds(h, f, S)
  BY SumExists DEF S
<1>4. Adds(g, f, S)
  <2>1. Folds(g)
    BY <1>2, <1>3
  <2> QED
    BY <1>2, <2>1
<1> HIDE DEF g
<1>5. f \in [S -> Nat]
  BY DEF S
<1> HIDE DEF f
<1>6. g[S] \in Nat /\ ((\A x \in S : f[x] = 0) => g[S] = 0)
  BY <1>4, <1>5, NoSumIsNegative DEF S
<1>7. S = {} => g[S] = 0
  BY <1>6
<1> QED
  BY <1>1, <1>6, <1>7 DEF S

\* What those of S aim at t.
Shares(c, t, S) == MapThenSumSet(LAMBDA s : Amount(c[s], t), S)
\* Shares of numbers are a number, and nothing if all are nothing.
LEMMA AmountsAddUp ==
  ASSUME NEW c, NEW t, NEW S, IsFiniteSet(S), \A s \in S : Amount(c[s], t) \in Nat
  PROVE  /\ Shares(c, t, S) \in Nat
         /\ (\A s \in S : Amount(c[s], t) = 0) => Shares(c, t, S) = 0
<1> DEFINE f == [x \in S |-> Amount(c[x], t)]
           Folds(g) == g = [s \in SUBSET S |->
                        IF s = {} THEN 0 ELSE Amount(c[OneOf(s)], t) + g[s \ {OneOf(s)}]]
           g == CHOOSE x : Folds(x)
<1>1. Shares(c, t, S) = g[S]
  BY DEF Shares, MapThenSumSet, MapThenFoldSet, OneOf
<1>2. ASSUME NEW h
      PROVE  Adds(h, f, S) <=> Folds(h)
  <2>1. \A s \in SUBSET S : s # {} => f[OneOf(s)] = Amount(c[OneOf(s)], t)
    BY DEF OneOf
  <2> HIDE DEF f
  <2>2. \A s \in SUBSET S : Summand(f, h, s)
           = IF s = {} THEN 0 ELSE Amount(c[OneOf(s)], t) + h[s \ {OneOf(s)}]
    BY <2>1 DEF Summand
  <2> QED
    BY <2>2 DEF Adds
<1>3. \E h : Adds(h, f, S)
  BY SumExists
<1>4. Adds(g, f, S)
  <2>1. Folds(g)
    BY <1>2, <1>3
  <2> QED
    BY <1>2, <2>1
<1> HIDE DEF g
<1>5. f \in [S -> Nat] /\ \A s \in S : f[s] = Amount(c[s], t)
  OBVIOUS
<1> HIDE DEF f
<1>6. g[S] \in Nat /\ ((\A x \in S : f[x] = 0) => g[S] = 0)
  BY <1>4, <1>5, NoSumIsNegative
<1> QED
  BY <1>1, <1>5, <1>6

\* What the roles of c aim at is harm or cure, and each token's share is a number.
LEMMA SharesAreNatural ==
  ASSUME NEW c, IsFiniteSet(DOMAIN c), \A s \in DOMAIN c : AimIsFair(c, s), NEW t
  PROVE  \A s \in DOMAIN c :
            /\ IsFiniteSet(Aims(c[s], t))
            /\ c[s].doing.kind \in Harmful => Amount(c[s], t) \in Nat
            /\ Aims(c[s], t) = {} => Amount(c[s], t) = 0
<1> SUFFICES ASSUME NEW s \in DOMAIN c
             PROVE  /\ IsFiniteSet(Aims(c[s], t))
                    /\ c[s].doing.kind \in Harmful => Amount(c[s], t) \in Nat
                    /\ Aims(c[s], t) = {} => Amount(c[s], t) = 0
  OBVIOUS
<1> DEFINE d == c[s].doing
           I == {j \in DOMAIN d.hp : d.on[j] = t}
<1>1. d.hp \in Seq(Int) /\ (d.kind \in Harmful => \A i \in DOMAIN d.hp : d.hp[i] \in Nat)
  BY DEF AimIsFair
<1>2. Aims(c[s], t) = {d.hp[j] : j \in I}
  BY DEF Aims
<1> HIDE DEF d
<1>3. PICK n \in Nat : DOMAIN d.hp = 1 .. n
  BY <1>1
<1>4. IsFiniteSet(1 .. n) /\ I \subseteq 1 .. n
  BY <1>3, FS_Interval
<1>5. IsFiniteSet(I)
  BY <1>4, FS_Subset
<1> HIDE DEF I
<1>6. IsFiniteSet({d.hp[j] : j \in I})
  BY <1>5, FiniteValues
<1>7. d.kind \in Harmful => Aims(c[s], t) \subseteq Nat
  BY <1>1, <1>2 DEF I
<1>8. Aims(c[s], t) = {} => Amount(c[s], t) = 0
  <2> SUFFICES ASSUME Aims(c[s], t) = {} PROVE Amount(c[s], t) = 0
    OBVIOUS
  <2>1. Aims(c[s], t) \subseteq Nat /\ IsFiniteSet(Aims(c[s], t))
    BY <1>2, <1>6
  <2> QED
    BY <2>1, AmountIsNatural
<1>9. d.kind \in Harmful => Amount(c[s], t) \in Nat
  BY <1>2, <1>6, <1>7, AmountIsNatural
<1> QED
  BY <1>2, <1>6, <1>8, <1>9 DEF d

\* What those of S who harm or cure aim at t is a number, and nothing if none aims there.
LEMMA SharesAddUp ==
  ASSUME NEW c, IsFiniteSet(DOMAIN c), \A s \in DOMAIN c : AimIsFair(c, s), NEW t,
         NEW S, S \subseteq DOMAIN c, \A s \in S : c[s].doing.kind \in Harmful
  PROVE  /\ Shares(c, t, S) \in Nat
         /\ (\A s \in DOMAIN c : Aims(c[s], t) = {}) => Shares(c, t, S) = 0
<1>1. IsFiniteSet(S)
  BY FS_Subset
<1>2. \A s \in S : Amount(c[s], t) \in Nat /\ (Aims(c[s], t) = {} => Amount(c[s], t) = 0)
  BY SharesAreNatural
<1>3. /\ Shares(c, t, S) \in Nat
      /\ (\A s \in S : Amount(c[s], t) = 0) => Shares(c, t, S) = 0
  BY <1>1, <1>2, AmountsAddUp
<1> QED
  BY <1>2, <1>3

\* The attacks on u that are not avoided, whoever takes them.
Attacks(c, u) == Shares(c, u, {s \in DOMAIN c : Does(c[s], "attack") /\ ~Avoided(c, s, u)})
AllAttacks(c, S) ==
    MapThenSumSet(LAMBDA u : Aimed(c, "attack", u, LAMBDA s : ~Avoided(c, s, u)), S)
LEMMA AttacksAddUp ==
  ASSUME NEW c, NEW S, IsFiniteSet(S), \A u \in S : Attacks(c, u) \in Nat
  PROVE  AllAttacks(c, S) \in Nat
<1> DEFINE f == [x \in S |-> Attacks(c, x)]
           Folds(g) == g = [s \in SUBSET S |->
                        IF s = {} THEN 0 ELSE Attacks(c, OneOf(s)) + g[s \ {OneOf(s)}]]
           g == CHOOSE x : Folds(x)
<1>1. AllAttacks(c, S) = g[S]
  BY DEF AllAttacks, MapThenSumSet, MapThenFoldSet, OneOf, Attacks, Shares, Aimed
<1>2. ASSUME NEW h
      PROVE  Adds(h, f, S) <=> Folds(h)
  <2>1. \A s \in SUBSET S : s # {} => f[OneOf(s)] = Attacks(c, OneOf(s))
    BY DEF OneOf
  <2> HIDE DEF f
  <2>2. \A s \in SUBSET S : Summand(f, h, s)
           = IF s = {} THEN 0 ELSE Attacks(c, OneOf(s)) + h[s \ {OneOf(s)}]
    BY <2>1 DEF Summand
  <2> QED
    BY <2>2 DEF Adds
<1>3. \E h : Adds(h, f, S)
  BY SumExists
<1>4. Adds(g, f, S)
  <2>1. Folds(g)
    BY <1>2, <1>3
  <2> QED
    BY <1>2, <2>1
<1> HIDE DEF g
<1>5. f \in [S -> Nat]
  OBVIOUS
<1> HIDE DEF f
<1>6. g[S] \in Nat
  BY <1>4, <1>5, NoSumIsNegative
<1> QED
  BY <1>1, <1>6

\* What falls back on s, from each of those who are safe.
Returned(c, s, u) == IF Avoided(c, s, u) THEN 0 ELSE Amount(c[s], u)
AllReturned(c, s, S) ==
    MapThenSumSet(LAMBDA t : IF Avoided(c, s, t) THEN 0 ELSE Amount(c[s], t), S)
LEMMA ReturnedAddUp ==
  ASSUME NEW c, NEW s, NEW S, IsFiniteSet(S), \A u \in S : Returned(c, s, u) \in Nat
  PROVE  AllReturned(c, s, S) \in Nat
<1> DEFINE f == [x \in S |-> Returned(c, s, x)]
           Folds(g) == g = [q \in SUBSET S |->
                        IF q = {} THEN 0 ELSE Returned(c, s, OneOf(q)) + g[q \ {OneOf(q)}]]
           g == CHOOSE x : Folds(x)
<1>1. AllReturned(c, s, S) = g[S]
  BY DEF AllReturned, MapThenSumSet, MapThenFoldSet, OneOf, Returned
<1>2. ASSUME NEW h
      PROVE  Adds(h, f, S) <=> Folds(h)
  <2>1. \A q \in SUBSET S : q # {} => f[OneOf(q)] = Returned(c, s, OneOf(q))
    BY DEF OneOf
  <2> HIDE DEF f
  <2>2. \A q \in SUBSET S : Summand(f, h, q)
           = IF q = {} THEN 0 ELSE Returned(c, s, OneOf(q)) + h[q \ {OneOf(q)}]
    BY <2>1 DEF Summand
  <2> QED
    BY <2>2 DEF Adds
<1>3. \E h : Adds(h, f, S)
  BY SumExists
<1>4. Adds(g, f, S)
  <2>1. Folds(g)
    BY <1>2, <1>3
  <2> QED
    BY <1>2, <2>1
<1> HIDE DEF g
<1>5. f \in [S -> Nat]
  OBVIOUS
<1> HIDE DEF f
<1>6. g[S] \in Nat
  BY <1>4, <1>5, NoSumIsNegative
<1> QED
  BY <1>1, <1>6

-----------------------------------------------------------------------------
(* HpKiller: what a round does to the roles.                              *)

\* A cast while a round is settled.
Settling(c) ==
    /\ This.roles \in Seq(Occupations) /\ This.cures \in Nat
    /\ IsCast(c) /\ IsFiniteSet(DOMAIN c)
    /\ \A t \in DOMAIN c : RoleIsFair(c, t) /\ AimIsFair(c, t)

\* The commands refuse the dead as targets, and nobody is revived.
LEMMA NobodyAimsAtTheDead ==
  ASSUME NEW c, Settling(c), NEW t \in DOMAIN c, c[t].alive = FALSE
  PROVE  \A s \in DOMAIN c : Aims(c[s], t) = {}
<1> SUFFICES ASSUME NEW s \in DOMAIN c, NEW x \in Aims(c[s], t)
             PROVE  FALSE
  OBVIOUS
<1>1. PICK j \in DOMAIN c[s].doing.hp : c[s].doing.on[j] = t
  BY DEF Aims
<1>2. c[t].alive = TRUE
  BY <1>1 DEF Settling, AimIsFair
<1> QED
  BY <1>2

\* Settlement: no blow, cure or curse is negative, and the dead are not cured.
LEMMA HurtIsNatural ==
  ASSUME NEW c, Settling(c), NEW t \in DOMAIN c
  PROVE  /\ Hurt(c, t) \in Nat /\ Gained(c, t) \in Nat /\ Cursed(c, t) \in Nat
         /\ c[t].alive = FALSE => Gained(c, t) = 0
<1>1. IsFiniteSet(DOMAIN c) /\ (\A s \in DOMAIN c : AimIsFair(c, s)) /\ RoleIsFair(c, t)
  BY DEF Settling
<1>2. Aimed(c, "attack", t, LAMBDA s : ~Avoided(c, s, t) /\ ~Blocked(c, t)) \in Nat
  <2> DEFINE S == {s \in DOMAIN c : Does(c[s], "attack") /\ ~Avoided(c, s, t) /\ ~Blocked(c, t)}
  <2>1. Aimed(c, "attack", t, LAMBDA s : ~Avoided(c, s, t) /\ ~Blocked(c, t)) = Shares(c, t, S)
    BY DEF Aimed, Shares
  <2>2. S \subseteq DOMAIN c /\ \A s \in S : c[s].doing.kind \in Harmful
    BY DEF Does, Harmful
  <2> HIDE DEF S
  <2> QED
    BY <1>1, <2>1, <2>2, SharesAddUp
<1>3. Aimed(c, "injury", t, LAMBDA s : TRUE) \in Nat
  <2> DEFINE S == {s \in DOMAIN c : Does(c[s], "injury") /\ TRUE}
  <2>1. Aimed(c, "injury", t, LAMBDA s : TRUE) = Shares(c, t, S)
    BY DEF Aimed, Shares
  <2>2. S \subseteq DOMAIN c /\ \A s \in S : c[s].doing.kind \in Harmful
    BY DEF Does, Harmful
  <2> HIDE DEF S
  <2> QED
    BY <1>1, <2>1, <2>2, SharesAddUp
<1>4. \A u : Attacks(c, u) \in Nat
  <2> TAKE u
  <2> DEFINE S == {s \in DOMAIN c : Does(c[s], "attack") /\ ~Avoided(c, s, u)}
  <2>1. S \subseteq DOMAIN c /\ \A s \in S : c[s].doing.kind \in Harmful
    BY DEF Does, Harmful
  <2>2. Attacks(c, u) = Shares(c, u, S)
    BY DEF Attacks
  <2> HIDE DEF S
  <2> QED
    BY <1>1, <2>1, <2>2, SharesAddUp
<1>5. AllAttacks(c, {u \in DOMAIN c : Blocked(c, u)}) \in Nat
  <2>1. IsFiniteSet({u \in DOMAIN c : Blocked(c, u)})
    <3>1. {u \in DOMAIN c : Blocked(c, u)} \subseteq DOMAIN c
      OBVIOUS
    <3> QED
      BY <1>1, <3>1, FS_Subset
  <2> QED
    BY <1>4, <2>1, AttacksAddUp
<1>6. 25 * Cardinality({i \in DOMAIN c[t].doing.hp : c[t].doing.hp[i] = 25}) \in Nat
  <2> DEFINE hp == c[t].doing.hp
             I == {i \in DOMAIN hp : hp[i] = 25}
  <2>1. hp \in Seq(Int)
    BY <1>1 DEF AimIsFair
  <2> HIDE DEF hp
  <2>2. PICK n \in Nat : DOMAIN hp = 1 .. n
    BY <2>1
  <2>3. IsFiniteSet(1 .. n) /\ I \subseteq 1 .. n
    BY <2>2, FS_Interval
  <2> HIDE DEF I
  <2>4. Cardinality(I) \in Nat
    BY <2>3, FS_Subset, FS_CardinalityType
  <2> QED
    BY <2>4 DEF I, hp
<1>7. Hurt(c, t) \in Nat
  <2> DEFINE a == Aimed(c, "attack", t, LAMBDA s : ~Avoided(c, s, t) /\ ~Blocked(c, t))
             b == Aimed(c, "injury", t, LAMBDA s : TRUE)
             e == AllAttacks(c, {u \in DOMAIN c : Blocked(c, u)})
             f == 25 * Cardinality({i \in DOMAIN c[t].doing.hp : c[t].doing.hp[i] = 25})
  <2>1. Hurt(c, t) = a + b + (IF t = First(c, {"double"}) THEN e ELSE 0)
                       + (IF c[t].kind = "ghost" /\ Does(c[t], "attack") THEN f ELSE 0)
    BY DEF Hurt, AllAttacks
  <2>2. a \in Nat /\ b \in Nat /\ e \in Nat /\ f \in Nat
    BY <1>2, <1>3, <1>5, <1>6
  <2> HIDE DEF a, b, e, f
  <2> QED
    BY <2>1, <2>2
<1>8. Gained(c, t) \in Nat /\ (c[t].alive = FALSE => Gained(c, t) = 0)
  <2> DEFINE S == {s \in DOMAIN c : Does(c[s], "cure") /\ ~CureBlocked(c, t)}
  <2>1. Gained(c, t) = Shares(c, t, S)
    BY DEF Gained, Aimed, Shares
  <2>2. S \subseteq DOMAIN c /\ \A s \in S : c[s].doing.kind \in Harmful
    BY DEF Does, Harmful
  <2> HIDE DEF S
  <2> QED
    BY <1>1, <2>1, <2>2, SharesAddUp, NobodyAimsAtTheDead
<1>9. Cursed(c, t) \in Nat
  <2> DEFINE S == {s \in DOMAIN c : Does(c[s], "curse") /\ c[s].kind = "witch"}
             a == Aimed(c, "curse", t, LAMBDA s : c[s].kind = "witch")
  <2>1. a = Shares(c, t, S)
    BY DEF Aimed, Shares
  <2>2. S \subseteq DOMAIN c /\ \A s \in S : c[s].doing.kind \in Harmful
    BY DEF Does, Harmful
  <2>3. Cursed(c, t) = (IF Attacked(c, t) THEN 0 ELSE c[t].curse) + a
    BY DEF Cursed
  <2> HIDE DEF S, a
  <2>4. a \in Nat
    BY <1>1, <2>1, <2>2, SharesAddUp
  <2> QED
    BY <1>1, <2>3, <2>4 DEF RoleIsFair
<1> QED
  BY <1>7, <1>8, <1>9

\* A cast is a sequence, and GetRole of an occupation finds one if there is one.
LEMMA FirstIsOne ==
  ASSUME NEW c, IsCast(c), This.roles \in Seq(Occupations), NEW kinds
  PROVE  /\ First(c, kinds) # 0 => /\ First(c, kinds) \in DOMAIN c
                                   /\ c[First(c, kinds)].kind \in kinds
         /\ \A t \in DOMAIN c : c[t].kind \in kinds => First(c, kinds) > 0
         /\ First(c, kinds) \in Nat
<1> DEFINE R == {c[t] : t \in DOMAIN c}
<1>1. PICK n \in Nat : DOMAIN c = 1 .. n
  BY DEF IsCast
<1>2. c \in [1 .. n -> R]
  BY <1>1 DEF IsCast
<1> HIDE DEF R
<1>3. c \in Seq(R)
  BY <1>2
<1>4. Len(c) = n
  BY <1>1, <1>3
<1> DEFINE I == {i \in 1 .. n : c[i].kind \in kinds}
<1>5. First(c, kinds) = IF I # {} THEN Min(I) ELSE 0
  BY <1>4 DEF First, SelectInSeq
<1>6. I # {} => Min(I) \in I
  <2> SUFFICES ASSUME I # {} PROVE Min(I) \in I
    OBVIOUS
  <2>1. I \subseteq Nat
    OBVIOUS
  <2> HIDE DEF I
  <2>2. \E x \in I : \A y \in I : x <= y
    BY <2>1, LeastNumber
  <2> QED
    BY <2>2 DEF Min
<1>7. First(c, kinds) # 0 => I # {} /\ First(c, kinds) \in I
  <2> HIDE DEF I
  <2> QED
    BY <1>5, <1>6
<1>8. I # {} => First(c, kinds) > 0
  <2>1. I # {} => First(c, kinds) \in I
    <3> HIDE DEF I
    <3> QED
      BY <1>5, <1>6
  <2> QED
    BY <2>1
<1>9. First(c, kinds) \in Nat
  <2>1. First(c, kinds) # 0 => First(c, kinds) \in 1 .. n
    BY <1>7
  <2> QED
    BY <2>1
<1> QED
  BY <1>1, <1>7, <1>8, <1>9

\* A role but for its hp, its curse and what is to happen at the end of the round.
LikeRole(r, s) ==
    /\ IsRole(s)
    /\ s.kind = r.kind /\ s.pid = r.pid /\ s.team = r.team /\ s.next = r.next /\ s.act = r.act
    /\ s.alive = r.alive /\ s.winner = r.winner /\ s.cures = r.cures /\ s.doing = r.doing
    /\ s.hidden = r.hidden
\* The roles of d are those of c, but for hp, curse and what is to happen.
Alike(c, d) ==
    /\ DOMAIN d = DOMAIN c /\ d = [t \in DOMAIN d |-> d[t]]
    /\ \A t \in DOMAIN c : LikeRole(c[t], d[t])

\* A change of hp and curses that revives nobody leaves a cast that can be settled.
LEMMA AlikeIsSettling ==
  ASSUME NEW c, Settling(c), NEW d, Alike(c, d),
         \A t \in DOMAIN c : /\ d[t].hp \in Int /\ d[t].curse \in Nat
                             /\ c[t].alive = FALSE => d[t].hp <= 0
  PROVE  Settling(d)
<1>1. IsCast(d) /\ IsFiniteSet(DOMAIN d)
  BY DEF Settling, Alike, LikeRole, IsCast
<1>2. ASSUME NEW t \in DOMAIN d
      PROVE  RoleIsFair(d, t)
  <2>1. t \in DOMAIN c /\ RoleIsFair(c, t) /\ LikeRole(c[t], d[t]) /\ DOMAIN d = DOMAIN c
    BY DEF Alike, Settling
  <2>2. d[t].hp \in Int /\ d[t].curse \in Nat /\ (d[t].alive = FALSE => d[t].hp <= 0)
    BY <2>1 DEF LikeRole
  <2> QED
    BY <2>1, <2>2 DEF RoleIsFair, LikeRole
<1>3. ASSUME NEW t \in DOMAIN d
      PROVE  AimIsFair(d, t)
  <2>1. t \in DOMAIN c /\ AimIsFair(c, t) /\ LikeRole(c[t], d[t]) /\ DOMAIN d = DOMAIN c
    BY DEF Alike, Settling
  <2>2. \A u \in DOMAIN c : d[u].alive = c[u].alive
    BY DEF Alike, LikeRole
  <2> QED
    BY <2>1, <2>2 DEF AimIsFair, LikeRole
<1> QED
  BY <1>1, <1>2, <1>3 DEF Settling

\* What two changes leave alone.
LEMMA StillAlike ==
  ASSUME NEW c, NEW d, NEW e, Alike(c, d), Alike(d, e)
  PROVE  Alike(c, e)
BY DEF Alike, LikeRole

\* The actions and the curses take hp from the dead but never give any.
LEMMA StruckIsSettling ==
  ASSUME NEW c, Settling(c)
  PROVE  Alike(c, Struck(c)) /\ Settling(Struck(c))
<1> DEFINE hp(t) == c[t].hp - Hurt(c, t) + Gained(c, t)
                       - (IF Does(c[t], "pass") THEN 0 ELSE Cursed(c, t))
           s(t) == [c[t] EXCEPT !.curse = Cursed(c, t), !.hp = hp(t)]
           d == Struck(c)
<1>1. d = [t \in DOMAIN c |-> s(t)]
  BY DEF Struck
<1>2. ASSUME NEW t \in DOMAIN c
      PROVE  /\ LikeRole(c[t], s(t)) /\ s(t).hp = hp(t) /\ s(t).curse = Cursed(c, t)
  <2>1. IsRole(c[t])
    BY DEF Settling, IsCast
  <2> HIDE DEF hp
  <2> QED
    BY <2>1 DEF IsRole, RoleFields, LikeRole
<1>3. ASSUME NEW t \in DOMAIN c
      PROVE  hp(t) \in Int /\ Cursed(c, t) \in Nat /\ (c[t].alive = FALSE => hp(t) <= 0)
  <2>1. c[t].hp \in Int /\ (c[t].alive = FALSE => c[t].hp <= 0)
    BY DEF Settling, RoleIsFair
  <2>2. /\ Hurt(c, t) \in Nat /\ Gained(c, t) \in Nat /\ Cursed(c, t) \in Nat
        /\ c[t].alive = FALSE => Gained(c, t) = 0
    BY HurtIsNatural
  <2> QED
    BY <2>1, <2>2
<1> HIDE DEF s, hp, d
<1>4. Alike(c, d)
  BY <1>1, <1>2 DEF Alike
<1>5. \A t \in DOMAIN c : /\ d[t].hp \in Int /\ d[t].curse \in Nat
                          /\ c[t].alive = FALSE => d[t].hp <= 0
  BY <1>1, <1>2, <1>3
<1>6. Settling(d)
  BY <1>4, <1>5, AlikeIsSettling
<1> QED
  BY <1>4, <1>6 DEF d

\* SettlementShieldAnti_ gives nothing to the dead: the guard cannot shield them.
LEMMA ReflectedIsSettling ==
  ASSUME NEW c, Settling(c)
  PROVE  Alike(c, Reflected(c)) /\ Settling(Reflected(c))
<1> DEFINE safe == Shielded(c)
           back(s) == AllReturned(c, s, safe)
           spared(t) == Aimed(c, "attack", t, LAMBDA s : ~Avoided(c, s, t))
           hp(t) == c[t].hp + (IF t \in safe THEN spared(t) ELSE 0)
                            - (IF Does(c[t], "attack") THEN back(t) ELSE 0)
           r(t) == [c[t] EXCEPT !.hp = hp(t)]
           d == Reflected(c)
<1>1. d = IF safe = {} THEN c ELSE [t \in DOMAIN c |-> r(t)]
  BY DEF Reflected, AllReturned
<1>2. ASSUME NEW t \in DOMAIN c
      PROVE  LikeRole(c[t], r(t)) /\ r(t).hp = hp(t) /\ r(t).curse = c[t].curse
  <2>1. IsRole(c[t])
    BY DEF Settling, IsCast
  <2> HIDE DEF hp
  <2> QED
    BY <2>1 DEF IsRole, RoleFields, LikeRole
<1>3. safe \subseteq DOMAIN c /\ \A t \in safe : c[t].alive # FALSE
  <2>1. ASSUME NEW t \in safe
        PROVE  t \in DOMAIN c /\ c[t].alive # FALSE
    <3> DEFINE g == First(c, {"guard"})
    <3>1. t \in DOMAIN c /\ c[t].hp \in Aims(c[g], t) /\ g # 0
      BY DEF Shielded
    <3>2. g \in DOMAIN c
      BY <3>1, FirstIsOne DEF Settling
    <3> HIDE DEF g
    <3> QED
      BY <3>1, <3>2, NobodyAimsAtTheDead
  <2> QED
    BY <2>1
<1>4. IsFiniteSet(DOMAIN c) /\ \A s \in DOMAIN c : AimIsFair(c, s)
  BY DEF Settling
<1>5. ASSUME NEW s \in DOMAIN c, Does(c[s], "attack")
      PROVE  back(s) \in Nat
  <2>1. \A u \in safe : Returned(c, s, u) \in Nat
    <3>1. \A u : Amount(c[s], u) \in Nat
      BY <1>4, <1>5, SharesAreNatural DEF Does, Harmful
    <3> QED
      BY <3>1 DEF Returned
  <2>2. IsFiniteSet(safe)
    BY <1>3, <1>4, FS_Subset
  <2> HIDE DEF safe
  <2> QED
    BY <2>1, <2>2, ReturnedAddUp
<1>6. ASSUME NEW t \in DOMAIN c
      PROVE  spared(t) \in Nat
  <2> DEFINE S == {s \in DOMAIN c : Does(c[s], "attack") /\ ~Avoided(c, s, t)}
  <2>1. spared(t) = Shares(c, t, S)
    BY DEF Aimed, Shares
  <2>2. S \subseteq DOMAIN c /\ \A s \in S : c[s].doing.kind \in Harmful
    BY DEF Does, Harmful
  <2> HIDE DEF S, spared
  <2> QED
    BY <1>4, <2>1, <2>2, SharesAddUp
<1> HIDE DEF back, spared, safe
<1>7. ASSUME NEW t \in DOMAIN c
      PROVE  hp(t) \in Int /\ (c[t].alive = FALSE => hp(t) <= 0)
  <2> DEFINE more == IF t \in safe THEN spared(t) ELSE 0
             less == IF Does(c[t], "attack") THEN back(t) ELSE 0
  <2>1. c[t].hp \in Int /\ (c[t].alive = FALSE => c[t].hp <= 0)
    BY DEF Settling, RoleIsFair
  <2>2. more \in Nat /\ (t \notin safe => more = 0)
    BY <1>6
  <2>3. less \in Nat
    BY <1>5
  <2>4. hp(t) = c[t].hp + more - less
    OBVIOUS
  <2>5. c[t].alive = FALSE => more = 0
    BY <1>3, <2>2
  <2> HIDE DEF more, less, hp
  <2>6. hp(t) \in Int
    BY <2>1, <2>2, <2>3, <2>4
  <2>7. more = 0 /\ c[t].hp <= 0 => hp(t) <= 0
    BY <2>1, <2>3, <2>4
  <2> QED
    BY <2>1, <2>5, <2>6, <2>7
<1>8. \A t \in DOMAIN c : /\ c[t].hp \in Int /\ c[t].curse \in Nat
                          /\ c[t].alive = FALSE => c[t].hp <= 0
  BY DEF Settling, RoleIsFair
<1> HIDE DEF r, hp, d
<1>9. Alike(c, d)
  <2>1. Alike(c, c)
    BY DEF Alike, LikeRole, Settling, IsCast
  <2>2. safe # {} => Alike(c, d)
    BY <1>1, <1>2 DEF Alike
  <2> QED
    BY <1>1, <2>1, <2>2
<1>10. \A t \in DOMAIN c : /\ d[t].hp \in Int /\ d[t].curse \in Nat
                           /\ c[t].alive = FALSE => d[t].hp <= 0
  BY <1>1, <1>2, <1>7, <1>8
<1>11. Settling(d)
  BY <1>9, <1>10, AlikeIsSettling
<1> QED
  BY <1>9, <1>11 DEF d

\* SettlementAction_
LEMMA SettledIsSettling ==
  ASSUME NEW c, Settling(c)
  PROVE  Alike(c, Settled(c)) /\ Settling(Settled(c))
<1> DEFINE d == Reflected(Struck(c))
           off(t) == d[t].off \/ t \in Banished(c)
           r(t) == [d[t] EXCEPT !.off = off(t)]
           e == Settled(c)
<1>1. Alike(c, d) /\ Settling(d)
  BY StruckIsSettling, ReflectedIsSettling, StillAlike
<1>2. e = [t \in DOMAIN d |-> r(t)]
  BY <1>1 DEF Settled, Alike
<1> HIDE DEF d
<1>3. ASSUME NEW t \in DOMAIN d
      PROVE  LikeRole(d[t], r(t)) /\ r(t).hp = d[t].hp /\ r(t).curse = d[t].curse
  <2>1. IsRole(d[t])
    BY <1>1 DEF Settling, IsCast
  <2> HIDE DEF off
  <2> QED
    BY <2>1 DEF IsRole, RoleFields, LikeRole
<1> HIDE DEF r, e
<1>4. Alike(d, e)
  BY <1>2, <1>3 DEF Alike
<1>5. \A t \in DOMAIN d : /\ d[t].hp \in Int /\ d[t].curse \in Nat
                          /\ d[t].alive = FALSE => d[t].hp <= 0
  BY <1>1 DEF Settling, RoleIsFair
<1>6. Settling(e)
  BY <1>1, <1>2, <1>3, <1>4, <1>5, AlikeIsSettling
<1> QED
  BY <1>1, <1>4, <1>6, StillAlike DEF e

\* A role after its OnRoundEnd: who has no hp left is dead, and nobody does anything yet.
Outlives(r, s) ==
    /\ IsRole(s) /\ s.kind = r.kind /\ s.pid = r.pid /\ s.team = r.team
    /\ s.hp = r.hp /\ s.curse = r.curse /\ s.hidden = r.hidden /\ s.winner = r.winner
    /\ s.alive \in BOOLEAN
    /\ s.alive = TRUE => r.alive = TRUE /\ r.hp > 0
    /\ r.alive = TRUE /\ r.hp > 0 => s.alive = TRUE
    /\ s.doing.hp = <<>>
    /\ s.cures \in IF s.kind = "goddess" THEN {-1} ELSE 0 .. This.cures

\* RoleBase::OnRoundEnd, of everybody.
LEMMA AgedIs ==
  ASSUME NEW c, Settling(c), NEW t \in DOMAIN c
  PROVE  Outlives(c[t], Aged(c[t])) /\ Aged(c[t]).next = c[t].next
<1> DEFINE r == c[t]
           range == IF r.kind = "goddess" THEN {-1} ELSE 0 .. This.cures
<1>1. IsRole(r) /\ r.alive \in BOOLEAN /\ r.hp \in Int
  BY DEF Settling, IsCast, RoleIsFair
<1>2. r.cures \in range
  BY DEF Settling, RoleIsFair
<1>3. r.alive = FALSE /\ ~r.act => r.doing.hp = <<>>
  BY DEF Settling, AimIsFair
<1> HIDE DEF r, range
<1>4. CASE ~r.act /\ ~r.alive
  <2>1. Aged(r) = r
    BY <1>4 DEF Aged
  <2>2. r.alive = FALSE
    BY <1>1, <1>4
  <2>3. Outlives(r, r)
    BY <1>1, <1>2, <1>3, <1>4, <2>2 DEF Outlives, range
  <2> QED
    BY <2>1, <2>3 DEF r
<1>5. CASE ~(~r.act /\ ~r.alive)
  <2> DEFINE act == r.act /\ ~r.off
             alive == r.alive /\ r.hp > 0
             cures == IF Does(r, "cure") /\ r.cures > 0 THEN r.cures - 1 ELSE r.cures
             uses == IF r.kind = "guard" /\ ~Does(r, "shield") THEN {} ELSE r.used
             s == [r EXCEPT !.act = act, !.off = FALSE, !.alive = alive, !.cures = cures,
                            !.used = uses, !.last = r.doing.kind, !.doing = Pass]
  <2>1. Aged(r) = s
    BY <1>5 DEF Aged
  <2>2. cures \in range
    <3>1. CASE r.kind = "goddess"
      BY <1>2, <3>1 DEF range
    <3>2. CASE r.kind # "goddess"
      <4> DEFINE k == This.cures
                 x == r.cures
      <4>1. x \in 0 .. k /\ range = 0 .. k
        BY <1>2, <3>2 DEF range
      <4>2. cures = IF Does(r, "cure") /\ x > 0 THEN x - 1 ELSE x
        OBVIOUS
      <4> HIDE DEF k, range, cures, x
      <4>3. x \in Int /\ 0 <= x /\ x <= k /\ k \in Nat
        BY <4>1 DEF k, Settling
      <4>4. CASE x > 0
        <5>1. x - 1 \in 0 .. k
          BY <4>3, <4>4
        <5> QED
          BY <4>1, <4>2, <5>1
      <4>5. CASE ~(x > 0)
        BY <4>1, <4>2, <4>5
      <4> QED
        BY <4>4, <4>5
    <3> QED
      BY <3>1, <3>2
  <2>3. alive \in BOOLEAN
    OBVIOUS
  <2>4. alive = TRUE => r.alive = TRUE /\ r.hp > 0
    BY <1>1
  <2>5. r.alive = TRUE /\ r.hp > 0 => alive = TRUE
    BY <1>1
  <2> HIDE DEF act, alive, cures, uses
  <2>6. /\ IsRole(s) /\ s.kind = r.kind /\ s.pid = r.pid /\ s.team = r.team
        /\ s.next = r.next /\ s.hp = r.hp /\ s.curse = r.curse /\ s.hidden = r.hidden
        /\ s.winner = r.winner /\ s.alive = alive /\ s.cures = cures /\ s.doing = Pass
    BY <1>1 DEF IsRole, RoleFields
  <2>7. Pass.hp = <<>>
    BY DEF Pass
  <2> HIDE DEF s
  <2>8. Outlives(r, s)
    BY <2>2, <2>3, <2>4, <2>5, <2>6, <2>7 DEF Outlives, range
  <2> QED
    BY <2>1, <2>6, <2>8 DEF r
<1> QED
  BY <1>4, <1>5

\* The other twin takes the side of one who has just died.
TakesAfter(c, e, t, s) ==
    /\ s \in DOMAIN c /\ c[s].alive = TRUE /\ e[s].alive = FALSE /\ c[s].kind \in Twins
    /\ c[t].kind \in Twins /\ c[t].hp > 0
    /\ e[t].next = c[s].team

\* RolesOnRoundEnd_: everybody has his OnRoundEnd, and a twin may go over.
LEMMA BuriedIs ==
  ASSUME NEW c, Settling(c), NEW t \in DOMAIN c, NEW e, e = Buried(c)
  PROVE  /\ Outlives(c[t], e[t])
         /\ e[t].next = c[t].next \/ \E s \in DOMAIN c : TakesAfter(c, e, t, s)
<1> DEFINE d == [u \in DOMAIN c |-> Aged(c[u])]
           dead == {u \in DOMAIN c : c[u].alive /\ ~d[u].alive}
           heir == IF First(c, {"traitor"}) > 0 THEN First(c, {"traitor"})
                   ELSE First(c, {"firstTraitor"})
           brother(u) == First(c, Twins \ {c[u].kind})
           orphaned == {u \in dead : c[u].kind \in Twins /\ brother(u) > 0 /\ d[brother(u)].hp > 0}
           act(u) == d[u].act /\ ~(u \in dead /\ c[u].kind # "ghost")
           heavy(u) == d[u].heavy \/ (u = heir /\ \E k \in dead : c[k].kind = "killer")
           next(u) == IF \E s \in orphaned : brother(s) = u
                      THEN c[CHOOSE s \in orphaned : brother(s) = u].team ELSE d[u].next
           r(u) == [d[u] EXCEPT !.act = act(u), !.heavy = heavy(u), !.next = next(u)]
<1>1. e = [u \in DOMAIN c |-> r(u)]
  BY DEF Buried
<1>2. \A u \in DOMAIN c : d[u] = Aged(c[u])
  OBVIOUS
<1>3. \A u \in DOMAIN c : c[u].alive \in BOOLEAN
  BY DEF Settling, RoleIsFair
<1> HIDE DEF d
<1>4. \A u \in DOMAIN c : Outlives(c[u], d[u]) /\ d[u].next = c[u].next
  BY <1>2, AgedIs
<1>5. ASSUME NEW u \in DOMAIN c
      PROVE  Outlives(c[u], r(u)) /\ r(u).next = next(u) /\ r(u).alive = d[u].alive
  <2>1. IsRole(d[u]) /\ Outlives(c[u], d[u])
    BY <1>4 DEF Outlives
  <2> HIDE DEF act, heavy, next
  <2>2. /\ IsRole(r(u)) /\ r(u).kind = d[u].kind /\ r(u).pid = d[u].pid
        /\ r(u).team = d[u].team /\ r(u).hp = d[u].hp /\ r(u).curse = d[u].curse
        /\ r(u).hidden = d[u].hidden /\ r(u).winner = d[u].winner
        /\ r(u).alive = d[u].alive /\ r(u).doing = d[u].doing /\ r(u).cures = d[u].cures
        /\ r(u).next = next(u)
    BY <2>1 DEF IsRole, RoleFields
  <2> HIDE DEF r
  <2> QED
    BY <2>1, <2>2 DEF Outlives
<1> HIDE DEF r
<1>6. \A u \in DOMAIN c : e[u] = r(u)
  BY <1>1
<1>7. next(t) = c[t].next \/ \E s \in DOMAIN c : TakesAfter(c, e, t, s)
  <2>1. CASE ~\E s \in orphaned : brother(s) = t
    BY <1>4, <2>1
  <2>2. CASE \E s \in orphaned : brother(s) = t
    <3> DEFINE s == CHOOSE s \in orphaned : brother(s) = t
    <3>1. s \in orphaned /\ brother(s) = t /\ next(t) = c[s].team
      BY <2>2
    <3> HIDE DEF s
    <3>2. /\ s \in DOMAIN c /\ c[s].alive /\ ~d[s].alive /\ c[s].kind \in Twins
          /\ d[t].hp > 0 /\ First(c, Twins \ {c[s].kind}) = t /\ t > 0
      BY <3>1
    <3>3. c[t].kind \in Twins
      <4>1. This.roles \in Seq(Occupations) /\ IsCast(c)
        BY DEF Settling
      <4>2. t # 0
        BY <3>2
      <4> QED
        BY <3>2, <4>1, <4>2, FirstIsOne
    <3>4. c[s].alive = TRUE
      BY <1>3, <3>2
    <3>5. d[s].alive \in BOOLEAN
      BY <1>4, <3>2 DEF Outlives
    <3>6. e[s].alive = d[s].alive
      BY <1>5, <1>6, <3>2
    <3>7. e[s].alive = FALSE
      BY <3>2, <3>5, <3>6
    <3>8. d[t].hp = c[t].hp
      BY <1>4 DEF Outlives
    <3>9. e[t].next = next(t)
      BY <1>5, <1>6
    <3> HIDE DEF next, d
    <3> QED
      BY <3>1, <3>2, <3>3, <3>4, <3>7, <3>8, <3>9 DEF TakesAfter
  <2> QED
    BY <2>1, <2>2
<1> HIDE DEF d, next
<1> QED
  BY <1>5, <1>6, <1>7

\* What a round makes of the table c: nobody comes back to life, the dead are on the side they
\* died on, and a living twin may have taken the side of the one who died.
RoundOf(c, d) ==
    /\ IsCast(d) /\ DOMAIN d = DOMAIN c
    /\ \A t \in DOMAIN c :
          /\ RoleIsFair(d, t) /\ AimIsFair(d, t) /\ TeamIsFair(d[t])
          /\ d[t].kind = c[t].kind /\ d[t].team = c[t].team /\ d[t].winner = FALSE
          /\ d[t].doing.hp = <<>>
          /\ d[t].alive = TRUE => c[t].alive = TRUE
          /\ d[t].alive = FALSE => d[t].next = d[t].team
          /\ \/ d[t].next = c[t].team
             \/ \E s \in DOMAIN c : c[s].alive = TRUE /\ d[t].next = c[s].team

\* SettlementAction_ and RolesOnRoundEnd_ together.
LEMMA RoundIsFair ==
  ASSUME NEW c, Settling(c), TableIsSet(c), NEW d, d = Buried(Settled(c))
  PROVE  RoundOf(c, d)
<1> DEFINE m == Settled(c)
<1>1. IsCast(c)
  BY DEF Settling
<1>2. Alike(c, m) /\ Settling(m)
  BY SettledIsSettling
<1>3. SameSeats(m, d)
  BY <1>2, BuriedInSeats DEF Settling
<1>4. IsCast(d) /\ DOMAIN d = DOMAIN c /\ DOMAIN m = DOMAIN c
  BY <1>2, <1>3, StillCast DEF Settling, SameSeats, Alike
<1>5. \A t \in DOMAIN m : /\ Outlives(m[t], d[t])
                          /\ d[t].next = m[t].next \/ \E s \in DOMAIN m : TakesAfter(m, d, t, s)
  BY <1>2, BuriedIs
<1> HIDE DEF m
<1>6. ASSUME NEW t \in DOMAIN c
      PROVE  /\ RoleIsFair(c, t) /\ TeamIsFair(c[t]) /\ c[t].next = c[t].team
             /\ c[t].winner = FALSE
             /\ LikeRole(c[t], m[t]) /\ Outlives(m[t], d[t]) /\ RoleIsFair(m, t)
             /\ d[t].next = m[t].next \/ \E s \in DOMAIN m : TakesAfter(m, d, t, s)
  BY <1>2, <1>4, <1>5 DEF TableIsSet, Alike, Settling
<1>7. ASSUME NEW t \in DOMAIN c
      PROVE  /\ d[t].kind = c[t].kind /\ d[t].team = c[t].team /\ d[t].winner = FALSE
             /\ d[t].hidden = c[t].hidden /\ d[t].hp = m[t].hp /\ d[t].curse = m[t].curse
             /\ d[t].alive \in BOOLEAN /\ d[t].doing.hp = <<>>
             /\ d[t].cures \in IF d[t].kind = "goddess" THEN {-1} ELSE 0 .. This.cures
  BY <1>6 DEF LikeRole, Outlives
<1>8. ASSUME NEW t \in DOMAIN c
      PROVE  /\ d[t].alive = TRUE => c[t].alive = TRUE /\ d[t].hp > 0
             /\ d[t].alive = FALSE => d[t].hp <= 0
             /\ c[t].alive \in BOOLEAN
  <2>1. /\ d[t].alive \in BOOLEAN /\ d[t].hp = m[t].hp
        /\ d[t].alive = TRUE => m[t].alive = TRUE /\ m[t].hp > 0
        /\ m[t].alive = TRUE /\ m[t].hp > 0 => d[t].alive = TRUE
    BY <1>6 DEF Outlives
  <2>2. /\ m[t].alive \in BOOLEAN /\ m[t].hp \in Int
        /\ m[t].alive = FALSE => m[t].hp <= 0
    BY <1>6 DEF RoleIsFair
  <2>3. c[t].alive \in BOOLEAN /\ m[t].alive = c[t].alive
    BY <1>6 DEF RoleIsFair, LikeRole
  <2> QED
    BY <2>1, <2>2, <2>3
<1>9. ASSUME NEW t \in DOMAIN c
      PROVE  RoleIsFair(d, t)
  <2>1. RoleIsFair(c, t) /\ RoleIsFair(m, t)
    BY <1>6
  <2> QED
    BY <1>4, <1>7, <1>8, <2>1 DEF RoleIsFair
<1>10. ASSUME NEW t \in DOMAIN c
       PROVE  AimIsFair(d, t)
  <2> DEFINE hp == d[t].doing.hp
  <2>1. hp = <<>>
    BY <1>7
  <2>2. hp \in Seq(Int) /\ DOMAIN hp = {}
    <3> HIDE DEF hp
    <3> QED
      BY <2>1
  <2> QED
    BY <2>1, <2>2 DEF AimIsFair
<1>11. ASSUME NEW t \in DOMAIN c
       PROVE  \/ d[t].next = c[t].team
              \/ \E s \in DOMAIN c : /\ c[s].alive = TRUE /\ d[t].next = c[s].team
                                     /\ c[s].kind \in Twins /\ c[t].kind \in Twins
                                     /\ d[t].alive = TRUE
  <2>1. CASE d[t].next = m[t].next
    <3>1. m[t].next = c[t].next /\ c[t].next = c[t].team
      BY <1>6 DEF LikeRole
    <3> QED
      BY <2>1, <3>1
  <2>2. CASE \E s \in DOMAIN m : TakesAfter(m, d, t, s)
    <3>1. PICK s \in DOMAIN m : TakesAfter(m, d, t, s)
      BY <2>2
    <3>2. s \in DOMAIN c /\ LikeRole(c[s], m[s]) /\ LikeRole(c[t], m[t])
      BY <1>4, <1>6
    <3>3. c[s].alive = TRUE /\ d[t].next = c[s].team /\ c[s].kind \in Twins /\ c[t].kind \in Twins
      BY <3>1, <3>2 DEF TakesAfter, LikeRole
    <3>4. m[t].hp > 0
      BY <3>1 DEF TakesAfter
    <3>5. m[t].alive = TRUE
      <4>1. /\ m[t].alive \in BOOLEAN /\ m[t].hp \in Int
            /\ m[t].alive = FALSE => m[t].hp <= 0
        BY <1>6 DEF RoleIsFair
      <4> QED
        BY <3>4, <4>1
    <3>6. d[t].alive = TRUE
      BY <1>6, <3>4, <3>5 DEF Outlives
    <3> QED
      BY <3>2, <3>3, <3>6
  <2> QED
    BY <1>6, <2>1, <2>2
<1>12. ASSUME NEW t \in DOMAIN c
       PROVE  TeamIsFair(d[t])
  <2>1. TeamIsFair(c[t]) /\ c[t].next = c[t].team /\ d[t].kind = c[t].kind /\ d[t].team = c[t].team
    BY <1>6, <1>7
  <2>2. CASE d[t].next = c[t].team
    BY <2>1, <2>2 DEF TeamIsFair
  <2>3. CASE d[t].next # c[t].team
    <3>1. PICK s \in DOMAIN c : /\ d[t].next = c[s].team
                                /\ c[s].kind \in Twins /\ c[t].kind \in Twins
      BY <1>11, <2>3
    <3>2. TeamIsFair(c[s])
      BY <1>6
    <3> QED
      BY <2>1, <3>1, <3>2 DEF TeamIsFair
  <2> QED
    BY <2>2, <2>3
<1>13. ASSUME NEW t \in DOMAIN c, d[t].alive = FALSE
       PROVE  d[t].next = d[t].team
  BY <1>7, <1>11, <1>13
<1> QED
  BY <1>4, <1>7, <1>8, <1>9, <1>10, <1>11, <1>12, <1>13 DEF RoundOf

-----------------------------------------------------------------------------
(* HpKiller: who has lost.                                                *)

\* Roles that CheckTeamsLost_ cannot tell apart.
AsJudged(c, e) ==
    /\ DOMAIN e = DOMAIN c
    /\ \A t \in DOMAIN c : /\ e[t].kind = c[t].kind /\ e[t].team = c[t].team
                           /\ e[t].next = c[t].next /\ e[t].act = c[t].act
                           /\ e[t].alive = c[t].alive

\* A cast is a sequence as long as the list of the roles.
LEMMA CastIsSeq ==
  ASSUME NEW c, IsCast(c), This.roles \in Seq(Occupations)
  PROVE  Len(c) \in Nat /\ Len(c) = Len(This.roles) /\ DOMAIN c = 1 .. Len(c)
<1> DEFINE R == {c[t] : t \in DOMAIN c}
           n == Len(This.roles)
<1>1. n \in Nat /\ DOMAIN c = 1 .. n
  BY DEF IsCast
<1>2. c \in [1 .. n -> R]
  BY <1>1 DEF IsCast
<1> HIDE DEF R, n
<1>3. c \in Seq(R)
  BY <1>1, <1>2
<1>4. Len(c) = n
  BY <1>1, <1>3
<1> QED
  BY <1>1, <1>4 DEF n

\* GetRole looks at occupations only.
LEMMA SameFirst ==
  ASSUME NEW c, NEW e, IsCast(c), IsCast(e), This.roles \in Seq(Occupations),
         \A t \in DOMAIN c : e[t].kind = c[t].kind, NEW kinds
  PROVE  First(e, kinds) = First(c, kinds)
<1> DEFINE n == Len(c)
           I == {i \in 1 .. n : c[i].kind \in kinds}
           J == {i \in 1 .. Len(e) : e[i].kind \in kinds}
<1>1. Len(e) = n /\ DOMAIN c = 1 .. n
  BY CastIsSeq
<1>2. I = J
  BY <1>1
<1>3. First(c, kinds) = IF I # {} THEN Min(I) ELSE 0
  BY DEF First, SelectInSeq
<1>4. First(e, kinds) = IF J # {} THEN Min(J) ELSE 0
  BY DEF First, SelectInSeq
<1> HIDE DEF I, J
<1> QED
  BY <1>2, <1>3, <1>4

\* CheckTeamsLost_ looks at nothing but what AsJudged names.
LEMMA SameVerdict ==
  ASSUME NEW c, NEW e, IsCast(c), IsCast(e), This.roles \in Seq(Occupations), AsJudged(c, e)
  PROVE  /\ Losers(e) = Losers(c)
         /\ AgentWins(e) <=> AgentWins(c)
<1>0. DOMAIN e = DOMAIN c
  BY DEF AsJudged
<1>1. CivilianLost(e) <=> CivilianLost(c)
  <2>1. {t \in DOMAIN e : ~e[t].alive /\ e[t].team = "civilian" /\ e[t].kind = "civilian"}
           = {t \in DOMAIN c : ~c[t].alive /\ c[t].team = "civilian" /\ c[t].kind = "civilian"}
    BY DEF AsJudged
  <2>2. {t \in DOMAIN e : ~e[t].alive /\ e[t].team = "civilian"}
           = {t \in DOMAIN c : ~c[t].alive /\ c[t].team = "civilian"}
    BY DEF AsJudged
  <2>3. {t \in DOMAIN e : e[t].alive /\ e[t].next = "civilian"}
           = {t \in DOMAIN c : c[t].alive /\ c[t].next = "civilian"}
    BY DEF AsJudged
  <2> QED
    BY <2>1, <2>2, <2>3 DEF CivilianLost, Among
<1>2. KillerLost(e) <=> KillerLost(c)
  <2>1. {t \in DOMAIN e : e[t].alive /\ e[t].next = "civilian" /\ ~e[t].act}
           = {t \in DOMAIN c : c[t].alive /\ c[t].next = "civilian" /\ ~c[t].act}
    BY DEF AsJudged
  <2>2. {t \in DOMAIN e : e[t].alive /\ e[t].next = "civilian"}
           = {t \in DOMAIN c : c[t].alive /\ c[t].next = "civilian"}
    BY DEF AsJudged
  <2>3. (\A t \in DOMAIN e : e[t].alive => e[t].kind # "killer")
           <=> (\A t \in DOMAIN c : c[t].alive => c[t].kind # "killer")
    BY DEF AsJudged
  <2> QED
    BY <2>1, <2>2, <2>3 DEF KillerLost, Among
<1>3. TraitorLost(e) <=> TraitorLost(c)
  BY DEF TraitorLost, AsJudged
<1>4. First(e, {"agent"}) = First(c, {"agent"})
  <2>1. \A t \in DOMAIN c : e[t].kind = c[t].kind
    BY DEF AsJudged
  <2> QED
    BY <2>1, SameFirst
<1> QED
  BY <1>1, <1>2, <1>3, <1>4 DEF Losers, AgentWins

\* Who was dead in c is dead in d, on the same side; who is alive of a side was so then.
Succeeds(c, d) ==
    /\ DOMAIN d = DOMAIN c
    /\ \A t \in DOMAIN c :
          /\ c[t].alive \in BOOLEAN /\ d[t].alive \in BOOLEAN
          /\ d[t].kind = c[t].kind
          /\ d[t].alive = TRUE => c[t].alive = TRUE
          /\ c[t].alive = FALSE => d[t].team = c[t].team
          /\ d[t].alive = TRUE => \E s \in DOMAIN c : c[s].alive = TRUE /\ d[t].next = c[s].next

\* A side that has lost stays lost, but for the killer's in a game with good nights.
LEMMA LostForGood ==
  ASSUME NEW c, NEW d, IsFiniteSet(DOMAIN c), Succeeds(c, d)
  PROVE  /\ CivilianLost(c) => CivilianLost(d)
         /\ KillerLost(c) /\ ~This.night => KillerLost(d)
<1>1. ASSUME CivilianLost(c)
      PROVE  CivilianLost(d)
  <2> DEFINE A(b) == {t \in DOMAIN b : ~b[t].alive /\ b[t].team = "civilian"
                                         /\ b[t].kind = "civilian"}
             B(b) == {t \in DOMAIN b : ~b[t].alive /\ b[t].team = "civilian"}
             C(b) == {t \in DOMAIN b : b[t].alive /\ b[t].next = "civilian"}
  <2>1. \A b : CivilianLost(b) <=> \/ Cardinality(A(b)) >= 2 \/ Cardinality(B(b)) >= 3
                                   \/ Cardinality(C(b)) = 0
    BY DEF CivilianLost, Among
  <2>2. A(c) \subseteq A(d) /\ B(c) \subseteq B(d)
    BY DEF Succeeds
  <2>3. /\ A(c) \subseteq DOMAIN c /\ B(c) \subseteq DOMAIN c /\ C(c) \subseteq DOMAIN c
        /\ A(d) \subseteq DOMAIN c /\ B(d) \subseteq DOMAIN c
    BY DEF Succeeds
  <2>4. C(c) = {} => C(d) = {}
    BY DEF Succeeds
  <2> HIDE DEF A, B, C
  <2>5. /\ IsFiniteSet(A(c)) /\ IsFiniteSet(B(c)) /\ IsFiniteSet(C(c))
        /\ IsFiniteSet(A(d)) /\ IsFiniteSet(B(d))
    BY <2>3, FS_Subset
  <2>6. /\ Cardinality(A(c)) <= Cardinality(A(d)) /\ Cardinality(B(c)) <= Cardinality(B(d))
    BY <2>2, <2>5, FS_Subset
  <2>7. /\ Cardinality(A(c)) \in Nat /\ Cardinality(A(d)) \in Nat
        /\ Cardinality(B(c)) \in Nat /\ Cardinality(B(d)) \in Nat
    BY <2>5, FS_CardinalityType
  <2>8. Cardinality(C(c)) = 0 => Cardinality(C(d)) = 0
    BY <2>4, <2>5, FS_EmptySet
  <2> QED
    BY <1>1, <2>1, <2>6, <2>7, <2>8
<1>2. ASSUME KillerLost(c), ~This.night
      PROVE  KillerLost(d)
  BY <1>2 DEF KillerLost, Succeeds
<1> QED
  BY <1>1, <1>2

-----------------------------------------------------------------------------
(* HpKiller: who wins.                                                    *)

\* The sides that can lose.
Teams == {"civilian", "killer", "traitor"}

\* How many of the three sides are in l.
LEMMA ThreeTeams ==
  ASSUME NEW l, l \subseteq Teams
  PROVE  /\ Cardinality(l) \in 0 .. 3
         /\ Cardinality(l) >= 2 <=> \E w \in Teams : Teams \ {w} \subseteq l
         /\ Cardinality(l) = 3 <=> l = Teams
<1>1. Cardinality({}) = 0 /\ IsFiniteSet({})
  BY FS_EmptySet
<1>2. \A a : IsFiniteSet({a}) /\ Cardinality({a}) = 1
  BY FS_Singleton
<1>3. ASSUME NEW a, NEW b, a # b
      PROVE  IsFiniteSet({a, b}) /\ Cardinality({a, b}) = 2
  <2>1. {a} \cup {b} = {a, b} /\ b \notin {a}
    BY <1>3
  <2> DEFINE A == {a}
  <2>2. IsFiniteSet(A) /\ Cardinality(A) = 1
    BY <1>2
  <2>3. A \cup {b} = {a, b} /\ b \notin A
    BY <2>1
  <2> HIDE DEF A
  <2>4. IsFiniteSet(A \cup {b}) /\ Cardinality(A \cup {b}) = Cardinality(A) + 1
    BY <2>2, <2>3, FS_AddElement
  <2>5. Cardinality(A \cup {b}) = 2
    BY <2>2, <2>4
  <2> QED
    BY <2>3, <2>4, <2>5
<1>4. Cardinality(Teams) = 3
  <2> DEFINE P == {"civilian", "killer"}
  <2>1. P \cup {"traitor"} = Teams /\ "traitor" \notin P
    BY DEF Teams
  <2>2. IsFiniteSet(P) /\ Cardinality(P) = 2
    BY <1>3
  <2> HIDE DEF P
  <2>3. Cardinality(P \cup {"traitor"}) = Cardinality(P) + 1
    BY <2>1, <2>2, FS_AddElement
  <2> QED
    BY <2>1, <2>2, <2>3
<1>5. \/ l = {} \/ l = {"civilian"} \/ l = {"killer"} \/ l = {"traitor"}
      \/ l = {"civilian", "killer"} \/ l = {"civilian", "traitor"} \/ l = {"killer", "traitor"}
      \/ l = Teams
  BY DEF Teams
<1>6. CASE l = {} \/ l = {"civilian"} \/ l = {"killer"} \/ l = {"traitor"}
  <2>1. Cardinality(l) \in 0 .. 1
    <3>1. /\ Cardinality({"civilian"}) = 1 /\ Cardinality({"killer"}) = 1
          /\ Cardinality({"traitor"}) = 1
      BY <1>2
    <3>2. Cardinality(l) = 0 \/ Cardinality(l) = 1
      BY <1>1, <1>6, <3>1
    <3> QED
      BY <3>2
  <2>2. ~(\E w \in Teams : Teams \ {w} \subseteq l) /\ l # Teams
    BY <1>6 DEF Teams
  <2> QED
    BY <2>1, <2>2
<1>7. CASE \/ l = {"civilian", "killer"} \/ l = {"civilian", "traitor"}
           \/ l = {"killer", "traitor"}
  <2>1. Cardinality(l) = 2
    <3>1. /\ Cardinality({"civilian", "killer"}) = 2 /\ Cardinality({"civilian", "traitor"}) = 2
          /\ Cardinality({"killer", "traitor"}) = 2
      BY <1>3
    <3> QED
      BY <1>7, <3>1
  <2>2. (\E w \in Teams : Teams \ {w} \subseteq l) /\ l # Teams
    BY <1>7 DEF Teams
  <2> QED
    BY <2>1, <2>2
<1>8. CASE l = Teams
  <2>1. \E w \in Teams : Teams \ {w} \subseteq l
    BY <1>8 DEF Teams
  <2> QED
    BY <1>4, <1>8, <2>1
<1> QED
  BY <1>5, <1>6, <1>7, <1>8

\* The verdict on e when the sides in f had lost before the last round.
Stands(e, f) ==
    LET lost == Losers(e)
        winners == {t \in DOMAIN e : e[t].winner}
    IN  /\ winners # {}
        /\ Cardinality(lost) = 3 /\ ~AgentWins(e) =>
               "killer" \notin f \/ ("traitor" \notin f /\ First(e, Traitors) > 0)
        /\ Cardinality(lost) >= 2 => Cardinality({SideOf(e[t]) : t \in winners}) = 1
        /\ ~This.night => \A t \in winners : e[t].team \notin f

\* A table at which the sides of f may have lost.
FallenAt(c, f) ==
    /\ f \subseteq Teams /\ Cardinality(f) <= 1
    /\ "killer" \in f => First(c, Traitors) > 0
    /\ "killer" \in f /\ ~This.night => KillerLost(c)
    /\ "civilian" \in f => CivilianLost(c)

\* Why the verdict stands: the roles are fair, and while the game goes on the sides that have
\* lost are those of whom the dead tell.
HuntFair ==
    /\ line \in Nat /\ hour \in {"wait", "over", "done"} /\ bout \in 1 .. This.rounds
    /\ HaveSides(This.roles) \/ (~Free /\ hour = "wait")
    /\ fallen \subseteq Teams /\ Cardinality(fallen) <= 1
    /\ \A t \in Tokens : RoleIsFair(cast, t) /\ cast[t].team \in {"civilian", "killer", "special"}
    /\ hour # "done" => TableIsSet(cast) /\ FallenAt(cast, fallen)
    /\ hour = "done" => Stands(cast, fallen)

\* The teams are disjoint: who is of the traitors or the agents is of no other.
LEMMA SideIsOne ==
  ASSUME NEW r, TeamIsFair(r)
  PROVE  /\ r.team \in {"civilian", "killer"} => SideOf(r) = r.team /\ r.kind \notin Traitors
         /\ r.kind \in Traitors => r.team = "special" /\ SideOf(r) = r.kind
         /\ r.kind = "killer" => r.team = "killer"
         /\ r.kind = "agent" => r.team = "special" /\ SideOf(r) = r.kind
<1>1. CASE r.kind \in Twins
  BY <1>1 DEF TeamIsFair, SideOf, Traitors, Twins
<1>2. CASE r.kind \in Traitors \cup {"agent"}
  BY <1>2 DEF TeamIsFair, SideOf, Traitors, Twins, TeamOf
<1>3. CASE r.kind \notin Twins \cup Traitors \cup {"agent"}
  <2>1. SideOf(r) = r.team /\ r.team = TeamOf(r.kind)
    BY <1>3 DEF TeamIsFair, SideOf
  <2>2. TeamOf("killer") = "killer"
    BY DEF TeamOf, Traitors
  <2> QED
    BY <1>3, <2>1, <2>2
<1> QED
  BY <1>1, <1>2, <1>3

\* A round that has just been settled: d is what became of c.
RoundDone(c, d, f) ==
    /\ HaveSides(This.roles) /\ Settling(c) /\ TableIsSet(c) /\ FallenAt(c, f)
    /\ RoundOf(c, d)

\* Nobody comes back to life, and no side gains members but from one that had any.
LEMMA RoundSucceeds ==
  ASSUME NEW c, NEW d, NEW f, RoundDone(c, d, f)
  PROVE  Succeeds(c, d)
<1> SUFFICES ASSUME NEW t \in DOMAIN c
             PROVE  /\ c[t].alive \in BOOLEAN /\ d[t].alive \in BOOLEAN
                    /\ d[t].kind = c[t].kind /\ d[t].team = c[t].team
                    /\ d[t].alive = TRUE => c[t].alive = TRUE
                    /\ d[t].alive = TRUE =>
                          \E s \in DOMAIN c : c[s].alive = TRUE /\ d[t].next = c[s].next
  BY DEF Succeeds, RoundDone, RoundOf
<1>1. RoleIsFair(c, t) /\ RoleIsFair(d, t)
  BY DEF RoundDone, RoundOf, TableIsSet
<1>2. \A s \in DOMAIN c : c[s].team = c[s].next
  BY DEF RoundDone, TableIsSet
<1>3. /\ d[t].kind = c[t].kind /\ d[t].team = c[t].team
      /\ d[t].alive = TRUE => c[t].alive = TRUE
      /\ \/ d[t].next = c[t].team
         \/ \E s \in DOMAIN c : c[s].alive = TRUE /\ d[t].next = c[s].team
  BY DEF RoundDone, RoundOf
<1> QED
  BY <1>1, <1>2, <1>3 DEF RoleIsFair

\* What had lost has lost.
LEMMA FallenAreLosers ==
  ASSUME NEW c, NEW d, NEW f, RoundDone(c, d, f)
  PROVE  /\ "civilian" \in f => "civilian" \in Losers(d)
         /\ "killer" \in f /\ ~This.night => "killer" \in Losers(d)
         /\ "killer" \in f => First(d, Traitors) > 0 /\ f = {"killer"}
         /\ Losers(d) \subseteq Teams
<1>1. Succeeds(c, d) /\ IsFiniteSet(DOMAIN c) /\ FallenAt(c, f)
  BY RoundSucceeds DEF RoundDone, Settling
<1>2. /\ "civilian" \in f => CivilianLost(d)
      /\ "killer" \in f /\ ~This.night => KillerLost(d)
  BY <1>1, LostForGood DEF FallenAt
<1>3. First(d, Traitors) = First(c, Traitors)
  <2>1. IsCast(c) /\ IsCast(d) /\ This.roles \in Seq(Occupations)
        /\ \A t \in DOMAIN c : d[t].kind = c[t].kind
    BY DEF RoundDone, RoundOf, Settling
  <2> QED
    BY <2>1, SameFirst
<1>4. "killer" \in f => f = {"killer"}
  <2> SUFFICES ASSUME "killer" \in f, NEW x \in f, x # "killer" PROVE FALSE
    OBVIOUS
  <2>1. f \subseteq Teams /\ Cardinality(f) <= 1
    BY <1>1 DEF FallenAt
  <2>2. \E w \in Teams : Teams \ {w} \subseteq f
    <3>1. x \in {"civilian", "traitor"}
      BY <2>1 DEF Teams
    <3>2. CASE x = "civilian"
      BY <3>2 DEF Teams
    <3>3. CASE x = "traitor"
      BY <3>3 DEF Teams
    <3> QED
      BY <3>1, <3>2, <3>3
  <2>3. Cardinality(f) >= 2 /\ Cardinality(f) \in 0 .. 3
    BY <2>1, <2>2, ThreeTeams
  <2> QED
    BY <2>1, <2>3
<1>5. Losers(d) \subseteq Teams
  BY DEF Losers, Teams
<1> QED
  BY <1>1, <1>2, <1>3, <1>4, <1>5 DEF Losers, FallenAt

\* Who wins when all of l are told that they have lost, and who is let off.
LEMMA CrownedIs ==
  ASSUME NEW d, IsCast(d), NEW l
  PROVE  /\ DOMAIN Crowned(d, l) = DOMAIN d /\ AsJudged(d, Crowned(d, l))
         /\ IsCast(Crowned(d, l))
         /\ \A t \in DOMAIN d :
               /\ d[t].team \in {"civilian", "killer"} /\ d[t].kind \notin Traitors =>
                     (Crowned(d, l)[t].winner <=> d[t].team \notin l)
               /\ d[t].team \notin {"civilian", "killer"} /\ d[t].kind \in Traitors =>
                     (Crowned(d, l)[t].winner <=> "traitor" \notin l)
               /\ d[t].team \notin {"civilian", "killer"} /\ d[t].kind \notin Traitors =>
                     Crowned(d, l)[t].winner = d[t].winner
               /\ Crowned(d, l)[t].hp = d[t].hp /\ Crowned(d, l)[t].curse = d[t].curse
               /\ Crowned(d, l)[t].hidden = d[t].hidden /\ Crowned(d, l)[t].cures = d[t].cures
<1> DEFINE winner(t) == CASE d[t].team \in {"civilian", "killer"} -> d[t].team \notin l
                          [] d[t].kind \in Traitors -> "traitor" \notin l
                          [] OTHER -> d[t].winner
           r(t) == [d[t] EXCEPT !.winner = winner(t)]
           e == Crowned(d, l)
<1>1. e = [t \in DOMAIN d |-> r(t)]
  BY DEF Crowned
<1>2. ASSUME NEW t \in DOMAIN d
      PROVE  /\ r(t).winner = winner(t) /\ r(t).kind = d[t].kind /\ r(t).team = d[t].team
             /\ r(t).next = d[t].next /\ r(t).act = d[t].act /\ r(t).alive = d[t].alive
             /\ r(t).hp = d[t].hp /\ r(t).curse = d[t].curse
             /\ r(t).hidden = d[t].hidden /\ r(t).cures = d[t].cures
  <2>1. IsRole(d[t])
    BY DEF IsCast
  <2> HIDE DEF winner
  <2> QED
    BY <2>1 DEF IsRole, RoleFields
<1> HIDE DEF r, e
<1>3. IsCast(e)
  BY CrownedInSeats, StillCast DEF e
<1>4. DOMAIN e = DOMAIN d /\ AsJudged(d, e)
  BY <1>1, <1>2 DEF AsJudged
<1>6. ASSUME NEW t \in DOMAIN d
      PROVE  /\ d[t].team \in {"civilian", "killer"} /\ d[t].kind \notin Traitors =>
                   (winner(t) <=> d[t].team \notin l)
             /\ d[t].team \notin {"civilian", "killer"} /\ d[t].kind \in Traitors =>
                   (winner(t) <=> "traitor" \notin l)
             /\ d[t].team \notin {"civilian", "killer"} /\ d[t].kind \notin Traitors =>
                   winner(t) = d[t].winner
  <2>1. CASE d[t].team \in {"civilian", "killer"} /\ d[t].kind \notin Traitors
    <3>1. winner(t) = (d[t].team \notin l)
      BY <2>1
    <3> QED
      BY <2>1, <3>1
  <2>2. CASE d[t].team \notin {"civilian", "killer"} /\ d[t].kind \in Traitors
    <3>1. winner(t) = ("traitor" \notin l)
      BY <2>2
    <3> QED
      BY <2>2, <3>1
  <2>3. CASE d[t].team \notin {"civilian", "killer"} /\ d[t].kind \notin Traitors
    <3>1. winner(t) = d[t].winner
      BY <2>3
    <3> QED
      BY <2>3, <3>1
  <2> QED
    BY <2>1, <2>2, <2>3
<1> HIDE DEF winner
<1>5. \A t \in DOMAIN d : e[t].winner = winner(t) /\ e[t].hp = d[t].hp /\ e[t].curse = d[t].curse
                          /\ e[t].hidden = d[t].hidden /\ e[t].cures = d[t].cures
  BY <1>1, <1>2
<1> QED
  BY <1>3, <1>4, <1>5, <1>6 DEF e

\* The side w of somebody of d: a team, or the traitors.
OfSide(r, w) == IF w = "traitor" THEN r.kind \in Traitors ELSE r.team = w

\* Somebody is on a side that has not lost.
LEMMA SomebodyIsLeft ==
  ASSUME NEW c, NEW d, NEW f, RoundDone(c, d, f), NEW w \in Teams,
         w \in {"civilian", "traitor"} =>
            w \notin Losers(d) \/ (w = "traitor" /\ First(d, Traitors) > 0)
  PROVE  \E t \in DOMAIN d : OfSide(d[t], w)
<1>0. DOMAIN d = DOMAIN c /\ IsCast(d) /\ This.roles \in Seq(Occupations)
  BY DEF RoundDone, RoundOf, Settling
<1>1. CASE w = "killer"
  <2>1. PICK t \in DOMAIN This.roles : This.roles[t] = "killer"
    BY DEF RoundDone, HaveSides
  <2>2. t \in DOMAIN c /\ TeamIsFair(d[t]) /\ RoleIsFair(d, t)
    BY <1>0, <2>1 DEF RoundDone, RoundOf, IsCast
  <2>3. d[t].team = "killer"
    BY <2>1, <2>2, SideIsOne DEF RoleIsFair
  <2> QED
    BY <1>0, <1>1, <2>2, <2>3 DEF OfSide
<1>2. CASE w = "traitor"
  <2>1. CASE ~TraitorLost(d)
    BY <1>2, <2>1 DEF TraitorLost, OfSide
  <2>2. CASE First(d, Traitors) > 0
    <3>1. First(d, Traitors) # 0
      BY <2>2
    <3>2. First(d, Traitors) \in DOMAIN d /\ d[First(d, Traitors)].kind \in Traitors
      BY <1>0, <3>1, FirstIsOne
    <3> QED
      BY <1>2, <3>2 DEF OfSide
  <2> QED
    BY <1>2, <2>1, <2>2 DEF Losers
<1>3. CASE w = "civilian"
  <2> DEFINE C == {t \in DOMAIN d : d[t].alive /\ d[t].next = "civilian"}
  <2>1. ~CivilianLost(d)
    BY <1>3 DEF Losers
  <2>2. Cardinality(C) # 0
    BY <2>1 DEF CivilianLost, Among
  <2>3. C # {}
    BY <2>2, FS_EmptySet
  <2>4. PICK t \in DOMAIN d : d[t].next = "civilian"
    BY <2>3
  <2>5. \E s \in DOMAIN c : c[s].team = "civilian"
    BY <1>0, <2>4 DEF RoundDone, RoundOf
  <2>6. \E s \in DOMAIN c : d[s].team = "civilian"
    BY <2>5 DEF RoundDone, RoundOf
  <2> QED
    BY <1>0, <1>3, <2>6 DEF OfSide
<1> QED
  BY <1>1, <1>2, <1>3 DEF Teams

\* A winner is of a side that is not among those told that they have lost.
LEMMA WinnersOfASide ==
  ASSUME NEW c, NEW d, NEW f, RoundDone(c, d, f), NEW l
  PROVE  \A t \in DOMAIN d :
            /\ Crowned(d, l)[t].winner <=> \E w \in Teams : OfSide(d[t], w) /\ w \notin l
            /\ d[t].team # "traitor"
            /\ \A w \in Teams : OfSide(d[t], w) =>
                  SideOf(d[t]) = IF w = "traitor" THEN d[t].kind ELSE w
<1> SUFFICES ASSUME NEW t \in DOMAIN d
             PROVE  /\ Crowned(d, l)[t].winner <=> \E w \in Teams : OfSide(d[t], w) /\ w \notin l
                    /\ d[t].team # "traitor"
                    /\ \A w \in Teams : OfSide(d[t], w) =>
                          SideOf(d[t]) = IF w = "traitor" THEN d[t].kind ELSE w
  OBVIOUS
<1>1. IsCast(d) /\ TeamIsFair(d[t]) /\ d[t].winner = FALSE
  BY DEF RoundDone, RoundOf
<1>2. /\ d[t].team \in {"civilian", "killer"} /\ d[t].kind \notin Traitors =>
            (Crowned(d, l)[t].winner <=> d[t].team \notin l)
      /\ d[t].team \notin {"civilian", "killer"} /\ d[t].kind \in Traitors =>
            (Crowned(d, l)[t].winner <=> "traitor" \notin l)
      /\ d[t].team \notin {"civilian", "killer"} /\ d[t].kind \notin Traitors =>
            Crowned(d, l)[t].winner = d[t].winner
  BY <1>1, CrownedIs
<1>3. /\ d[t].team \in {"civilian", "killer"} =>
            SideOf(d[t]) = d[t].team /\ d[t].kind \notin Traitors
      /\ d[t].kind \in Traitors => d[t].team = "special" /\ SideOf(d[t]) = d[t].kind
      /\ d[t].team \in {"civilian", "killer", "special"}
  BY <1>1, SideIsOne DEF TeamIsFair
<1>4. /\ OfSide(d[t], "civilian") <=> d[t].team = "civilian"
      /\ OfSide(d[t], "killer") <=> d[t].team = "killer"
      /\ OfSide(d[t], "traitor") <=> d[t].kind \in Traitors
  BY DEF OfSide
<1>5. CASE d[t].team \in {"civilian", "killer"}
  BY <1>2, <1>3, <1>4, <1>5 DEF Teams
<1>6. CASE d[t].kind \in Traitors
  BY <1>2, <1>3, <1>4, <1>6 DEF Teams
<1>7. CASE d[t].team \notin {"civilian", "killer"} /\ d[t].kind \notin Traitors
  BY <1>1, <1>2, <1>3, <1>4, <1>7 DEF Teams
<1> QED
  BY <1>5, <1>6, <1>7

\* CheckTeamsLost_ when the game ends, for a team or for the traitor.
LEMMA CrownedStands ==
  ASSUME NEW c, NEW d, RoundDone(c, d, fallen), NEW l,
         \/ /\ Cardinality(Losers(d)) >= 2 /\ ~AgentWins(d) /\ l = LetOff(d, Losers(d))
         \/ Cardinality(Losers(d)) < 2 /\ l = Losers(d)
  PROVE  Stands(Crowned(d, l), fallen)
<1> DEFINE e == Crowned(d, l)
           L == Losers(d)
           W == {t \in DOMAIN e : e[t].winner}
           several == Cardinality(L) >= 2
<1>1. IsCast(c) /\ IsCast(d) /\ This.roles \in Seq(Occupations) /\ DOMAIN d = DOMAIN c
  BY DEF RoundDone, RoundOf, Settling
<1>2. /\ DOMAIN e = DOMAIN d /\ AsJudged(d, e) /\ IsCast(e)
  BY <1>1, CrownedIs
<1> HIDE DEF e
<1>3. Losers(e) = L /\ (AgentWins(e) <=> AgentWins(d))
  BY <1>1, <1>2, SameVerdict
<1>4. First(e, Traitors) = First(d, Traitors)
  BY <1>1, <1>2, SameFirst DEF AsJudged
<1>5. /\ "civilian" \in fallen => "civilian" \in L
      /\ "killer" \in fallen /\ ~This.night => "killer" \in L
      /\ "killer" \in fallen => First(d, Traitors) > 0 /\ fallen = {"killer"}
      /\ L \subseteq Teams
  BY FallenAreLosers
<1> HIDE DEF L
<1>6. /\ Cardinality(L) \in 0 .. 3
      /\ several <=> \E w \in Teams : Teams \ {w} \subseteq L
      /\ Cardinality(L) = 3 <=> L = Teams
  BY <1>5, ThreeTeams
<1>7. \/ several /\ l = LetOff(d, L)
      \/ ~several /\ l = L
  BY <1>6 DEF L
<1> HIDE DEF several
<1>8. /\ l \subseteq L
      /\ "civilian" \in L => "civilian" \in l
      /\ "killer" \in fallen /\ "killer" \in L => "killer" \in l
      /\ \E w \in Teams : /\ w \notin l
                          /\ w \in {"civilian", "traitor"} =>
                                w \notin L \/ (w = "traitor" /\ First(d, Traitors) > 0)
                          /\ several => l = Teams \ {w}
  <2>1. CASE L = Teams
    <3>0. Cardinality(L) = 3
      BY <1>6, <2>1
    <3>1. several /\ ~(Cardinality(L) < 3)
      BY <3>0 DEF several
    <3>2. CASE "traitor" \notin fallen /\ First(d, Traitors) > 0
      <4>1. l = Teams \ {"traitor"}
        BY <1>7, <2>1, <3>1, <3>2 DEF LetOff
      <4> QED
        BY <2>1, <3>2, <4>1 DEF Teams
    <3>3. CASE ~("traitor" \notin fallen /\ First(d, Traitors) > 0)
      <4>1. l = Teams \ {"killer"}
        BY <1>7, <2>1, <3>1, <3>3 DEF LetOff
      <4>2. "killer" \notin fallen
        BY <1>5, <3>3
      <4> QED
        BY <2>1, <4>1, <4>2 DEF Teams
    <3> QED
      BY <3>2, <3>3
  <2>2. CASE L # Teams /\ several
    <3>1. Cardinality(L) < 3
      BY <1>6, <2>2
    <3>2. l = L
      BY <1>7, <2>2, <3>1 DEF LetOff
    <3>3. PICK w \in Teams : Teams \ {w} \subseteq L
      BY <1>6, <2>2
    <3>4. w \notin L /\ L = Teams \ {w}
      BY <1>5, <2>2, <3>3
    <3> QED
      BY <3>2, <3>4
  <2>3. CASE ~several
    <3>1. l = L
      BY <1>7, <2>3
    <3>2. "killer" \notin L \/ "civilian" \notin L
      BY <1>6, <2>3 DEF Teams
    <3> QED
      BY <2>3, <3>1, <3>2 DEF Teams
  <2> QED
    BY <2>1, <2>2, <2>3
<1>9. PICK w \in Teams : /\ w \notin l
                         /\ w \in {"civilian", "traitor"} =>
                               w \notin L \/ (w = "traitor" /\ First(d, Traitors) > 0)
                         /\ several => l = Teams \ {w}
  BY <1>8
<1>10. \A t \in DOMAIN d :
          /\ e[t].winner <=> \E u \in Teams : OfSide(d[t], u) /\ u \notin l
          /\ d[t].team # "traitor"
          /\ \A u \in Teams : OfSide(d[t], u) =>
                SideOf(d[t]) = IF u = "traitor" THEN d[t].kind ELSE u
  BY WinnersOfASide DEF e
<1>11. W # {}
  <2>1. \E t \in DOMAIN d : OfSide(d[t], w)
    BY <1>9, SomebodyIsLeft DEF L
  <2> QED
    BY <1>2, <1>9, <1>10, <2>1
<1>12. Cardinality(Losers(e)) = 3 /\ ~AgentWins(e) =>
          "killer" \notin fallen \/ ("traitor" \notin fallen /\ First(e, Traitors) > 0)
  BY <1>4, <1>5
<1>13. ASSUME several
       PROVE  Cardinality({SideOf(e[t]) : t \in W}) = 1
  <2>1. \A t \in W : t \in DOMAIN d /\ OfSide(d[t], w)
    BY <1>2, <1>9, <1>10, <1>13
  <2>2. \A t \in W : SideOf(e[t]) = SideOf(d[t])
    BY <1>2, <2>1 DEF AsJudged, SideOf
  <2>3. \E side : \A t \in W : SideOf(d[t]) = side
    <3>1. CASE w # "traitor"
      BY <1>10, <2>1, <3>1
    <3>2. CASE w = "traitor"
      <4>1. PICK u \in W : TRUE
        BY <1>11
      <4>2. ASSUME NEW t \in W
            PROVE  d[t].kind = d[u].kind
        <5>1. d[t].kind \in Traitors /\ d[u].kind \in Traitors
          BY <2>1, <3>2, <4>1 DEF OfSide
        <5>2. t \in DOMAIN This.roles /\ u \in DOMAIN This.roles
              /\ d[t].kind = This.roles[t] /\ d[u].kind = This.roles[u]
          <6>1. t \in DOMAIN c /\ u \in DOMAIN c
            BY <1>1, <2>1
          <6> QED
            BY <1>1, <6>1 DEF RoundDone, RoundOf, RoleIsFair, IsCast
        <5>3. HaveSides(This.roles)
          BY DEF RoundDone
        <5> QED
          BY <5>1, <5>2, <5>3 DEF HaveSides
      <4>3. \A t \in W : SideOf(d[t]) = d[t].kind
        BY <1>10, <2>1, <3>2
      <4> QED
        BY <4>2, <4>3
    <3> QED
      BY <3>1, <3>2
  <2>4. PICK side : \A t \in W : SideOf(e[t]) = side
    BY <2>2, <2>3
  <2> HIDE DEF W
  <2>5. {SideOf(e[t]) : t \in W} = {side}
    BY <1>11, <2>4
  <2> QED
    BY <2>5, FS_Singleton
<1>14. ASSUME ~This.night, NEW t \in W
       PROVE  e[t].team \notin fallen
  <2>1. t \in DOMAIN d /\ e[t].team = d[t].team
    BY <1>2 DEF AsJudged
  <2>2. PICK u \in Teams : OfSide(d[t], u) /\ u \notin l
    BY <1>10, <2>1
  <2>3. TeamIsFair(d[t])
    BY <1>1, <2>1 DEF RoundDone, RoundOf
  <2>4. d[t].team \in fallen => u = d[t].team /\ u \in {"civilian", "killer"}
    <3>1. fallen \subseteq Teams
      BY DEF RoundDone, FallenAt
    <3> QED
      BY <1>10, <2>1, <2>2, <2>3, <3>1, SideIsOne DEF OfSide, Teams
  <2> QED
    BY <1>5, <1>8, <1>14, <2>1, <2>2, <2>4
<1>15. Cardinality(Losers(e)) >= 2 => Cardinality({SideOf(e[t]) : t \in W}) = 1
  <2> HIDE DEF W
  <2> QED
    BY <1>3, <1>13 DEF several
<1>16. ~This.night => \A t \in W : e[t].team \notin fallen
  BY <1>14
<1>17. Stands(e, fallen)
  BY <1>11, <1>12, <1>15, <1>16 DEF Stands
<1> QED
  BY <1>17 DEF e

\* CheckTeamsLost_ when the agent wins.
LEMMA AgentStands ==
  ASSUME NEW c, NEW d, RoundDone(c, d, fallen), AgentWins(d),
         NEW e, e = [t \in DOMAIN d |-> [d[t] EXCEPT !.winner = d[t].kind = "agent"]]
  PROVE  /\ Stands(e, fallen) /\ DOMAIN e = DOMAIN d
         /\ \A t \in DOMAIN d : /\ e[t].hp = d[t].hp /\ e[t].curse = d[t].curse
                                /\ e[t].hidden = d[t].hidden /\ e[t].cures = d[t].cures
                                /\ e[t].alive = d[t].alive
                                /\ e[t].kind = d[t].kind /\ e[t].team = d[t].team
<1> DEFINE wins(t) == d[t].kind = "agent"
           r(t) == [d[t] EXCEPT !.winner = wins(t)]
           W == {t \in DOMAIN e : e[t].winner}
<1>1. IsCast(d) /\ This.roles \in Seq(Occupations) /\ DOMAIN d = DOMAIN c
  BY DEF RoundDone, RoundOf, Settling
<1>2. e = [t \in DOMAIN d |-> r(t)]
  OBVIOUS
<1>3. ASSUME NEW t \in DOMAIN d
      PROVE  /\ IsRole(r(t)) /\ r(t).pid = d[t].pid
             /\ r(t).winner = wins(t) /\ r(t).kind = d[t].kind /\ r(t).team = d[t].team
             /\ r(t).next = d[t].next /\ r(t).act = d[t].act /\ r(t).alive = d[t].alive
             /\ r(t).hp = d[t].hp /\ r(t).curse = d[t].curse
             /\ r(t).hidden = d[t].hidden /\ r(t).cures = d[t].cures
  <2>1. IsRole(d[t])
    BY <1>1 DEF IsCast
  <2> HIDE DEF wins
  <2> QED
    BY <2>1 DEF IsRole, RoleFields
<1> HIDE DEF r
<1>4. DOMAIN e = DOMAIN d /\ AsJudged(d, e)
  BY <1>2, <1>3 DEF AsJudged
<1>5. IsCast(e)
  <2>1. SameSeats(d, e)
    BY <1>2, <1>3 DEF SameSeats
  <2> QED
    BY <1>1, <2>1, StillCast
<1>6. AgentWins(e)
  BY <1>1, <1>4, <1>5, SameVerdict
<1>7. \A t \in DOMAIN d : e[t].winner <=> d[t].kind = "agent"
  BY <1>2, <1>3
<1>8. W = {t \in DOMAIN d : d[t].kind = "agent"}
  BY <1>4, <1>7
<1>9. W # {}
  <2> DEFINE a == First(d, {"agent"})
  <2>1. a > 0 /\ a # 0
    BY DEF AgentWins
  <2>2. a \in DOMAIN d /\ d[a].kind \in {"agent"}
    BY <1>1, <2>1, FirstIsOne
  <2> HIDE DEF a, W
  <2> QED
    BY <1>8, <2>2
<1>10. \A t \in W : SideOf(e[t]) = "agent" /\ e[t].team = "special"
  <2> SUFFICES ASSUME NEW t \in W PROVE SideOf(e[t]) = "agent" /\ e[t].team = "special"
    OBVIOUS
  <2>1. t \in DOMAIN d /\ d[t].kind = "agent"
    BY <1>8
  <2>2. TeamIsFair(d[t])
    BY <1>1, <2>1 DEF RoundDone, RoundOf
  <2>3. d[t].team = "special" /\ SideOf(d[t]) = "agent"
    BY <2>1, <2>2, SideIsOne
  <2>4. e[t].kind = d[t].kind /\ e[t].team = d[t].team
    BY <1>4, <2>1 DEF AsJudged
  <2> QED
    BY <2>1, <2>3, <2>4 DEF SideOf
<1> HIDE DEF W
<1>11. {SideOf(e[t]) : t \in W} = {"agent"}
  BY <1>9, <1>10
<1>12. Cardinality({SideOf(e[t]) : t \in W}) = 1
  BY <1>11, FS_Singleton
<1>13. "special" \notin fallen
  BY DEF RoundDone, FallenAt, Teams
<1>14. Stands(e, fallen)
  BY <1>6, <1>9, <1>10, <1>12, <1>13 DEF Stands, W
<1>15. \A t \in DOMAIN d : e[t] = r(t)
  BY <1>2
<1> QED
  BY <1>3, <1>4, <1>14, <1>15

\* The roles of a new round, in which those of S cannot act any more.
GoneOn(d, S) ==
    [t \in DOMAIN d |-> [d[t] EXCEPT !.act = d[t].act /\ t \notin S, !.team = d[t].next]]

\* CheckTeamsLost_ when the game goes on.
LEMMA TableIsSetAgain ==
  ASSUME NEW c, NEW d, RoundDone(c, d, fallen), Cardinality(Losers(d)) < 2,
         NEW S, NEW e, e = GoneOn(d, S)
  PROVE  TableIsSet(e) /\ FallenAt(e, Losers(d)) /\ DOMAIN e = DOMAIN d
<1> DEFINE act(t) == d[t].act /\ t \notin S
           r(t) == [d[t] EXCEPT !.act = act(t), !.team = d[t].next]
           L == Losers(d)
<1>1. IsCast(d) /\ This.roles \in Seq(Occupations) /\ DOMAIN d = DOMAIN c /\ IsFiniteSet(DOMAIN d)
  BY DEF RoundDone, RoundOf, Settling
<1>2. e = [t \in DOMAIN d |-> r(t)]
  BY DEF GoneOn
<1>3. ASSUME NEW t \in DOMAIN d
      PROVE  /\ IsRole(r(t)) /\ r(t).pid = d[t].pid /\ r(t).doing = d[t].doing
             /\ r(t).winner = d[t].winner /\ r(t).kind = d[t].kind /\ r(t).team = d[t].next
             /\ r(t).next = d[t].next /\ r(t).alive = d[t].alive
             /\ r(t).hp = d[t].hp /\ r(t).curse = d[t].curse
             /\ r(t).hidden = d[t].hidden /\ r(t).cures = d[t].cures
  <2>1. IsRole(d[t])
    BY <1>1 DEF IsCast
  <2> HIDE DEF act
  <2> QED
    BY <2>1 DEF IsRole, RoleFields
<1> HIDE DEF r
<1>4. DOMAIN e = DOMAIN d /\ \A t \in DOMAIN d : e[t] = r(t)
  BY <1>2
<1>5. IsCast(e)
  <2>1. SameSeats(d, e)
    BY <1>2, <1>3 DEF SameSeats
  <2> QED
    BY <1>1, <2>1, StillCast
<1>6. ASSUME NEW t \in DOMAIN d
      PROVE  /\ RoleIsFair(d, t) /\ TeamIsFair(d[t]) /\ d[t].winner = FALSE
             /\ d[t].doing.hp = <<>>
             /\ d[t].alive = FALSE => d[t].next = d[t].team
  BY <1>1 DEF RoundDone, RoundOf
<1>16. \A t \in DOMAIN d :
          /\ e[t].doing = d[t].doing /\ e[t].winner = d[t].winner /\ e[t].kind = d[t].kind
          /\ e[t].team = d[t].next /\ e[t].next = d[t].next /\ e[t].alive = d[t].alive
          /\ e[t].hp = d[t].hp /\ e[t].curse = d[t].curse
          /\ e[t].hidden = d[t].hidden /\ e[t].cures = d[t].cures
  BY <1>3, <1>4
<1>7. TableIsSet(e)
  <2> SUFFICES ASSUME NEW t \in DOMAIN d
               PROVE  /\ RoleIsFair(e, t) /\ AimIsFair(e, t) /\ TeamIsFair(e[t])
                      /\ e[t].team = e[t].next /\ e[t].winner = FALSE
    BY <1>4 DEF TableIsSet
  <2>1. RoleIsFair(e, t)
    <3>1. RoleIsFair(d, t) /\ DOMAIN e = DOMAIN d
      BY <1>4, <1>6
    <3> QED
      BY <1>16, <3>1 DEF RoleIsFair
  <2>2. AimIsFair(e, t)
    <3> DEFINE hp == e[t].doing.hp
    <3>1. hp = <<>>
      BY <1>3, <1>4, <1>6
    <3>2. hp \in Seq(Int) /\ DOMAIN hp = {}
      <4> HIDE DEF hp
      <4> QED
        BY <3>1
    <3> QED
      BY <3>1, <3>2 DEF AimIsFair
  <2>3. TeamIsFair(e[t])
    <3>1. TeamIsFair(d[t]) /\ e[t].kind = d[t].kind /\ e[t].team = d[t].next
          /\ e[t].next = d[t].next
      BY <1>6, <1>16
    <3>2. TeamOf(d[t].kind) \in {"civilian", "killer", "special"}
      BY DEF TeamOf
    <3>3. CASE d[t].kind \in Twins
      BY <3>1, <3>3 DEF TeamIsFair
    <3>4. CASE d[t].kind \notin Twins
      BY <3>1, <3>2, <3>4 DEF TeamIsFair
    <3> QED
      BY <3>3, <3>4
  <2>4. e[t].team = e[t].next /\ e[t].winner = FALSE
    BY <1>6, <1>16
  <2> QED
    BY <2>1, <2>2, <2>3, <2>4
<1>8. Succeeds(d, e)
  <2>1. \A t \in DOMAIN d : d[t].alive \in BOOLEAN
    BY <1>6 DEF RoleIsFair
  <2> QED
    BY <1>4, <1>6, <1>16, <2>1 DEF Succeeds
<1>9. /\ CivilianLost(d) => CivilianLost(e)
      /\ KillerLost(d) /\ ~This.night => KillerLost(e)
  BY <1>1, <1>8, LostForGood
<1>10. L \subseteq Teams
  BY DEF Losers, Teams
<1>11. /\ Cardinality(L) \in 0 .. 3
       /\ Cardinality(L) >= 2 <=> \E w \in Teams : Teams \ {w} \subseteq L
  <2> HIDE DEF L
  <2> QED
    BY <1>10, ThreeTeams
<1>12. "killer" \in L => "traitor" \notin L
  <2>1. Teams \ {"civilian"} = {"killer", "traitor"} /\ "civilian" \in Teams
    BY DEF Teams
  <2> HIDE DEF L
  <2>2. ~(Cardinality(L) >= 2)
    BY <1>11 DEF L
  <2> QED
    BY <1>11, <2>1, <2>2
<1>13. "killer" \in L => First(e, Traitors) > 0
  <2> SUFFICES ASSUME "killer" \in L PROVE First(e, Traitors) > 0
    OBVIOUS
  <2>1. ~TraitorLost(d)
    BY <1>12 DEF Losers
  <2>2. PICK t \in DOMAIN d : d[t].kind \in Traitors
    BY <2>1 DEF TraitorLost
  <2>3. t \in DOMAIN e /\ e[t].kind \in Traitors
    BY <1>3, <1>4, <2>2
  <2> QED
    BY <1>1, <1>5, <2>3, FirstIsOne
<1>14. Cardinality(L) <= 1
  <2> HIDE DEF L
  <2>1. Cardinality(L) < 2
    BY DEF L
  <2> QED
    BY <1>11, <2>1
<1>15. /\ "civilian" \in L => CivilianLost(d)
       /\ "killer" \in L => KillerLost(d)
  BY DEF Losers
<1> QED
  BY <1>4, <1>7, <1>9, <1>10, <1>13, <1>14, <1>15 DEF FallenAt

\* HuntFair of what a step leaves behind.
FairAt(c, f, h, b) ==
    /\ h \in {"wait", "over", "done"} /\ b \in 1 .. This.rounds
    /\ HaveSides(This.roles) \/ (~Free /\ h = "wait")
    /\ f \subseteq Teams /\ Cardinality(f) <= 1
    /\ \A t \in DOMAIN c : RoleIsFair(c, t) /\ c[t].team \in {"civilian", "killer", "special"}
    /\ h # "done" => TableIsSet(c) /\ FallenAt(c, f)
    /\ h = "done" => Stands(c, f)

\* The invariant after a step, from what the step leaves behind.
LEMMA FairAgain ==
  ASSUME hunt' = hunt, line' \in Nat, FairAt(cast', fallen', hour', bout')
  PROVE  HuntFair'
<1>1. This' = This /\ Free' = Free
  BY DEF This, Free
<1>2. \A t : RoleIsFair(cast, t)' <=> RoleIsFair(cast', t)
  BY <1>1 DEF RoleIsFair
<1>3. KillerLost(cast)' <=> KillerLost(cast')
  BY <1>1 DEF KillerLost, Among
<1>4. Losers(cast)' = Losers(cast')
  BY <1>3 DEF Losers
<1>5. Stands(cast, fallen)' <=> Stands(cast', fallen')
  <2>1. AgentWins(cast)' <=> AgentWins(cast')
    BY <1>3 DEF AgentWins
  <2> QED
    BY <1>1, <1>4, <2>1 DEF Stands
<1>6. FallenAt(cast, fallen)' <=> FallenAt(cast', fallen')
  BY <1>1, <1>3 DEF FallenAt
<1>7. TableIsSet(cast)' <=> TableIsSet(cast')
  BY <1>2 DEF TableIsSet
<1> QED
  BY <1>1, <1>2, <1>5, <1>6, <1>7 DEF HuntFair, FairAt, Tokens

\* The table between two rounds can be settled.
LEMMA TableIsSettling ==
  ASSUME HuntAssumption, HuntInv, TableIsSet(cast)
  PROVE  Settling(cast)
<1>1. IsCast(cast) /\ HuntGame
  BY DEF HuntInv
<1>2. This.roles \in Seq(Occupations) /\ This.cures \in Nat
  BY <1>1 DEF HuntGame, HuntAssumption, IsHunt, This
<1>3. IsFiniteSet(DOMAIN cast)
  BY <1>1, <1>2, RolesAreFinite DEF IsCast
<1> QED
  BY <1>1, <1>2, <1>3 DEF Settling, TableIsSet

\* OnRoundFinish_
LEMMA RoundEndsFair ==
  ASSUME HuntAssumption, HuntInv, HuntFair, HaveSides(This.roles), hour # "done",
         NEW m, RoundFinish(m), hunt' = hunt, line' \in Nat
  PROVE  HuntFair'
<1> DEFINE c == Buried(Settled(cast))
           outs == Banished(cast) \cup
                   {t \in Tokens : cast[t].alive /\ ~c[t].alive /\ c[t].kind # "ghost"}
           n == Out(m, c, outs)
           lost == Losers(c)
           e == [t \in Tokens |-> [c[t] EXCEPT !.winner = c[t].kind = "agent"]]
<1>1. TableIsSet(cast) /\ FallenAt(cast, fallen) /\ bout \in 1 .. This.rounds
      /\ fallen \subseteq Teams /\ Cardinality(fallen) <= 1
  BY DEF HuntFair
<1>2. Settling(cast)
  BY <1>1, TableIsSettling
<1>3. RoundDone(cast, c, fallen)
  BY <1>1, <1>2, RoundIsFair DEF RoundDone
<1>4. DOMAIN c = Tokens /\ IsCast(c)
      /\ \A t \in Tokens : RoleIsFair(c, t) /\ c[t].team \in {"civilian", "killer", "special"}
  BY <1>3 DEF RoundDone, RoundOf, Tokens, TeamIsFair
<1>5. \/ /\ AgentWins(c) /\ cast' = e /\ hour' = "done" /\ UNCHANGED <<bout, fallen>>
      \/ /\ ~AgentWins(c) /\ Cardinality(lost) >= 2 /\ Ends(c, LetOff(c, lost), n)
      \/ /\ ~(Cardinality(lost) >= 2) /\ Ends(c, lost, n)
      \/ /\ ~(Cardinality(lost) >= 2) /\ bout < This.rounds /\ Goes(c, lost, n)
  <2>1. bout \in Int /\ This.rounds \in Nat
    <3>1. This.rounds \in Nat
      BY DEF HuntInv, HuntGame, HuntAssumption, IsHunt, This
    <3> QED
      BY <1>1, <3>1
  <2>2. ~(bout >= This.rounds) => bout < This.rounds
    BY <2>1
  <2> QED
    BY <2>2 DEF RoundFinish
<1> HIDE DEF c, outs, n
<1>6. lost \subseteq Teams /\ Cardinality(lost) \in Nat
  <2>1. lost \subseteq Teams
    BY DEF Losers, Teams
  <2>2. Cardinality(lost) \in 0 .. 3
    <3> HIDE DEF lost
    <3> QED
      BY <2>1, ThreeTeams
  <2> QED
    BY <2>1, <2>2
<1>7. CASE AgentWins(c) /\ cast' = e /\ hour' = "done" /\ UNCHANGED <<bout, fallen>>
  <2>1. e = [t \in DOMAIN c |-> [c[t] EXCEPT !.winner = c[t].kind = "agent"]]
    BY <1>4
  <2> HIDE DEF e
  <2>2. /\ Stands(e, fallen) /\ DOMAIN e = DOMAIN c
        /\ \A t \in DOMAIN c : /\ e[t].hp = c[t].hp /\ e[t].curse = c[t].curse
                                /\ e[t].hidden = c[t].hidden /\ e[t].cures = c[t].cures
                                /\ e[t].alive = c[t].alive
                                /\ e[t].kind = c[t].kind /\ e[t].team = c[t].team
    BY <1>3, <1>7, <2>1, AgentStands
  <2>3. \A t \in DOMAIN e : RoleIsFair(e, t) /\ e[t].team \in {"civilian", "killer", "special"}
    <3> SUFFICES ASSUME NEW t \in DOMAIN e
                 PROVE  RoleIsFair(e, t) /\ e[t].team \in {"civilian", "killer", "special"}
      OBVIOUS
    <3>1. t \in Tokens /\ RoleIsFair(c, t) /\ DOMAIN e = DOMAIN c
      BY <1>4, <2>2
    <3> QED
      BY <1>4, <2>2, <3>1 DEF RoleIsFair
  <2>4. FairAt(cast', fallen', hour', bout')
    BY <1>1, <1>7, <2>2, <2>3 DEF FairAt
  <2> QED
    BY <2>4, FairAgain
<1>8. ASSUME NEW l, Ends(c, l, n), Stands(Crowned(c, l), fallen)
      PROVE  HuntFair'
  <2>1. cast' = Crowned(c, l) /\ hour' = "done" /\ bout' = bout /\ fallen' = fallen
    BY <1>8 DEF Ends
  <2> DEFINE g == Crowned(c, l)
  <2>2. /\ DOMAIN g = DOMAIN c
        /\ \A t \in DOMAIN c : /\ g[t].hp = c[t].hp /\ g[t].curse = c[t].curse
                                /\ g[t].hidden = c[t].hidden /\ g[t].cures = c[t].cures
                                /\ g[t].alive = c[t].alive
                                /\ g[t].kind = c[t].kind /\ g[t].team = c[t].team
    BY <1>4, CrownedIs DEF AsJudged
  <2>3. Stands(g, fallen) /\ cast' = g
    BY <1>8, <2>1
  <2> HIDE DEF g
  <2>4. \A t \in DOMAIN g : RoleIsFair(g, t) /\ g[t].team \in {"civilian", "killer", "special"}
    <3> SUFFICES ASSUME NEW t \in DOMAIN g
                 PROVE  RoleIsFair(g, t) /\ g[t].team \in {"civilian", "killer", "special"}
      OBVIOUS
    <3>1. t \in Tokens /\ RoleIsFair(c, t) /\ DOMAIN g = DOMAIN c
      BY <1>4, <2>2
    <3> QED
      BY <1>4, <2>2, <3>1 DEF RoleIsFair
  <2>5. FairAt(cast', fallen', hour', bout')
    BY <1>1, <2>1, <2>3, <2>4 DEF FairAt
  <2> QED
    BY <2>5, FairAgain
<1>9. CASE ~AgentWins(c) /\ Cardinality(lost) >= 2 /\ Ends(c, LetOff(c, lost), n)
  <2>1. Stands(Crowned(c, LetOff(c, lost)), fallen)
    BY <1>3, <1>9, CrownedStands
  <2> QED
    BY <1>8, <1>9, <2>1
<1>10. CASE ~(Cardinality(lost) >= 2) /\ Ends(c, lost, n)
  <2>1. Cardinality(lost) < 2
    BY <1>6, <1>10
  <2>2. Stands(Crowned(c, lost), fallen)
    BY <1>3, <2>1, CrownedStands
  <2> QED
    BY <1>8, <1>10, <2>2
<1>11. CASE ~(Cardinality(lost) >= 2) /\ bout < This.rounds /\ Goes(c, lost, n)
  <2> DEFINE newly == {t \in DOMAIN c : c[t].team \in {"civilian", "killer"} \cap (lost \ fallen)}
             g == GoneOn(c, newly)
  <2>1. Cardinality(lost) < 2
    BY <1>6, <1>11
  <2>2. cast' = g /\ bout' = bout + 1 /\ fallen' = lost /\ hour' \in {"wait", "over"}
    BY <1>11 DEF Goes, Handled, GoneOn
  <2> HIDE DEF newly, g
  <2>3. TableIsSet(g) /\ FallenAt(g, lost) /\ DOMAIN g = DOMAIN c
    BY <1>3, <2>1, TableIsSetAgain DEF g
  <2>4. bout' \in 1 .. This.rounds
    <3>1. This.rounds \in Nat
      BY DEF HuntInv, HuntGame, HuntAssumption, IsHunt, This
    <3> QED
      BY <1>1, <1>11, <2>2, <3>1
  <2>5. \A t \in DOMAIN g : RoleIsFair(g, t) /\ g[t].team \in {"civilian", "killer", "special"}
    BY <2>3 DEF TableIsSet, TeamIsFair
  <2>6. FairAt(cast', fallen', hour', bout')
    BY <2>2, <2>3, <2>4, <2>5 DEF FairAt, FallenAt
  <2> QED
    BY <2>6, FairAgain
<1> QED
  BY <1>5, <1>7, <1>9, <1>10, <1>11

-----------------------------------------------------------------------------
(* HpKiller: what somebody may do.                                        *)

\* What an action says of tokens is of those who are alive, and no harm or cure is negative.
AimsAreFair(c, a) ==
    /\ a.hp \in Seq(Int)
    /\ \A i \in DOMAIN a.hp : /\ a.kind \in Harmful => a.hp[i] \in Nat
                              /\ a.on[i] \in DOMAIN c => c[a.on[i]].alive = TRUE

\* The checks of the commands' arguments.
LEMMA CheckedIsFair ==
  ASSUME \A t \in DOMAIN cast : cast[t].alive \in BOOLEAN,
         NEW a, IsAction(a), InFormat(a), Checked(a)
  PROVE  AimsAreFair(cast, a)
<1>1. a.on \in Seq(Int) /\ a.hp \in Seq(Int)
  BY DEF IsAction
<1>2. CASE a.kind \notin Measured
  <2> DEFINE hp == a.hp
  <2>1. hp = <<>>
    BY <1>2 DEF IsAction
  <2>2. hp \in Seq(Int) /\ DOMAIN hp = {}
    <3> HIDE DEF hp
    <3> QED
      BY <2>1
  <2> QED
    BY <2>2 DEF AimsAreFair
<1>3. CASE a.kind \in Measured
  <2>1. /\ a.on # <<>> /\ \A i \in DOMAIN a.on : a.on[i] \in Tokens /\ cast[a.on[i]].alive
    BY <1>3 DEF Checked, Measured
  <2>2. Len(a.hp) = Len(a.on)
    BY <1>3, <2>1 DEF IsAction
  <2>3. DOMAIN a.hp = DOMAIN a.on
    <3> DEFINE x == a.hp
               y == a.on
    <3>1. x \in Seq(Int) /\ y \in Seq(Int) /\ Len(x) = Len(y)
      BY <1>1, <2>2
    <3> HIDE DEF x, y
    <3>2. DOMAIN x = DOMAIN y
      BY <3>1
    <3> QED
      BY <3>2 DEF x, y
  <2>4. ASSUME NEW i \in DOMAIN a.hp, a.kind \in Harmful
        PROVE  a.hp[i] \in Nat
    <3>1. CASE a.kind = "attack"
      <4>1. a.hp[i] \in 0 .. 25
        BY <3>1 DEF InFormat
      <4> QED
        BY <4>1
    <3>2. CASE a.kind = "cure"
      <4>1. a.hp[i] \in {10, 15}
        BY <3>2 DEF InFormat
      <4> QED
        BY <4>1
    <3>3. CASE a.kind = "curse"
      <4>1. a.hp[i] \in 5 .. 10
        BY <3>3 DEF InFormat
      <4> QED
        BY <4>1
    <3>4. CASE a.kind = "injury"
      <4>1. a.hp[i] \in 0 .. 10
        BY <3>4 DEF InFormat
      <4> QED
        BY <4>1
    <3> QED
      BY <2>4, <3>1, <3>2, <3>3, <3>4 DEF Harmful
  <2> QED
    BY <1>1, <2>1, <2>3, <2>4 DEF AimsAreFair, Tokens
<1> QED
  BY <1>2, <1>3

\* The place of u in a list of tokens.
PlaceOf(q, u) == SelectInSeq(q, LAMBDA v : v = u)
LEMMA PlaceIsThere ==
  ASSUME NEW q \in Seq(Int), NEW u, \E i \in DOMAIN q : q[i] = u
  PROVE  PlaceOf(q, u) \in DOMAIN q
<1> DEFINE I == {i \in 1 .. Len(q) : q[i] = u}
<1>1. DOMAIN q = 1 .. Len(q) /\ Len(q) \in Nat
  OBVIOUS
<1>2. I # {} /\ I \subseteq Nat /\ I \subseteq DOMAIN q
  BY <1>1
<1>3. PlaceOf(q, u) = IF I # {} THEN Min(I) ELSE 0
  BY DEF PlaceOf, SelectInSeq
<1> HIDE DEF I
<1>4. \E x \in I : \A y \in I : x <= y
  BY <1>2, LeastNumber
<1>5. Min(I) \in I
  BY <1>4 DEF Min
<1> QED
  BY <1>2, <1>3, <1>5

\* Role t of c when he has acted, or has been refused.
HasActed(c, t, s) ==
    /\ IsRole(s) /\ s.kind = c[t].kind /\ s.pid = c[t].pid /\ s.team = c[t].team
    /\ s.next = c[t].next /\ s.hp = c[t].hp /\ s.curse = c[t].curse
    /\ s.alive = c[t].alive /\ s.winner = c[t].winner /\ s.cures = c[t].cures
    /\ DOMAIN s.hidden = DOMAIN c /\ \A u \in DOMAIN c : s.hidden[u] \in Nat
    /\ AimsAreFair(c, s.doing)
    /\ s.act \/ s.doing.hp = <<>>

\* The Act functions.
LEMMA ActedIs ==
  ASSUME IsCast(cast), \A u \in DOMAIN cast : cast[u].alive \in BOOLEAN,
         NEW t \in DOMAIN cast, RoleIsFair(cast, t), cast[t].act,
         NEW a, IsAction(a), InFormat(a), Checked(a)
  PROVE  HasActed(cast, t, Acted(cast[t], a))
<1> DEFINE r == cast[t]
           s == [r EXCEPT !.doing = a]
           e == Acted(r, a)
           Same(x) == /\ IsRole(x) /\ x.kind = r.kind /\ x.pid = r.pid /\ x.team = r.team
                      /\ x.next = r.next /\ x.hp = r.hp /\ x.curse = r.curse
                      /\ x.alive = r.alive /\ x.winner = r.winner /\ x.cures = r.cures
<1>1. AimsAreFair(cast, a)
  BY CheckedIsFair
<1>2. IsRole(r) /\ DOMAIN r.hidden = DOMAIN cast /\ \A u \in DOMAIN cast : r.hidden[u] \in Nat
  BY DEF IsCast, RoleIsFair
<1>3. r.act
  OBVIOUS
<1> HIDE DEF r
<1>4. Same(s) /\ s.hidden = r.hidden /\ s.act = r.act /\ s.doing = a
  BY <1>2 DEF IsRole, RoleFields
<1>5. a.kind \notin Measured => a.hp = <<>>
  BY DEF IsAction
<1>6. /\ Same(e)
      /\ DOMAIN e.hidden = DOMAIN cast /\ \A u \in DOMAIN cast : e.hidden[u] \in Nat
      /\ AimsAreFair(cast, e.doing)
      /\ e.act \/ e.doing.hp = <<>>
  <2>1. CASE a.kind = "injury"
    <3>1. e = [s EXCEPT !.used = s.used \cup {a.hp[1]}]
      BY <2>1 DEF Acted
    <3> HIDE DEF s, e
    <3>2. Same(e) /\ e.hidden = r.hidden /\ e.act = r.act /\ e.doing = a
      BY <1>4, <3>1 DEF IsRole, RoleFields
    <3> QED
      BY <1>1, <1>2, <1>3, <3>2
  <2>2. CASE a.kind = "exorcise"
    <3>1. e = [s EXCEPT !.used = {0}]
      BY <2>2 DEF Acted
    <3> HIDE DEF s, e
    <3>2. Same(e) /\ e.hidden = r.hidden /\ e.act = r.act /\ e.doing = a
      BY <1>4, <3>1 DEF IsRole, RoleFields
    <3> QED
      BY <1>1, <1>2, <1>3, <3>2
  <2>3. CASE a.kind = "shield"
    <3>1. e = [s EXCEPT !.used = ToSet(a.on)]
      BY <2>3 DEF Acted
    <3> HIDE DEF s, e
    <3>2. Same(e) /\ e.hidden = r.hidden /\ e.act = r.act /\ e.doing = a
      BY <1>4, <3>1 DEF IsRole, RoleFields
    <3> QED
      BY <1>1, <1>2, <1>3, <3>2
  <2>4. CASE a.kind = "assign"
    <3> DEFINE place(u) == PlaceOf(a.on, u)
               more == [u \in DOMAIN s.hidden |-> IF u \in ToSet(a.on)
                          THEN s.hidden[u] + a.hp[place(u)] ELSE s.hidden[u]]
    <3>1. e = [s EXCEPT !.hidden = more]
      BY <2>4 DEF Acted, PlaceOf
    <3>2. ASSUME NEW u \in ToSet(a.on)
          PROVE  a.hp[place(u)] \in Nat
      <4>1. a.on \in Seq(Int) /\ a.hp \in Seq(Int)
        BY DEF IsAction
      <4>2. \E i \in DOMAIN a.on : a.on[i] = u
        BY DEF ToSet
      <4>3. place(u) \in DOMAIN a.on
        BY <4>1, <4>2, PlaceIsThere
      <4>4. a.on # <<>>
        BY <2>4 DEF Checked
      <4>5. Len(a.hp) = Len(a.on)
        BY <2>4, <4>4 DEF IsAction, Measured
      <4> HIDE DEF place
      <4>6. DOMAIN a.hp = DOMAIN a.on
        <5> DEFINE x == a.hp
                   y == a.on
        <5>1. x \in Seq(Int) /\ y \in Seq(Int) /\ Len(x) = Len(y)
          BY <4>1, <4>5
        <5> HIDE DEF x, y
        <5>2. DOMAIN x = DOMAIN y
          BY <5>1
        <5> QED
          BY <5>2 DEF x, y
      <4>7. a.hp[place(u)] \in 5 .. 15
        BY <2>4, <4>3, <4>6 DEF InFormat
      <4> QED
        BY <4>7
    <3> HIDE DEF place
    <3>3. DOMAIN more = DOMAIN cast /\ \A u \in DOMAIN cast : more[u] \in Nat
      BY <1>2, <1>4, <3>2
    <3> HIDE DEF s, e, more
    <3>4. Same(e) /\ e.hidden = more /\ e.act = r.act /\ e.doing = a
      BY <1>4, <3>1 DEF IsRole, RoleFields
    <3> QED
      BY <1>1, <1>2, <1>3, <3>3, <3>4
  <2>5. CASE a.kind = "release"
    <3> DEFINE blow == [kind |-> "attack", on |-> a.on,
                        hp |-> [i \in DOMAIN a.on |-> r.hidden[a.on[i]]]]
               none == [u \in DOMAIN s.hidden |-> IF u \in ToSet(a.on) THEN 0 ELSE s.hidden[u]]
    <3>1. e = [s EXCEPT !.doing = blow, !.hidden = none]
      BY <1>4, <2>5 DEF Acted, IsRole, RoleFields
    <3>2. DOMAIN none = DOMAIN cast /\ \A u \in DOMAIN cast : none[u] \in Nat
      BY <1>2, <1>4
    <3>3. AimsAreFair(cast, blow)
      <4> DEFINE q == a.on
                 hp == [i \in DOMAIN q |-> r.hidden[q[i]]]
      <4>1. q \in Seq(Int) /\ \A i \in DOMAIN q : q[i] \in DOMAIN cast /\ cast[q[i]].alive
        BY <2>5 DEF IsAction, Checked, Tokens
      <4>2. blow.hp = hp /\ blow.on = q
        OBVIOUS
      <4> HIDE DEF q, blow
      <4>3. \A i \in DOMAIN hp : hp[i] \in Nat /\ hp[i] \in Int
        BY <1>2, <4>1
      <4>4. PICK k \in Nat : DOMAIN q = 1 .. k
        BY <4>1
      <4>5. DOMAIN hp = DOMAIN q
        OBVIOUS
      <4>6. hp \in [1 .. k -> Int]
        BY <4>3, <4>4
      <4> HIDE DEF hp
      <4>7. hp \in Seq(Int)
        BY <4>6
      <4> QED
        BY <4>1, <4>2, <4>3, <4>5, <4>7 DEF AimsAreFair
    <3> HIDE DEF s, e, blow, none
    <3>4. Same(e) /\ e.hidden = none /\ e.act = r.act /\ e.doing = blow
      BY <1>4, <3>1 DEF IsRole, RoleFields
    <3> QED
      BY <1>3, <3>2, <3>3, <3>4
  <2>6. CASE a.kind = "night"
    <3>1. e = [s EXCEPT !.off = TRUE, !.act = FALSE]
      BY <2>6 DEF Acted
    <3> HIDE DEF s, e
    <3>2. Same(e) /\ e.hidden = r.hidden /\ e.doing = a
      BY <1>4, <3>1 DEF IsRole, RoleFields
    <3>3. a.hp = <<>>
      BY <1>5, <2>6 DEF Measured
    <3> QED
      BY <1>1, <1>2, <3>2, <3>3
  <2>7. CASE a.kind \notin {"injury", "exorcise", "shield", "assign", "release", "night"}
    <3>1. e = s
      BY <2>7 DEF Acted
    <3> HIDE DEF s, e
    <3> QED
      BY <1>1, <1>2, <1>3, <1>4, <3>1
  <2> QED
    BY <2>1, <2>2, <2>3, <2>4, <2>5, <2>6, <2>7
<1> HIDE DEF e
<1> QED
  BY <1>6 DEF HasActed, e, r

\* A refused action.
LEMMA RefusingIs ==
  ASSUME IsCast(cast), \A u \in DOMAIN cast : cast[u].alive \in BOOLEAN,
         NEW t \in DOMAIN cast, RoleIsFair(cast, t), AimIsFair(cast, t), cast[t].act,
         NEW a, IsAction(a), InFormat(a), Checked(a)
  PROVE  HasActed(cast, t, Refusing(cast[t], a))
<1> DEFINE r == cast[t]
           s == [r EXCEPT !.doing = a]
<1>1. AimsAreFair(cast, a) /\ AimsAreFair(cast, r.doing)
  BY CheckedIsFair DEF AimIsFair, AimsAreFair
<1>2. IsRole(r) /\ DOMAIN r.hidden = DOMAIN cast /\ \A u \in DOMAIN cast : r.hidden[u] \in Nat
  BY DEF IsCast, RoleIsFair
<1>3. r.act
  OBVIOUS
<1> HIDE DEF r
<1>4. /\ IsRole(s) /\ s.kind = r.kind /\ s.pid = r.pid /\ s.team = r.team
      /\ s.next = r.next /\ s.hp = r.hp /\ s.curse = r.curse
      /\ s.alive = r.alive /\ s.winner = r.winner /\ s.cures = r.cures
      /\ s.hidden = r.hidden /\ s.act = r.act /\ s.doing = a
  BY <1>2 DEF IsRole, RoleFields
<1>5. Refusing(r, a) = s \/ Refusing(r, a) = r
  BY DEF Refusing
<1> HIDE DEF s
<1>6. HasActed(cast, t, s)
  BY <1>1, <1>2, <1>3, <1>4 DEF HasActed, r
<1>7. HasActed(cast, t, r)
  BY <1>1, <1>2, <1>3 DEF HasActed, r
<1> QED
  BY <1>5, <1>6, <1>7 DEF r

\* Nobody does anything, whoever is waited for.
LEMMA NobodyActs ==
  ASSUME HuntFair, hour = "wait", HaveSides(This.roles), cast' = cast,
         hour' \in {"wait", "over"}, UNCHANGED <<hunt, bout, fallen>>, line' \in Nat
  PROVE  HuntFair'
<1>1. FairAt(cast', fallen', hour', bout')
  BY DEF HuntFair, FairAt, Tokens
<1> QED
  BY <1>1, FairAgain

\* One role acts, or is refused.
LEMMA RoleActs ==
  ASSUME HuntAssumption, HuntInv, HuntFair, hour = "wait", HaveSides(This.roles),
         NEW t \in DOMAIN cast, NEW s, HasActed(cast, t, s), cast' = [cast EXCEPT ![t] = s],
         hour' \in {"wait", "over"}, UNCHANGED <<hunt, bout, fallen>>, line' \in Nat
  PROVE  HuntFair'
<1> DEFINE e == [cast EXCEPT ![t] = s]
<1>1. TableIsSet(cast) /\ FallenAt(cast, fallen) /\ bout \in 1 .. This.rounds
      /\ fallen \subseteq Teams /\ Cardinality(fallen) <= 1
  BY DEF HuntFair
<1>2. Settling(cast)
  BY <1>1, TableIsSettling
<1>3. IsCast(cast) /\ IsFiniteSet(DOMAIN cast) /\ This.roles \in Seq(Occupations)
  BY <1>2 DEF Settling
<1>4. DOMAIN e = DOMAIN cast /\ e[t] = s /\ \A u \in DOMAIN cast : u # t => e[u] = cast[u]
  BY <1>3 DEF IsCast
<1>5. e = [u \in DOMAIN e |-> e[u]]
  OBVIOUS
<1>6. cast' = e
  OBVIOUS
<1> HIDE DEF e
<1>7. \A u \in DOMAIN cast :
         /\ e[u].kind = cast[u].kind /\ e[u].team = cast[u].team /\ e[u].next = cast[u].next
         /\ e[u].hp = cast[u].hp /\ e[u].curse = cast[u].curse /\ e[u].alive = cast[u].alive
         /\ e[u].winner = cast[u].winner /\ e[u].cures = cast[u].cures
         /\ IsRole(e[u]) /\ e[u].pid = cast[u].pid
  BY <1>3, <1>4 DEF HasActed, IsCast
<1>8. IsCast(e)
  <2>1. SameSeats(cast, e)
    BY <1>4, <1>5, <1>7 DEF SameSeats
  <2> QED
    BY <1>3, <2>1, StillCast
<1>9. ASSUME NEW u \in DOMAIN cast
      PROVE  /\ RoleIsFair(cast, u) /\ AimIsFair(cast, u) /\ TeamIsFair(cast[u])
             /\ cast[u].team = cast[u].next /\ cast[u].winner = FALSE
  BY <1>1 DEF TableIsSet
<1>10. ASSUME NEW u \in DOMAIN cast
       PROVE  RoleIsFair(e, u)
  <2>1. DOMAIN e[u].hidden = DOMAIN cast /\ \A v \in DOMAIN cast : e[u].hidden[v] \in Nat
    BY <1>4, <1>9 DEF HasActed, RoleIsFair
  <2>2. RoleIsFair(cast, u) /\ DOMAIN e = DOMAIN cast
    BY <1>4, <1>9
  <2> QED
    BY <1>7, <2>1, <2>2 DEF RoleIsFair
<1>11. ASSUME NEW u \in DOMAIN cast
       PROVE  AimIsFair(e, u)
  <2>1. \A v \in DOMAIN cast : e[v].alive = cast[v].alive
    BY <1>7
  <2>2. CASE u = t
    <3>1. AimsAreFair(cast, s.doing) /\ (s.act \/ s.doing.hp = <<>>) /\ e[u] = s
      BY <1>4, <2>2 DEF HasActed
    <3> QED
      BY <1>4, <2>1, <3>1 DEF AimIsFair, AimsAreFair
  <2>3. CASE u # t
    <3>1. AimIsFair(cast, u) /\ e[u] = cast[u]
      BY <1>4, <1>9, <2>3
    <3> QED
      BY <1>4, <2>1, <3>1 DEF AimIsFair
  <2> QED
    BY <2>2, <2>3
<1>12. ASSUME NEW u \in DOMAIN cast
       PROVE  TeamIsFair(e[u]) /\ e[u].team = e[u].next /\ e[u].winner = FALSE
  <2>1. TeamIsFair(cast[u]) /\ cast[u].team = cast[u].next /\ cast[u].winner = FALSE
    BY <1>9
  <2>2. e[u].kind = cast[u].kind /\ e[u].team = cast[u].team /\ e[u].next = cast[u].next
        /\ e[u].winner = cast[u].winner
    BY <1>7
  <2> QED
    BY <2>1, <2>2 DEF TeamIsFair
<1>13. TableIsSet(e)
  BY <1>4, <1>10, <1>11, <1>12 DEF TableIsSet
<1>14. FallenAt(e, fallen)
  <2>1. First(e, Traitors) = First(cast, Traitors)
    BY <1>3, <1>7, <1>8, SameFirst
  <2>2. Succeeds(cast, e)
    <3>1. \A u \in DOMAIN cast : cast[u].alive \in BOOLEAN
      BY <1>9 DEF RoleIsFair
    <3> QED
      BY <1>4, <1>7, <3>1 DEF Succeeds
  <2>3. /\ CivilianLost(cast) => CivilianLost(e)
        /\ KillerLost(cast) /\ ~This.night => KillerLost(e)
    BY <1>3, <2>2, LostForGood
  <2> QED
    BY <1>1, <2>1, <2>3 DEF FallenAt
<1>15. \A u \in DOMAIN e : RoleIsFair(e, u) /\ e[u].team \in {"civilian", "killer", "special"}
  BY <1>13 DEF TableIsSet, TeamIsFair
<1>16. FairAt(cast', fallen', hour', bout')
  BY <1>1, <1>6, <1>13, <1>14, <1>15 DEF FairAt
<1> QED
  BY <1>16, FairAgain

\* A command: what it says is an action unless it is refused for being public.
LEMMA RequestIsFair ==
  ASSUME HuntAssumption, HuntInv, HuntFair, HaveSides(This.roles), line' \in Nat,
         NEW p, NEW a, NEW public, public \/ IsAction(a), Request(p, a, public)
  PROVE  HuntFair'
<1> DEFINE t == TokenOf(p)
           m == Masked(Size)!SetActive(awake, p)
<1>1. /\ hour = "wait" /\ UNCHANGED <<hunt, bout, fallen>>
      /\ \/ cast' = cast /\ (hour' = hour \/ hour' \in {"wait", "over"})
         \/ /\ InFormat(a) /\ Checked(a) /\ ~public /\ cast[t].act
            /\ hour' \in {"wait", "over"}
            /\ \/ cast' = [cast EXCEPT ![t] = Refusing(cast[t], a)]
               \/ cast' = [cast EXCEPT ![t] = Acted(cast[t], a)]
  BY DEF Request, Handled
<1> HIDE DEF t
<1>2. CASE cast' = cast /\ (hour' = hour \/ hour' \in {"wait", "over"})
  BY <1>1, <1>2, NobodyActs
<1>3. IsCast(cast) /\ TableIsSet(cast)
  BY <1>1 DEF HuntInv, HuntFair
<1>4. \A u \in DOMAIN cast : cast[u].alive \in BOOLEAN /\ RoleIsFair(cast, u) /\ AimIsFair(cast, u)
  BY <1>3 DEF TableIsSet, RoleIsFair
<1>5. ASSUME NEW s, t \in DOMAIN cast => HasActed(cast, t, s), cast' = [cast EXCEPT ![t] = s],
             hour' \in {"wait", "over"}
      PROVE  HuntFair'
  <2>1. CASE t \in DOMAIN cast
    BY <1>1, <1>5, <2>1, RoleActs
  <2>2. CASE t \notin DOMAIN cast
    <3>1. cast' = cast
      BY <1>3, <1>5, <2>2 DEF IsCast
    <3> QED
      BY <1>1, <1>5, <3>1, NobodyActs
  <2> QED
    BY <2>1, <2>2
<1>6. CASE /\ InFormat(a) /\ Checked(a) /\ ~public /\ cast[t].act
           /\ hour' \in {"wait", "over"}
           /\ cast' = [cast EXCEPT ![t] = Refusing(cast[t], a)]
  <2>1. t \in DOMAIN cast => HasActed(cast, t, Refusing(cast[t], a))
    BY <1>3, <1>4, <1>6, RefusingIs
  <2> QED
    BY <1>5, <1>6, <2>1
<1>7. CASE /\ InFormat(a) /\ Checked(a) /\ ~public /\ cast[t].act
           /\ hour' \in {"wait", "over"}
           /\ cast' = [cast EXCEPT ![t] = Acted(cast[t], a)]
  <2>1. t \in DOMAIN cast => HasActed(cast, t, Acted(cast[t], a))
    BY <1>3, <1>4, <1>7, ActedIs
  <2> QED
    BY <1>5, <1>7, <2>1
<1> QED
  BY <1>1, <1>2, <1>6, <1>7

\* OnComputerAct
LEMMA ComputerIsFair ==
  ASSUME HuntAssumption, HuntInv, HuntFair, HaveSides(This.roles), line' \in Nat,
         NEW p, NEW a, IsAction(a), InFormat(a), ComputerAct(p, a)
  PROVE  HuntFair'
<1> DEFINE t == TokenOf(p)
<1>1. /\ hour = "wait" /\ UNCHANGED <<hunt, bout, fallen>> /\ hour' \in {"wait", "over"}
      /\ \/ cast' = cast
         \/ /\ Checked(a) /\ cast[t].act
            /\ cast' = [cast EXCEPT ![t] = Acted(cast[t], a)]
  BY DEF ComputerAct, Handled
<1> HIDE DEF t
<1>2. IsCast(cast) /\ TableIsSet(cast)
  BY <1>1 DEF HuntInv, HuntFair
<1>3. \A u \in DOMAIN cast : cast[u].alive \in BOOLEAN /\ RoleIsFair(cast, u)
  BY <1>2 DEF TableIsSet, RoleIsFair
<1>4. CASE cast' = cast
  BY <1>1, <1>4, NobodyActs
<1>5. CASE /\ Checked(a) /\ cast[t].act
           /\ cast' = [cast EXCEPT ![t] = Acted(cast[t], a)]
  <2>1. CASE t \in DOMAIN cast
    <3>1. HasActed(cast, t, Acted(cast[t], a))
      BY <1>2, <1>3, <1>5, <2>1, ActedIs
    <3> QED
      BY <1>1, <1>5, <2>1, <3>1, RoleActs
  <2>2. CASE t \notin DOMAIN cast
    <3>1. cast' = cast
      BY <1>2, <1>5, <2>2 DEF IsCast
    <3> QED
      BY <1>1, <3>1, NobodyActs
  <2> QED
    BY <2>1, <2>2
<1> QED
  BY <1>1, <1>4, <1>5

\* AdaptOptions accepts no lists of roles but such with which the verdict is one.
LEMMA AdaptedHaveSides ==
  ASSUME NEW roles \in Seq(Occupations), NEW n, Adapted(roles, n)
  PROVE  HaveSides(roles)
<1> DEFINE of(kind) == {i \in DOMAIN roles : roles[i] = kind}
           K == {kind \in Traitors \cup {"agent"} : Cardinality(of(kind)) > 0}
<1>1. IsFiniteSet(DOMAIN roles)
  BY RolesAreFinite
<1>2. Cardinality(of("killer")) = 1 /\ Cardinality(K) <= 1
  BY DEF Adapted
<1>3. \A kind : IsFiniteSet(of(kind)) /\ (of(kind) # {} => Cardinality(of(kind)) > 0)
  <2> TAKE kind
  <2>1. of(kind) \subseteq DOMAIN roles
    OBVIOUS
  <2> HIDE DEF of
  <2>2. IsFiniteSet(of(kind)) /\ Cardinality(of(kind)) \in Nat
    BY <1>1, <2>1, FS_Subset, FS_CardinalityType
  <2> QED
    BY <2>2, FS_EmptySet
<1>4. \E t \in DOMAIN roles : roles[t] = "killer"
  <2> DEFINE k == of("killer")
  <2>1. Cardinality(k) = 1 /\ Cardinality({}) = 0
    BY <1>2, FS_EmptySet
  <2>2. k # {}
    <3> HIDE DEF k
    <3> QED
      BY <2>1
  <2> QED
    BY <2>2
<1>5. ASSUME NEW t \in DOMAIN roles, NEW u \in DOMAIN roles,
             {roles[t], roles[u]} \subseteq Traitors \cup {"agent"}, roles[t] # roles[u]
      PROVE  FALSE
  <2> DEFINE a == roles[t]
             b == roles[u]
  <2>1. of(a) # {} /\ of(b) # {}
    OBVIOUS
  <2>2. a \in K /\ b \in K /\ a # b
    BY <1>3, <1>5, <2>1
  <2>3. IsFiniteSet(K)
    <3> DEFINE A == Traitors \cup {"agent"}
    <3>1. IsFiniteSet(Traitors)
      <4>1. IsFiniteSet({"traitor"}) /\ IsFiniteSet({"firstTraitor"})
        BY FS_Singleton
      <4>2. Traitors = {"traitor"} \cup {"firstTraitor"}
        BY DEF Traitors
      <4> QED
        BY <4>1, <4>2, FS_Union
    <3>2. IsFiniteSet({"agent"})
      BY FS_Singleton
    <3>3. IsFiniteSet(A)
      BY <3>1, <3>2, FS_Union
    <3>4. K \subseteq A
      OBVIOUS
    <3> HIDE DEF K, A
    <3> QED
      BY <3>3, <3>4, FS_Subset
  <2> HIDE DEF a, b, K
  <2>4. Cardinality({a}) = 1 /\ IsFiniteSet({a})
    BY FS_Singleton
  <2>5. Cardinality({a} \cup {b}) = 2 /\ IsFiniteSet({a} \cup {b})
    <3>1. b \notin {a}
      BY <2>2
    <3>2. Cardinality({a} \cup {b}) = Cardinality({a}) + 1 /\ IsFiniteSet({a} \cup {b})
      BY <2>4, <3>1, FS_AddElement
    <3> QED
      BY <2>4, <3>2
  <2>6. {a} \cup {b} \subseteq K
    BY <2>2
  <2>7. Cardinality({a} \cup {b}) <= Cardinality(K) /\ Cardinality(K) \in Nat
    BY <2>3, <2>6, FS_Subset, FS_CardinalityType
  <2> QED
    BY <1>2, <2>5, <2>7
<1> QED
  BY <1>4, <1>5 DEF HaveSides

\* The constructors of the stage and of the roles.
LEMMA FairToStart ==
  ASSUME HuntAssumption, HuntInit
  PROVE  HuntFair
<1>1. HuntGame
  BY DEF HuntInit, HuntGame
<1>2. /\ This.roles \in Seq(Occupations) /\ This.cures \in Nat
      /\ This.hp \in Nat \ {0} /\ This.rounds \in Nat \ {0}
  BY <1>1 DEF HuntAssumption, IsHunt, HuntGame, This
<1>3. /\ cast = [t \in DOMAIN This.roles |-> NewRole(This, t)]
      /\ bout = 1 /\ fallen = {} /\ hour = "wait" /\ line = 0
  BY DEF HuntInit
<1>4. HaveSides(This.roles) \/ ~Free
  <2>1. Free => Adapted(This.roles, Size)
    BY DEF HuntInit, Free
  <2> QED
    BY <1>2, <2>1, AdaptedHaveSides
<1>5. ASSUME NEW t \in DOMAIN cast
      PROVE  /\ RoleIsFair(cast, t) /\ AimIsFair(cast, t) /\ TeamIsFair(cast[t])
             /\ cast[t].team = cast[t].next /\ cast[t].winner = FALSE
  <2>1. t \in DOMAIN This.roles /\ DOMAIN cast = DOMAIN This.roles
    BY <1>3
  <2>2. cast[t] = NewRole(This, t)
    BY <1>3, <2>1
  <2> DEFINE kind == This.roles[t]
  <2>3. /\ cast[t].kind = kind /\ cast[t].team = TeamOf(kind) /\ cast[t].next = TeamOf(kind)
        /\ cast[t].hp = This.hp /\ cast[t].alive = TRUE /\ cast[t].winner = FALSE
        /\ cast[t].cures = (IF kind = "goddess" THEN -1 ELSE This.cures)
        /\ cast[t].doing = Pass /\ cast[t].curse = 0
        /\ cast[t].hidden = [i \in DOMAIN This.roles |-> 0]
    BY <2>2 DEF NewRole
  <2> HIDE DEF kind
  <2>4. RoleIsFair(cast, t)
    <3>1. cast[t].cures \in IF cast[t].kind = "goddess" THEN {-1} ELSE 0 .. This.cures
      BY <1>2, <2>3
    <3>2. DOMAIN cast[t].hidden = DOMAIN cast /\ \A u \in DOMAIN cast : cast[t].hidden[u] \in Nat
      BY <2>1, <2>3
    <3>3. /\ cast[t].kind = This.roles[t] /\ cast[t].hp \in Int /\ cast[t].curse \in Nat
          /\ cast[t].alive = TRUE
      BY <1>2, <2>3 DEF kind
    <3> QED
      BY <3>1, <3>2, <3>3 DEF RoleIsFair
  <2>5. AimIsFair(cast, t)
    <3> DEFINE hp == cast[t].doing.hp
    <3>1. hp = <<>>
      BY <2>3 DEF Pass
    <3>2. hp \in Seq(Int) /\ DOMAIN hp = {}
      <4> HIDE DEF hp
      <4> QED
        BY <3>1
    <3> QED
      BY <3>1, <3>2 DEF AimIsFair
  <2>6. TeamIsFair(cast[t])
    <3>1. TeamOf(kind) \in {"civilian", "killer", "special"}
      BY DEF TeamOf
    <3>2. kind \in Twins => TeamOf(kind) \in {"civilian", "killer"}
      BY DEF TeamOf, Twins, Traitors
    <3> QED
      BY <2>3, <3>1, <3>2 DEF TeamIsFair
  <2> QED
    BY <2>3, <2>4, <2>5, <2>6
<1>6. TableIsSet(cast)
  BY <1>5 DEF TableIsSet
<1>7. Cardinality({}) = 0
  BY FS_EmptySet
<1>8. FallenAt(cast, fallen)
  BY <1>3, <1>7 DEF FallenAt
<1>9. \A t \in Tokens : RoleIsFair(cast, t) /\ cast[t].team \in {"civilian", "killer", "special"}
  BY <1>5 DEF TeamIsFair, Tokens
<1>10. bout \in 1 .. This.rounds
  BY <1>2, <1>3
<1> QED
  BY <1>3, <1>4, <1>6, <1>8, <1>9, <1>10 DEF HuntFair, FallenAt

\* A step that changes nothing but the line of the script.
LEMMA FairStutters ==
  ASSUME HuntFair, UNCHANGED <<hunt, cast, bout, fallen, hour>>, line' \in Nat
  PROVE  HuntFair'
<1>1. FairAt(cast', fallen', hour', bout')
  BY DEF HuntFair, FairAt, Tokens
<1> QED
  BY <1>1, FairAgain

\* Every step of the stage keeps the roles fair and the verdict standing.
LEMMA HuntFairIsInductive ==
  ASSUME HuntAssumption, HuntInv, HuntFair, [HuntNext]_huntVars
  PROVE  HuntFair'
<1>1. line \in Nat /\ (HaveSides(This.roles) \/ (~Free /\ hour = "wait"))
  BY DEF HuntFair
<1>2. IsHunt(hunt)
  BY DEF HuntInv, HuntGame, HuntAssumption
<1>3. CASE HuntInternal
  <2>1. hour = "over" /\ RoundFinish(awake) /\ hunt' = hunt /\ line' \in Nat
    BY <1>1, <1>3 DEF HuntInternal, HuntOver
  <2> QED
    BY <1>1, <2>1, RoundEndsFair
<1>4. ASSUME HuntTimeout, HaveSides(This.roles), line' \in Nat
      PROVE  HuntFair'
  <2> DEFINE n == Masked(Size)!SetTemporaryInactive(awake,
                                                    {p \in 0 .. Size - 1 : ~awake.ready[p]})
  <2>1. hour = "wait" /\ RoundFinish(n) /\ hunt' = hunt
    BY <1>4 DEF HuntTimeout
  <2> HIDE DEF n
  <2> QED
    BY <1>4, <2>1, RoundEndsFair
<1>5. CASE HuntLate
  BY <1>1, <1>4, <1>5 DEF HuntLate
<1>6. CASE ScriptStep
  <2> DEFINE s == This.script[line + 1]
  <2>1. Play(s) /\ line' = line + 1 /\ line < Len(This.script)
    BY <1>6 DEF ScriptStep
  <2>2. /\ s.do = "say" => IsAction(s.act)
        /\ s.do \in {"say", "timeout"} => HaveSides(This.roles)
    <3>1. Len(This.script) \in Nat
      BY <1>2 DEF IsHunt, This
    <3>2. line + 1 \in 1 .. Len(This.script)
      BY <1>1, <2>1, <3>1
    <3> QED
      BY <1>2, <3>2 DEF IsHunt, This
  <2>3. line' \in Nat
    BY <1>1, <2>1
  <2> HIDE DEF s
  <2>4. CASE s.do = "say"
    <3>1. Request(s.pid, s.act, FALSE)
      BY <2>1, <2>4 DEF Play
    <3> QED
      BY <2>2, <2>3, <2>4, <3>1, RequestIsFair
  <2>5. CASE s.do = "timeout"
    <3>1. HuntTimeout
      BY <2>1, <2>5 DEF Play
    <3> QED
      BY <1>4, <2>2, <2>3, <2>5, <3>1
  <2>6. CASE s.do \notin {"say", "timeout"}
    <3>1. UNCHANGED <<hunt, cast, bout, fallen, hour>>
      BY <2>1, <2>6 DEF Play
    <3> QED
      BY <2>3, <3>1, FairStutters
  <2> QED
    BY <2>4, <2>5, <2>6
<1>7. CASE HuntStep
  <2>1. /\ Free /\ line' \in Nat
        /\ \E p \in 0 .. Size - 1 :
              \/ \E a \in This.said : Request(p, a, FALSE)
              \/ Request(p, Pass, TRUE)
              \/ \E a \in This.said : InFormat(a) /\ ComputerAct(p, a)
              \/ HuntLeave(p)
    BY <1>1, <1>7 DEF HuntStep
  <2>2. HaveSides(This.roles) /\ \A a \in This.said : IsAction(a)
    BY <1>1, <1>2, <2>1 DEF IsHunt, This
  <2>3. PICK p \in 0 .. Size - 1 :
              \/ \E a \in This.said : Request(p, a, FALSE)
              \/ Request(p, Pass, TRUE)
              \/ \E a \in This.said : InFormat(a) /\ ComputerAct(p, a)
              \/ HuntLeave(p)
    BY <2>1
  <2>4. CASE \E a \in This.said : Request(p, a, FALSE)
    BY <2>1, <2>2, <2>4, RequestIsFair
  <2>5. CASE Request(p, Pass, TRUE)
    BY <2>1, <2>2, <2>5, RequestIsFair
  <2>6. CASE \E a \in This.said : InFormat(a) /\ ComputerAct(p, a)
    BY <2>1, <2>2, <2>6, ComputerIsFair
  <2>7. CASE HuntLeave(p)
    <3>1. /\ hour = "wait" /\ hour' \in {"wait", "over"}
          /\ UNCHANGED <<hunt, cast, bout, fallen>>
      BY <2>7 DEF HuntLeave, Handled
    <3> QED
      BY <2>1, <2>2, <3>1, NobodyActs
  <2> QED
    BY <2>3, <2>4, <2>5, <2>6, <2>7
<1>8. CASE UNCHANGED huntVars
  <2>1. UNCHANGED <<hunt, cast, bout, fallen, hour>> /\ line' \in Nat
    BY <1>1, <1>8 DEF huntVars
  <2> QED
    BY <2>1, FairStutters
<1> QED
  BY <1>3, <1>5, <1>6, <1>7, <1>8 DEF HuntNext

\* The inductive invariant: what the roles are like between two rounds, and that the sides that
\* have lost are those of whom the dead tell.
THEOREM RolesStayFair ==
  ASSUME HuntAssumption
  PROVE  HuntSpec => []HuntFair
<1>1. HuntInit => HuntFair
  BY FairToStart
<1>2. HuntInv /\ HuntFair /\ [HuntNext]_huntVars => HuntFair'
  BY HuntFairIsInductive
<1> QED
  BY <1>1, <1>2, HuntersAreOfTheGame, PTL DEF HuntSpec

\* The types of the variables of games/hp_killer, in a game of any roles and options: curses and
\* hidden damages are never negative, and no number of cures but that of the goddess is.
THEOREM HuntTypes ==
  ASSUME HuntAssumption
  PROVE  HuntSpec => []HuntTypeOK
<1>1. HuntInv /\ HuntFair => HuntTypeOK
  <2> SUFFICES ASSUME HuntInv, HuntFair PROVE HuntTypeOK
    OBVIOUS
  <2>1. ASSUME NEW t \in Tokens
        PROVE  /\ cast[t].hp \in Int /\ cast[t].curse \in Nat
               /\ cast[t].team \in {"civilian", "killer", "special"}
               /\ IF cast[t].kind = "goddess" THEN cast[t].cures = -1
                  ELSE cast[t].cures \in 0 .. This.cures
               /\ \A u \in Tokens : cast[t].hidden[u] \in Nat
    <3>1. RoleIsFair(cast, t) /\ cast[t].team \in {"civilian", "killer", "special"}
      BY DEF HuntFair
    <3>2. cast[t].cures \in IF cast[t].kind = "goddess" THEN {-1} ELSE 0 .. This.cures
      BY <3>1 DEF RoleIsFair
    <3>3. IF cast[t].kind = "goddess" THEN cast[t].cures = -1
          ELSE cast[t].cures \in 0 .. This.cures
      BY <3>2
    <3> QED
      BY <3>1, <3>3 DEF RoleIsFair, Tokens
  <2>2. awake \in Masked(Size)!Masker
    BY DEF HuntInv
  <2> QED
    BY <2>1, <2>2 DEF HuntTypeOK, HuntFair, Teams
<1> QED
  BY <1>1, RolesStayFair, HuntersAreOfTheGame, PTL

\* In a game of any roles, options and actions, however many die in a round and whoever
\* leaves: when it is over somebody has won, all winners are of one side unless the rounds ran
\* out, the assert of CheckTeamsLost_ (games/hp_killer/mygame.cc) holds, and without good
\* nights no side wins that was told it had lost.
THEOREM VerdictsAreFinal ==
  ASSUME HuntAssumption
  PROVE  HuntSpec => []VerdictsStand
<1>1. HuntFair => VerdictsStand
  BY DEF HuntFair, VerdictsStand, Stands, Tokens
<1> QED
  BY <1>1, RolesStayFair, PTL

=============================================================================
