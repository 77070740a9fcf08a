----------------------------- MODULE LoveLetter -----------------------------
(***************************************************************************)
(* The game "love_letter" (games/love_letter/mygame.cc).  The state of a    *)
(* game is a record; each function of the code is the operator that returns *)
(* the record it leaves behind.  Whoever is told what is left out.          *)
(***************************************************************************)
EXTENDS Integers, Sequences, FiniteSets, FiniteSetsExt, SequencesExt, Functions

CONSTANTS
    Guests,     \* number of players, numbered from 0
    Shuffles,   \* the decks that may come out of the shuffle
    Hearts      \* TargetScore_

Ladies == 0 .. Guests - 1
Nobody == 99        \* k_invalid_player_id
Kinds == {"none", "guard", "priest", "baron", "handmaid", "prince", "king", "countess",
          "princess", "assassin", "jester", "cardinal", "baroness", "sycophant", "count",
          "constable", "dowager", "bishop"}
NoCard == [kind |-> "none", n |-> 0]    \* a null pointer
LetterCards == [kind : Kinds, n : Nat]
Away == IF Guests = 2 THEN 3 ELSE 0     \* cards that are shown if two play

\* Two play at least; a deck has each card once, and is enough to deal everybody in.
LetterAssumption ==
    /\ Guests \in 2 .. Nobody - 1 /\ Hearts \in Nat
    /\ \A s \in Shuffles :
          /\ s \in Seq(LetterCards \ {NoCard}) /\ IsInjective(s)
          /\ Len(s) >= 1 + Away + Guests + 1

VARIABLES
    letter,     \* "begin", "wait" for requests, "over", or "done"
    deck, burn, removed,
    info,       \* player_infos_
    current, first, sycophant, bishop,
    heeded,     \* the masker
    absent,     \* those who have left the match
    disturbed   \* history: who left in the round left it to others to go on

letterVars == <<letter, deck, burn, removed, info, current, first, sycophant,
                bishop, heeded, absent, disturbed>>

Mask == INSTANCE PlayerReadyMasker WITH Players <- Ladies

\* CardPoint
Point(card) ==
    CASE card.kind \in {"none", "assassin", "jester"} -> 0
      [] card.kind = "guard" -> 1
      [] card.kind \in {"priest", "cardinal"} -> 2
      [] card.kind \in {"baron", "baroness"} -> 3
      [] card.kind \in {"handmaid", "sycophant"} -> 4
      [] card.kind \in {"prince", "count"} -> 5
      [] card.kind \in {"king", "constable"} -> 6
      [] card.kind \in {"countess", "dowager"} -> 7
      [] card.kind = "princess" -> 8
      [] card.kind = "bishop" -> 9

KindsOf(s) == {s[i].kind : i \in DOMAIN s}
PlaceIn(hand, kind) == SelectInSeq(hand, LAMBDA c : c.kind = kind)
HandValue(q) == IF q.hand = <<>> THEN 0 ELSE Point(q.hand[1])

NewGuest == [alive |-> TRUE, protect |-> FALSE, left |-> FALSE, scores |-> 0,
             hand |-> <<>>, discards |-> <<>>, bet |-> Nobody]

\* The state as the record the operators work on.
Table == [deck |-> deck, burn |-> burn, info |-> info, current |-> current,
          first |-> first, sycophant |-> sycophant, bishop |-> bishop, m |-> heeded]

Put(g) ==
    /\ deck' = g.deck /\ burn' = g.burn /\ info' = g.info
    /\ current' = g.current /\ first' = g.first
    /\ sycophant' = g.sycophant /\ bishop' = g.bishop

LetterInit ==
    /\ letter = "begin"
    /\ deck = <<>> /\ burn = NoCard /\ removed = <<>>
    /\ info = [p \in Ladies |-> NewGuest]
    /\ current = 0 /\ first = 0
    /\ sycophant = Nobody /\ bishop = Nobody
    /\ heeded = Mask!NewMasker
    /\ absent = {}
    /\ disturbed = FALSE

-----------------------------------------------------------------------------
(* Cards.                                                                   *)

\* DrawCard_: from an empty deck the card that was put away, if it is still there.
Draw(g, p) ==
    IF g.deck # <<>>
    THEN [g EXCEPT !.info[p].hand = Append(@, Last(g.deck)), !.deck = Front(@)]
    ELSE [g EXCEPT !.info[p].hand = Append(@, g.burn), !.burn = NoCard]

\* DrawAndNotify_
TurnOf(g, p) ==
    LET h == IF g.deck # <<>> THEN Draw(g, p) ELSE g
    IN  [h EXCEPT !.info[p].protect = FALSE, !.m = Mask!UnsetReady(@, p)]

\* Eliminate_: the constable among the discards of who has not left is worth a point.
Eliminated(g, p) ==
    IF ~g.info[p].alive THEN g
    ELSE LET all == g.info[p].discards \o g.info[p].hand
             gain == IF ~g.info[p].left /\ "constable" \in KindsOf(all) THEN 1 ELSE 0
         IN  [g EXCEPT !.info[p] = [g.info[p] EXCEPT
                  !.discards = all, !.hand = <<>>, !.alive = FALSE,
                  !.scores = g.info[p].scores + gain]]

SelfOK(kind) == kind \in {"prince", "jester", "baroness", "sycophant"}

\* MustPlayCountess_
MustPlayCountess(hand, kind) ==
    kind # "countess" /\ "countess" \in KindsOf(hand)
                      /\ KindsOf(hand) \cap {"king", "prince"} # {}

Reachable(g, t) == t \in Ladies /\ g.info[t].alive /\ ~g.info[t].protect

\* ValidateTarget_: the flatterer's target is the only one there is; who has no
\* target must not name one.
ValidTarget(g, p, kind, target) ==
    LET s == g.sycophant
        noneThere ==
            IF s # Nobody
            THEN kind = "cardinal" \/ g.info[s].protect \/ (~SelfOK(kind) /\ s = p)
            ELSE \A t \in Ladies : Reachable(g, t) => t = p /\ ~SelfOK(kind)
    IN  IF noneThere THEN target = Nobody
        ELSE /\ s # Nobody => target = s
             /\ Reachable(g, target) /\ (target = p => SelfOK(kind))

Swapped(g, p, q) ==
    [g EXCEPT !.info[p].hand = g.info[q].hand, !.info[q].hand = g.info[p].hand]

\* The Do...Kind_ functions: what a card does once its target is accepted.
Guard(g, p, t, guess) ==
    LET hand == g.info[t].hand
        at == PlaceIn(hand, "assassin")
    IN  IF at > 0
        THEN Draw([Eliminated(g, p) EXCEPT !.info[t].hand = RemoveAt(hand, at),
                                           !.info[t].discards = Append(@, hand[at])], t)
        ELSE IF hand # <<>> /\ Point(hand[1]) = guess THEN Eliminated(g, t) ELSE g

\* Baron and dowager: the lower or the higher hand is out.
Duel(g, p, t, lower) ==
    LET a == HandValue(g.info[p])
        b == HandValue(g.info[t])
    IN  IF a = b THEN g ELSE Eliminated(g, IF (a < b) = lower THEN p ELSE t)

Prince(g, t) ==
    LET hand == g.info[t].hand
        h == [g EXCEPT !.info[t].hand = Front(@), !.info[t].discards = Append(@, Last(hand))]
    IN  IF hand = <<>> THEN Draw(g, t)
        ELSE IF Last(hand).kind = "princess" THEN Eliminated(h, t) ELSE Draw(h, t)

\* A right guess is a point, and its target may choose another card.
BishopGuess(g, p, t, guess) ==
    IF g.info[t].hand # <<>> /\ HandValue(g.info[t]) = guess
    THEN [g EXCEPT !.info[p].scores = @ + 1, !.bishop = t,
                   !.m = Mask!UnsetReady(Mask!SetReady(@, p), t)]
    ELSE g

Second(g, t, u) == u # t /\ Reachable(g, u)

\* Whether ResolveCard_ accepts the card with its target and the extra number.
Allowed(g, p, kind, t, extra) ==
    CASE kind \in {"handmaid", "countess", "princess", "assassin", "count", "constable"} -> TRUE
      [] kind = "guard" -> ValidTarget(g, p, kind, t) /\ (t # Nobody => extra \in 0 .. 9 \ {1})
      [] kind = "bishop" -> ValidTarget(g, p, kind, t) /\ (t # Nobody => extra \in 0 .. 9)
      [] kind = "cardinal" -> ValidTarget(g, p, kind, t) /\ (t # Nobody => Second(g, t, extra))
      [] kind = "baroness" ->
            /\ t # extra /\ ValidTarget(g, p, kind, t)
            /\ extra # Nobody => g.sycophant = Nobody /\ Reachable(g, extra)
      [] OTHER -> ValidTarget(g, p, kind, t)

\* And what it does then.
Resolve(g, p, kind, t, extra) ==
    CASE kind = "handmaid" -> [g EXCEPT !.info[p].protect = TRUE]
      [] kind = "princess" -> Eliminated(g, p)
      [] kind = "prince" -> Prince(g, t)
      [] kind = "jester" -> [g EXCEPT !.info[p].bet = t]
      [] kind = "sycophant" -> [g EXCEPT !.sycophant = t]
      [] kind = "guard" /\ t # Nobody -> Guard(g, p, t, extra)
      [] kind = "baron" /\ t # Nobody -> Duel(g, p, t, TRUE)
      [] kind = "dowager" /\ t # Nobody -> Duel(g, p, t, FALSE)
      [] kind = "king" /\ t # Nobody -> Swapped(g, p, t)
      [] kind = "cardinal" /\ t # Nobody -> Swapped(g, t, extra)
      [] kind = "bishop" /\ t # Nobody -> BishopGuess(g, p, t, extra)
      [] OTHER -> g

\* A card leaves the hand for the discards before it is resolved.
Thrown(g, p, at) ==
    [g EXCEPT !.info[p].hand = RemoveAt(@, at),
              !.info[p].discards = Append(@, g.info[p].hand[at])]

\* ForcePlay_: the first card, or the countess if she must be played, at the first
\* who can be reached; a card that is refused is gone all the same.
ForcePlay(g, p) ==
    LET hand == g.info[p].hand
        at == IF MustPlayCountess(hand, hand[1].kind)
              THEN PlaceIn(hand, "countess") ELSE 1
        kind == hand[at].kind
        others == {t \in Ladies \ {p} : Reachable(g, t)}
        target == CASE g.sycophant # Nobody -> g.sycophant
                    [] g.sycophant = Nobody /\ SelfOK(kind) -> p
                    [] OTHER -> IF others = {} THEN Nobody ELSE Min(others)
        extra == CASE kind \in {"guard", "bishop"} -> 0
                   [] kind = "cardinal" -> p
                   [] OTHER -> Nobody
        thrown == Thrown(g, p, at)
        h == IF Allowed(thrown, p, kind, target, extra)
             THEN Resolve(thrown, p, kind, target, extra) ELSE thrown
    IN  IF hand = <<>> THEN g
        ELSE IF kind = "sycophant" THEN h ELSE [h EXCEPT !.sycophant = Nobody]

-----------------------------------------------------------------------------
(* The end of a turn: AfterPlay_.                                           *)

Living(g) == {p \in Ladies : g.info[p].alive}
Won(g) == \E p \in Ladies : g.info[p].scores >= Hearts

SumOf(s) == FoldSeq(LAMBDA c, n : n + Point(c), 0, s)

\* The survivor; or the best hand, a count among the discards making it better; or the
\* most discarded among those; or, if that is nothing, player 0.
Winner(g) ==
    LET value(p) == HandValue(g.info[p])
                      + (IF "count" \in KindsOf(g.info[p].discards) THEN 1 ELSE 0)
        best == {p \in Living(g) : \A q \in Living(g) : value(q) <= value(p)}
        sum(p) == SumOf(g.info[p].discards)
        most == {p \in best : sum(p) > 0 /\ \A q \in best : sum(q) <= sum(p)}
    IN  IF Cardinality(Living(g)) = 1 THEN CHOOSE p \in Living(g) : TRUE
        ELSE IF Cardinality(best) = 1 THEN CHOOSE p \in best : TRUE
        ELSE IF most # {} THEN Min(most) ELSE 0

RoundEnds(g) == Won(g) \/ Cardinality(Living(g)) <= 1 \/ g.deck = <<>>

\* Those who bet on the winner get a point too, unless the winner has won the game.
Honoured(g) ==
    LET w == Winner(g)
        h == [g EXCEPT !.info[w].scores = @ + 1, !.first = w]
    IN  IF Won(g) THEN g
        ELSE IF h.info[w].scores >= Hearts THEN h
        ELSE [h EXCEPT !.info = [p \in Ladies |->
                 IF h.info[p].bet = w THEN [h.info[p] EXCEPT !.scores = @ + 1] ELSE h.info[p]]]

NextAlive(g) ==
    LET at(k) == (g.current + k) % Guests
    IN  at(Min({k \in 1 .. Guests : g.info[at(k)].alive}))

AfterPlay(g) ==
    IF RoundEnds(g) THEN Honoured(g)
    ELSE TurnOf([g EXCEPT !.m = Mask!SetReady(@, g.current), !.current = NextAlive(g)],
                NextAlive(g))

\* AtomicStage::Handle_ after a request that went on to AfterPlay_, or did not.
Settled(g) ==
    /\ Put(g)
    /\ heeded' = g.m
    /\ letter' = IF Mask!Ok(g.m) THEN "over" ELSE "wait"

Finished(g) ==
    \E h \in {AfterPlay(g)} :
        /\ Put(h)
        /\ heeded' = h.m
        /\ letter' = IF RoundEnds(g) THEN "next" ELSE IF Mask!Ok(h.m) THEN "over" ELSE "wait"

\* The turn is over unless somebody is to choose.
Settling(played) == \E g \in {played} : IF g.bishop # Nobody THEN Settled(g) ELSE Finished(g)

-----------------------------------------------------------------------------
(* The handlers of RoundStage, and NextStageFsm.                            *)

\* The cards are dealt from the end of the deck: one is put away, three are shown if
\* two play, and everybody who has not left while alive gets one.
BeginRound(s) ==
    /\ letter = "begin"
    /\ LET seated == {p \in Ladies : ~info[p].left}
           place(p) == Cardinality({q \in seated : q <= p})
           rest == Len(s) - 1 - Away
           g == [deck |-> SubSeq(s, 1, rest - Cardinality(seated)),
                 burn |-> Last(s),
                 info |-> [p \in Ladies |->
                     [info[p] EXCEPT !.protect = FALSE, !.discards = <<>>, !.bet = Nobody,
                         !.alive = @ \/ p \in seated,
                         !.hand = IF p \in seated THEN <<s[rest - place(p) + 1]>> ELSE <<>>]],
                 current |-> first, first |-> first,
                 sycophant |-> sycophant, bishop |-> Nobody,
                 m |-> FoldSet(LAMBDA p, m : Mask!SetReady(m, p), Mask!ClearReady(heeded), seated)]
       IN  /\ Settled(TurnOf(g, first))
           /\ removed' = SubSeq(s, rest + 1, Len(s) - 1)
    /\ disturbed' = (absent # {})
    /\ UNCHANGED absent

Turn(p) == letter = "wait" /\ p \notin absent /\ ~heeded.ready[p]

\* Play_: the first card of its kind; an accepted one is resolved, and the turn ends
\* unless somebody is to choose; a refused one goes back to the end of the hand.
Play(p, at, target, extra) ==
    /\ Turn(p) /\ p = current /\ at \in DOMAIN info[p].hand
    /\ \A i \in 1 .. at - 1 : info[p].hand[i].kind # info[p].hand[at].kind
    /\ \E card \in {info[p].hand[at]} : \E thrown \in {Thrown(Table, p, at)} :
           IF MustPlayCountess(info[p].hand, card.kind) THEN UNCHANGED letterVars
           ELSE IF ~Allowed(thrown, p, card.kind, target, extra)
           THEN /\ Settled([Table EXCEPT !.info[p].hand = Append(thrown.info[p].hand, card)])
                /\ UNCHANGED <<removed, absent, disturbed>>
           ELSE /\ \E played \in {Resolve(thrown, p, card.kind, target, extra)} :
                       Settling(IF card.kind = "sycophant" THEN played
                                ELSE [played EXCEPT !.sycophant = Nobody])
                /\ UNCHANGED <<removed, absent, disturbed>>

\* BishopChoice_: the other cards of the hand are lost.
BishopChoice(p, choice) ==
    /\ Turn(p) /\ p = bishop
    /\ LET hand == info[p].hand
           card == IF hand # <<>> THEN hand[1] ELSE Last(info[p].discards)
           cleared == [Table EXCEPT !.info[p].discards = Append(@, card),
                                    !.info[p].hand = <<>>]
           g == IF ~choice THEN Table
                ELSE IF card.kind = "princess" THEN Eliminated(cleared, p)
                ELSE Draw(cleared, p)
       IN  Finished([g EXCEPT !.bishop = Nobody, !.m = Mask!SetReady(@, p)])
    /\ UNCHANGED <<removed, absent, disturbed>>

\* OnStageTimeout
LetterTimeout ==
    /\ letter = "wait"
    /\ IF bishop # Nobody
       THEN Finished([Table EXCEPT !.bishop = Nobody, !.m = Mask!SetReady(@, bishop)])
       ELSE Settling(ForcePlay(Table, current))
    /\ UNCHANGED <<removed, absent, disturbed>>

\* HandleLeave and OnPlayerLeave.  The last user's leave ends the match elsewhere.
LetterLeave(p) ==
    /\ letter = "wait" /\ p \notin absent /\ absent \cup {p} # Ladies
    /\ absent' = absent \cup {p}
    /\ disturbed' = TRUE
    /\ LET out == [Eliminated([Table EXCEPT !.info[p].left = TRUE], p)
                     EXCEPT !.bishop = IF @ = p THEN Nobody ELSE @,
                            !.sycophant = IF @ = p THEN Nobody ELSE @]
           left == [(IF info[p].alive THEN out ELSE Table)
                        EXCEPT !.m = Mask!SetPermanentInactive(@, p)]
       IN  \E g \in {left} :
              IF Cardinality(Living(g)) <= 1 \/ p = current THEN Finished(g) ELSE Settled(g)
    /\ UNCHANGED removed

\* OnStageOver: nobody has to be waited for.
LetterOver ==
    /\ letter = "over"
    /\ Finished(Table)
    /\ UNCHANGED <<removed, absent, disturbed>>

\* NextStageFsm
NextRound ==
    /\ letter = "next"
    /\ letter' = IF Won(Table) THEN "done" ELSE "begin"
    /\ UNCHANGED <<deck, burn, removed, info, current, first, sycophant, bishop,
                   heeded, absent, disturbed>>

LetterInternal == LetterOver \/ NextRound \/ \E s \in Shuffles : BeginRound(s)

LetterNext ==
    \/ LetterInternal \/ LetterTimeout
    \/ \E p \in Ladies :
          \/ \E at \in 1 .. 2, target \in Ladies \cup {Nobody},
                extra \in 0 .. 9 \cup {Nobody} : Play(p, at, target, extra)
          \/ \E choice \in BOOLEAN : BishopChoice(p, choice)
          \/ LetterLeave(p)

\* As in BiddingPoker: time passes, nobody has to play.
LetterFairness == \/ []<>(letter = "done")
                  \/ []<><<LetterInternal \/ LetterTimeout>>_letterVars

LetterSpec == LetterInit /\ [][LetterNext]_letterVars /\ LetterFairness

-----------------------------------------------------------------------------
(* Properties.                                                              *)

LetterTypeOK ==
    /\ letter \in {"begin", "wait", "over", "next", "done"}
    /\ current \in Ladies /\ first \in Ladies
    /\ sycophant \in Ladies \cup {Nobody} /\ bishop \in Ladies \cup {Nobody}
    /\ heeded \in Mask!Masker
    /\ \A p \in Ladies : info[p].scores \in 0 .. 2 * Hearts + 1

\* Where cards lie: on the deck, among those shown or put away, before a player.
Piles == ({"deck", "removed", "burn"} \X {Nobody}) \cup ({"hand", "discards"} \X Ladies)
Pile(g, away, x) ==
    CASE x[1] = "deck" -> g.deck
      [] x[1] = "removed" -> away
      [] x[1] = "burn" -> IF g.burn = NoCard THEN <<>> ELSE <<g.burn>>
      [] x[1] = "hand" -> g.info[x[2]].hand
      [] x[1] = "discards" -> g.info[x[2]].discards

\* The cards of C lie there, each in one pile and there once, and no others.
EachOnce(g, away, C) ==
    /\ \A x \in Piles : IsInjective(Pile(g, away, x))
    /\ \A x, y \in Piles : ToSet(Pile(g, away, x)) \cap ToSet(Pile(g, away, y)) # {} => x = y
    /\ UNION {ToSet(Pile(g, away, x)) : x \in Piles} = C

\* Until somebody leaves, every card of the shuffle is in exactly one place: whoever
\* swaps hands, guesses, discards or is thrown out, no card is lost or doubled.
EveryLetterOnce ==
    letter \in {"wait", "over"} /\ ~disturbed =>
        \E s \in Shuffles : EachOnce(Table, removed, ToSet(s))

\* Until somebody leaves, whoever's turn it is has two cards and everybody else who
\* plays has one; while a target of the bishop is to choose, nobody has more than one.
HandsAreRight ==
    letter = "wait" /\ ~disturbed =>
        \A p \in Ladies :
            Len(info[p].hand) = IF ~info[p].alive THEN 0
                                ELSE IF p = current /\ bishop = Nobody THEN 2 ELSE 1

\* As the rules have it (rule.md): whoever's turn it is has drawn a card and has two, of
\* which he plays one.  False if the player of a bishop leaves while its target is to
\* choose, and in no run.
TurnsHaveTwoCards ==
    letter = "wait" /\ bishop = Nobody => Len(info[current].hand) = 2

\* The game comes to its end although nobody plays.
LetterEnds == <>(letter = "done")

=============================================================================
