-------------------------------- MODULE Holdem --------------------------------
(***************************************************************************)
(* The game "holdem_poker" (games/holdem_poker/mygame.cc): all players bet   *)
(* at once and in secret, and whoever is behind the highest bet has to       *)
(* follow, raise or fold, until nobody is behind.  Cards are as strong as    *)
(* they are: only their order counts, and it is drawn when they are opened.  *)
(***************************************************************************)
EXTENDS Integers, Sequences, FiniteSets, FiniteSetsExt, Functions

CONSTANTS
    Gamblers,   \* the players
    Androids,   \* those of them that are computers
    Chips,      \* option: chips of a player at the beginning
    BaseBets,   \* option: the base bets, one after the other
    BaseEvery,  \* option: rounds until the next one
    Deals,      \* option: rounds of the game
    Survivors,  \* option: with so many players left the game ends
    IntMax      \* the greatest number of chips a message can name: that of an int32_t

\* The ranges of the options, where it matters: all chips together and a base bet are far
\* fewer than IntMax.  Without a base bet no game starts (AdaptOptions).
HoldemAssumption ==
    /\ IsFiniteSet(Gamblers)
    /\ Chips \in Nat
    /\ BaseBets \in Seq(Nat \ {0}) /\ BaseBets # <<>>
    /\ BaseEvery \in Nat \ {0} /\ Deals \in Nat \ {0} /\ Survivors \in Nat
    /\ IntMax \in Nat
    /\ \A i \in DOMAIN BaseBets : BaseBets[i] + Chips * Cardinality(Gamblers) <= IntMax

VARIABLES
    table,   \* "deal", "begin", "wait" for requests, "over", "next", "round", "done",
             \* or "spoilt": a sum of chips has overflowed
    raising, \* RaiseStage or BetStage
    deal,    \* round_
    shown,   \* open_public_cards_num_
    account, \* player_chip_infos_: chips that remain, chips that are bet, folded or not
    top,     \* bet_chips_, the highest bet
    least,   \* raise_chips_, what has to be raised at least
    most,    \* max_raise_chips_ of the stage
    lost,    \* chips lost in pots that cannot be divided, in the whole game
    prompt   \* the masker

holdemVars == <<table, raising, deal, shown, account, top, least, most, lost, prompt>>

M == INSTANCE PlayerReadyMasker WITH Players <- Gamblers

Total(f) == FoldFunction(+, 0, f)
BetOf(a) == [p \in Gamblers |-> a[p].bet]

\* BestOf and the pots by levels as in BetPool, for who has not folded.
PotLevels(a) == {a[p].bet : p \in Gamblers} \ {0}
StrengthIn(a, strength, p) == IF a[p].fold THEN 0 ELSE strength[p]

\* CallBetPool: what lies between a level and the next lower one is won by the best.
PotAt(a, strength, level) ==
    LET below == Max({0} \cup {l \in PotLevels(a) : l < level})
        S == {p \in Gamblers : a[p].bet >= level}
    IN  [sum |-> (level - below) * Cardinality(S),
         winners |-> {p \in S : \A q \in S : StrengthIn(a, strength, q)
                                                <= StrengthIn(a, strength, p)}]

HoldemInit ==
    /\ table = "deal" /\ raising = FALSE
    /\ deal = 1 /\ shown = 0
    /\ account = [p \in Gamblers |-> [remain |-> Chips, bet |-> 0, fold |-> FALSE]]
    /\ top = 0 /\ least = 0 /\ most = 0 /\ lost = 0
    /\ prompt = M!NewMasker

-----------------------------------------------------------------------------
(* RoundStage.                                                              *)

Base == LET at == (deal - 1) \div BaseEvery + 1
        IN  IF at > Len(BaseBets) THEN BaseBets[Len(BaseBets)] ELSE BaseBets[at]

\* Consume
Consumed(c, n) == [c EXCEPT !.bet = @ + n, !.remain = @ - n]

\* AchieveMaxBet
AchievesMax(c, max) == c.remain = 0 \/ c.bet = max \/ c.fold

\* TryOpenCard_ goes on: at most one player can still act, or all cards are shown.
Opens(a, n) ==
    LET out == {p \in Gamblers : a[p].fold \/ a[p].remain = 0}
    IN  Cardinality(out) >= Cardinality(Gamblers) - 1 \/ n >= 5

\* All pots, or everything for the only one who is left.
Pots(a, strength) ==
    LET in == {q \in Gamblers : ~a[q].fold}
    IN  IF Cardinality(in) = 1 THEN [all \in {0} |-> [sum |-> Total(BetOf(a)), winners |-> in]]
        ELSE [level \in PotLevels(a) |-> PotAt(a, strength, level)]

Share(pot) == pot.sum \div Cardinality(pot.winners)
Gain(pots, p) ==
    Total([l \in DOMAIN pots |-> IF p \in pots[l].winners THEN Share(pots[l]) ELSE 0])

\* lost_chips: what cannot be divided, counted once for each winner.
LostIn(pots) ==
    LET w(l) == Cardinality(pots[l].winners)
    IN  Total([l \in DOMAIN pots |-> w(l) * (pots[l].sum % w(l))])

PaidOut(a, pots) ==
    [p \in Gamblers |-> LET rest == a[p].remain + Gain(pots, p)
                        IN  [remain |-> rest, bet |-> 0, fold |-> rest = 0]]

\* Slip: only the highest pot is paid out.
OpenCardsOnce(a) ==
    \E strength \in [Gamblers -> 1 .. 2] :
        LET pots == Pots(a, strength)
            high == [l \in {Max(DOMAIN pots)} |-> pots[l]]
        IN  /\ account' = PaidOut(a, high)
            /\ lost' = lost + LostIn(high)
            /\ prompt' = FoldSet(LAMBDA p, n : M!SetPermanentInactive(n, p), prompt,
                                 {p \in Gamblers : account'[p].fold /\ a[p].bet > 0})
            /\ table' = "round"

\* The rest of TryOpenCard_, and Reset: the chips are paid out and the bets taken back;
\* who has none left is eliminated.
OpenCards(a) ==
    \E strength \in [Gamblers -> 1 .. 2] :
        LET pots == Pots(a, strength)
        IN  /\ account' = PaidOut(a, pots)
            /\ lost' = lost + LostIn(pots)
            /\ prompt' = FoldSet(LAMBDA p, n : M!SetPermanentInactive(n, p), prompt,
                                 {p \in Gamblers : account'[p].fold /\ a[p].bet > 0})
            /\ table' = "round"

\* RoundStage and its FirstStageFsm: everybody bets the base bet, or what he has.
BeginDeal ==
    /\ table = "deal"
    /\ LET a == [p \in Gamblers |-> Consumed(account[p], Min({Base, account[p].remain}))]
       IN  IF Opens(a, 0) THEN OpenCards(a)
           ELSE /\ account' = a /\ table' = "begin"
                /\ UNCHANGED <<lost, prompt>>
    /\ top' = Base /\ least' = Base /\ most' = 0
    /\ shown' = 0 /\ raising' = FALSE
    /\ UNCHANGED deal

-----------------------------------------------------------------------------
(* BetStage and RaiseStage.                                                 *)

\* AtomicStage::Handle_.
Settle(m) == prompt' = m /\ table' = IF M!Ok(m) THEN "over" ELSE "wait"

\* OnStageBegin: who cannot or need not act is ready.
BeginStage ==
    /\ table = "begin"
    /\ LET idle == {p \in Gamblers :
                      IF raising THEN AchievesMax(account[p], top)
                      ELSE account[p].remain = 0 \/ account[p].fold}
       IN  Settle(FoldSet(LAMBDA p, m : M!SetReady(m, p), M!ClearReady(prompt), idle))
    /\ most' = 0
    /\ UNCHANGED <<raising, deal, shown, account, top, least, lost>>

MayAct(p) == table = "wait" /\ ~prompt.ready[p] /\ prompt.active[p] # "PERMANENTLY_INACTIVE"

\* A request of the user is READY; a computer is ready silently.
Acted(p) ==
    /\ IF p \in Androids THEN Settle(M!SilentlySetReady(prompt, p))
                         ELSE Settle(M!SetReady(M!SetActive(prompt, p), p))
    /\ UNCHANGED <<raising, deal, shown, top, least, lost>>

\* AllIn_ of either stage: what goes beyond the highest bet raises it.
AllIn(p) ==
    /\ MayAct(p) /\ p \notin Androids
    /\ most' = Max({most, account[p].remain + (IF raising THEN account[p].bet - top ELSE 0)})
    /\ account' = [account EXCEPT ![p] = Consumed(@, @.remain)]
    /\ Acted(p)

\* offset_chips, before it is squeezed into an int32_t.
Offset(p, n) == top + n - account[p].bet

\* Raise_: at least so much as was raised before, or everything.
Raise(p, n) ==
    /\ MayAct(p) /\ raising
    /\ p \in Androids => n >= least
    /\ Offset(p, n) <= account[p].remain
    /\ Offset(p, n) = account[p].remain \/ n >= least
    /\ account' = [account EXCEPT ![p] = Consumed(@, Offset(p, n))]
    /\ most' = Max({most, n})
    /\ Acted(p)

\* A number of twice the range as the int32_t that the build makes of it.
Int32(n) == IF n > IntMax THEN n - 2 * (IntMax + 1)
            ELSE IF n < - IntMax - 1 THEN n + 2 * (IntMax + 1) ELSE n

\* Raise_, where the offset is more than an int32_t: it comes out negative, which is
\* less than what the player has, and is consumed.  (Undefined in C++, wrapped by the
\* build.)  What follows overflows again and is left out.  A computer names small numbers.
RaiseOverflows(p, n) ==
    /\ MayAct(p) /\ raising /\ p \notin Androids
    /\ Offset(p, n) > IntMax
    /\ Int32(Offset(p, n)) <= account[p].remain
    /\ Int32(Offset(p, n)) = account[p].remain \/ n >= least
    /\ LET c == Consumed(account[p], Int32(Offset(p, n)))
       IN  account' = [account EXCEPT ![p] = [c EXCEPT !.remain = Int32(@), !.bet = Int32(@)]]
    /\ most' = Max({most, n})
    /\ table' = "spoilt"
    /\ UNCHANGED <<raising, deal, shown, top, least, lost, prompt>>

\* Call_: what is missing, or everything.
Call(p) ==
    /\ MayAct(p) /\ raising
    /\ account' = [account EXCEPT ![p] = Consumed(@, Min({@.remain, top - @.bet}))]
    /\ most' = most
    /\ Acted(p)

Fold(p) ==
    /\ MayAct(p) /\ raising
    /\ account' = [account EXCEPT ![p].fold = TRUE]
    /\ most' = most
    /\ Acted(p)

\* Bet_: a multiple of the base bet, or everything; a computer bets the base bet.
Bet(p, n) ==
    /\ MayAct(p) /\ ~raising
    /\ n <= account[p].remain /\ (n = account[p].remain \/ n % Base = 0)
    /\ p \in Androids => n = Base
    /\ account' = [account EXCEPT ![p] = Consumed(@, n)]
    /\ most' = Max({most, n})
    /\ Acted(p)

Check(p) ==
    /\ MayAct(p) /\ ~raising
    /\ UNCHANGED <<account, most>>
    /\ Acted(p)

\* HandleLeave.
GamblerLeaves(p) ==
    /\ table = "wait" /\ prompt.active[p] # "PERMANENTLY_INACTIVE"
    /\ p \notin Androids
    /\ Settle(M!SetPermanentInactive(prompt, p))
    /\ UNCHANGED <<raising, deal, shown, account, top, least, most, lost>>

\* OnStageOver and OnStageTimeout: who has not acted folds, or checks, and is hooked.
CloseStage ==
    /\ table \in {"over", "wait"}
    /\ LET late == {p \in Gamblers : ~prompt.ready[p]}
       IN  /\ account' = [p \in Gamblers |->
                  IF raising /\ p \in late THEN [account[p] EXCEPT !.fold = TRUE]
                                           ELSE account[p]]
           /\ prompt' = M!SetTemporaryInactive(prompt, late)
    /\ table' = "next"
    /\ UNCHANGED <<raising, deal, shown, top, least, most, lost>>

\* NextSubStage_ of RoundStage: on until nobody is behind, then the next cards.
NextStage ==
    /\ table = "next"
    /\ top' = top + most
    /\ least' = Max({least, most})
    /\ most' = 0
    /\ IF most > 0 /\ \E p \in Gamblers : ~AchievesMax(account[p], top + most)
       THEN /\ raising' = TRUE /\ table' = "begin"
            /\ UNCHANGED <<shown, account, lost, prompt>>
       ELSE IF Opens(account, shown)
            THEN OpenCards(account) /\ UNCHANGED <<shown, raising>>
            ELSE /\ raising' = FALSE /\ table' = "begin"
                 /\ shown' = IF shown = 0 THEN 3 ELSE shown + 1
                 /\ UNCHANGED <<account, lost, prompt>>
    /\ UNCHANGED deal

\* NextSubStage_ of MainStage.
NextDeal ==
    /\ table = "round"
    /\ IF \/ Cardinality({p \in Gamblers : account[p].remain > 0}) <= Survivors
          \/ deal = Deals
       THEN table' = "done" /\ deal' = deal
       ELSE table' = "deal" /\ deal' = deal + 1
    /\ UNCHANGED <<raising, shown, account, top, least, most, lost, prompt>>

HoldemInternal == BeginDeal \/ BeginStage \/ CloseStage \/ NextStage \/ NextDeal

HoldemNext ==
    \/ HoldemInternal
    \/ \E p \in Gamblers :
          \/ \E n \in 1 .. IntMax : Raise(p, n) \/ RaiseOverflows(p, n) \/ Bet(p, n)
          \/ AllIn(p) \/ Call(p) \/ Fold(p) \/ Check(p) \/ GamblerLeaves(p)

\* The game is over, or the model follows it no further.
HoldemOver == table \in {"done", "spoilt"}

\* As in BiddingPoker: time passes (CloseStage), nobody has to bet.
HoldemFairness == \/ []<>HoldemOver
                  \/ []<><<HoldemInternal>>_holdemVars

HoldemSpec == HoldemInit /\ [][HoldemNext]_holdemVars /\ HoldemFairness

-----------------------------------------------------------------------------
(* Properties.                                                              *)

HoldemTypeOK ==
    /\ table \in {"deal", "begin", "wait", "over", "next", "round", "done", "spoilt"}
    /\ deal \in 1 .. Deals /\ shown \in {0, 3, 4, 5} /\ raising \in BOOLEAN
    /\ \A p \in Gamblers : account[p].remain \in Int /\ account[p].bet \in Int
    /\ top \in Nat /\ least \in Nat /\ most \in Nat
    /\ prompt \in M!Masker

\* Until a raise overflows no other sum does, whatever is raised, won and lost in the
\* rounds before: all numbers of chips stay in the range of an int32_t.
ChipsFit ==
    table # "spoilt" =>
        /\ \A p \in Gamblers : account[p].remain \in 0 .. IntMax /\ account[p].bet \in 0 .. IntMax
        /\ top + most <= IntMax /\ least <= IntMax

\* Until a raise overflows no chip is made, and none vanishes but the remainders that are
\* announced.
ChipsArePaidOut ==
    LET missing == Chips * Cardinality(Gamblers)
                     - Total([p \in Gamblers |-> account[p].remain + account[p].bet])
    IN  table # "spoilt" => missing >= 0 /\ missing <= lost /\ (lost > 0 => missing > 0)

\* Somebody is always in, with the highest bet of all or all he has; when a stage of
\* betting begins nobody else is behind it; and who has to follow or fold is behind.
StakesAreLevel ==
    table \in {"begin", "wait", "over", "next"} =>
        /\ \E p \in Gamblers : ~account[p].fold
        /\ \A p \in Gamblers : account[p].bet <= top + most
        /\ \E p \in Gamblers : ~account[p].fold /\ account[p].bet = top + most
        /\ table = "begin" /\ ~raising =>
               \A p \in Gamblers : AchievesMax(account[p], top)
        /\ table = "wait" /\ raising =>
               \A p \in Gamblers : ~prompt.ready[p] => account[p].bet < top

\* Who has not enough chips is refused, as the tests of the game expect: nobody has bet
\* or has left what he never had.
NotEnoughIsRefused ==
    \A p \in Gamblers : account[p].bet >= 0 /\ account[p].remain \in 0 .. Chips * Cardinality(Gamblers)

\* The game comes to its end although nobody bets.
HoldemEnds == <>HoldemOver

=============================================================================
