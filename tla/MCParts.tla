------------------------------- MODULE MCParts -------------------------------
(***************************************************************************)
(* The parts that run by themselves, checked side by side: part names the   *)
(* one that moves, and the others keep their state.                         *)
(***************************************************************************)
EXTENDS InterruptVote, MatchTimer, ScoreCalculation, BetPool, Frames, Commands,
        CrowdTests, HpKillerTests, BiddingPoker, CrowdGame, Records, BotOptions

CONSTANTS Guests, Hearts,
          Gamblers, Androids, Chips, BaseEvery, Deals, Survivors, IntMax,
          Hunts, Threads, Public, Humans

MCGameScores == {0, 1, 2, 5, 40, -7}

\* Three cards, two of them in one lot.
MCFirstItems == {{1, 2}, {3}}

\* Scores and last scores in halves: two leaders, one below 0 and one who has just won
\* a lot; and six players at the beginning.
MCTables ==
    {<<[score |-> 10, last |-> 2], [score |-> 10, last |-> 2],
       [score |-> -5, last |-> 4], [score |-> 2, last |-> 8]>>,
     [i \in 1 .. 6 |-> [score |-> 0, last |-> 0]]}

\* Won and lost.
MCGains == {1, -1}

\* Decks of seven cards in which every card occurs.
Letter(kind, n) == [kind |-> kind, n |-> n]
MCShuffles ==
    {<<Letter("priest", 1), Letter("guard", 1), Letter("king", 1), Letter("assassin", 1),
       Letter("baron", 1), Letter("prince", 1), Letter("countess", 1)>>,
     <<Letter("guard", 1), Letter("bishop", 1), Letter("princess", 1), Letter("handmaid", 1),
       Letter("sycophant", 1), Letter("jester", 1), Letter("constable", 1)>>,
     <<Letter("baroness", 1), Letter("count", 1), Letter("cardinal", 1), Letter("sycophant", 1),
       Letter("dowager", 1), Letter("prince", 1), Letter("bishop", 1)>>,
     <<Letter("prince", 1), Letter("bishop", 1), Letter("constable", 1), Letter("sycophant", 1),
       Letter("guard", 1), Letter("princess", 1), Letter("guard", 2)>>}

MCHunts == HuntTests \o HuntGames

MCBaseBets == <<1, 2>>

\* Nothing, the result, a payload with a byte 0 and one that is too long.
MCPayloads == {<<>>, <<1>>, <<0, 1>>, <<1, 1, 0>>}
MCResult == <<1>>

\* One game speaks at length, the other draws a picture or says nothing.
Said(kind, of) == [kind |-> kind, of |-> of]
MCFragments ==
    "long" :> {Said("player", <<"h1">>), Said("player", <<"r1">>),
               Said("markdown", <<"A">>), Said("markdown", <<"B">>)}
    @@ "short" :> {Said("markdown", <<"C">>), Said("text", <<>>)}
MCChannels ==
    "long" :> {[to |-> "broadcast"], [to |-> "reply"], [to |-> "tell", pid |-> "h2"]}
    @@ "short" :> {[to |-> "broadcast"]}
MCMaxGuards == "long" :> 2 @@ "short" :> 1

VARIABLES
    part,                                                   \* which one it is
    number, seats, outcome,                                 \* CrowdTable
    letter, deck, burn, removed, guest, current, first,     \* LoveLetter
    sycophant, bishop, heeded, absent, disturbed,
    table, raising, deal, shown, account, top, least, most, \* Holdem
    lost, prompt,
    hunt, cast, bout, fallen, awake, hour, line, retort,    \* HpKiller
    call, frames, collected, sending, picture, said, seen   \* Messages

Table == INSTANCE CrowdTable WITH Tables <- MCTables
Love == INSTANCE LoveLetter WITH Shuffles <- MCShuffles, info <- guest
Hold == INSTANCE Holdem WITH BaseBets <- MCBaseBets
ASSUME MCHoldemAssumption == Hold!HoldemAssumption
ASSUME MCLetterAssumption == Love!LetterAssumption

Hunt == INSTANCE HpKiller
ASSUME MCHuntAssumption == Hunt!HuntAssumption
Talk == INSTANCE Messages
            WITH Fragments <- MCFragments, Channels <- MCChannels,
                 MaxGuards <- MCMaxGuards, MaxFragments <- MCMaxGuards, shown <- seen

tableVars == <<number, seats, outcome>>
letterVars == <<letter, deck, burn, removed, guest, current, first, sycophant,
                bishop, heeded, absent, disturbed>>
holdemVars == <<table, raising, deal, shown, account, top, least, most, lost, prompt>>
huntVars == <<hunt, cast, bout, fallen, awake, hour, line, retort>>
talkVars == <<call, frames, collected, sending, picture, said, seen>>

allVars == <<part, voteVars, timerVars, scoreVars, betVars,
             bidVars, crowdVars, tableVars, recordVars, optionVars,
             letterVars, holdemVars, huntVars, commandVars, frameVars, talkVars>>

MCInit ==
    /\ part \in {"vote", "timer", "score", "bets", "poker", "game", "table",
                 "records", "options", "letter", "holdem", "killer", "commands", "frames",
                 "messages"}
    /\ VoteInit /\ TimerInit /\ ScoreInit /\ BetInit
    /\ BidInit /\ CrowdInit
    /\ Table!TableInit
    /\ RecordsInit /\ OptionsInit
    /\ Love!LetterInit /\ Hold!HoldemInit
    /\ \/ part = "killer" /\ Hunt!HuntInit
       \/ /\ part # "killer"
          /\ hunt = 0 /\ cast = 0 /\ bout = 0 /\ fallen = 0
          /\ awake = 0 /\ hour = 0 /\ line = 0 /\ retort = 0
    /\ CommandsInit /\ FramesInit /\ Talk!MessagesInit
    /\ part # "table" => Len(seats) = 4
    /\ part # "game" => rule = CHOOSE r \in Rules : TRUE

MCNext ==
    /\ part' = part
    /\ \/ part = "vote" /\ VoteNext
       \/ part # "vote" /\ UNCHANGED voteVars
    /\ \/ part = "timer" /\ TimerNext
       \/ part # "timer" /\ UNCHANGED timerVars
    /\ \/ part = "score" /\ ScoreNext
       \/ part # "score" /\ UNCHANGED scoreVars
    /\ \/ part = "bets" /\ BetNext
       \/ part # "bets" /\ UNCHANGED betVars
    /\ \/ part = "poker" /\ BidNext
       \/ part # "poker" /\ UNCHANGED bidVars
    /\ \/ part = "game" /\ CrowdNext
       \/ part # "game" /\ UNCHANGED crowdVars
    /\ \/ part = "table" /\ Table!TableNext
       \/ part # "table" /\ UNCHANGED tableVars
    /\ \/ part = "records" /\ RecordsNext
       \/ part # "records" /\ UNCHANGED recordVars
    /\ \/ part = "options" /\ OptionsNext
       \/ part # "options" /\ UNCHANGED optionVars
    /\ \/ part = "letter" /\ Love!LetterNext
       \/ part # "letter" /\ UNCHANGED letterVars
    /\ \/ part = "holdem" /\ Hold!HoldemNext
       \/ part # "holdem" /\ UNCHANGED holdemVars
    /\ \/ part = "killer" /\ Hunt!HuntNext
       \/ part # "killer" /\ UNCHANGED huntVars
    /\ \/ part = "commands" /\ CommandsNext
       \/ part # "commands" /\ UNCHANGED commandVars
    /\ \/ part = "frames" /\ FramesNext
       \/ part # "frames" /\ UNCHANGED frameVars
    /\ \/ part = "messages" /\ Talk!MessagesNext
       \/ part # "messages" /\ UNCHANGED talkVars

\* The steps that the program takes by itself in the games that come to an end.
MCSteps ==
    \/ part = "poker" /\ (Internal \/ Timeout)
    \/ part = "letter" /\ (Love!LetterInternal \/ Love!LetterTimeout)
    \/ part = "holdem" /\ Hold!HoldemInternal
    \/ part = "killer" /\ Hunt!RoundEnds

MCEnded ==
    /\ part = "poker" => phase = "done"
    /\ part = "letter" => letter = "done"
    /\ part = "holdem" => Hold!HoldemOver
    /\ part = "killer" /\ Hunt!Free => hour = "done"

MCSpec == /\ MCInit /\ [][MCNext]_allVars
          /\ []<>MCEnded \/ []<><<MCSteps>>_allVars

-----------------------------------------------------------------------------
(* Properties of the parts that have a name of their own here.              *)

\* The types of all parts (in CrowdTable there is nothing but scores, in Commands nothing
\* but what was said).
PartTypesOK ==
    CASE part = "vote" -> VoteTypeOK
      [] part = "timer" -> TimerTypeOK
      [] part = "score" -> ScoreTypeOK
      [] part = "bets" -> BetTypeOK
      [] part = "poker" -> BidTypeOK
      [] part = "game" -> CrowdTypeOK
      [] part = "records" -> RecordsTypeOK
      [] part = "options" -> OptionsTypeOK
      [] part = "letter" -> Love!LetterTypeOK
      [] part = "holdem" -> Hold!HoldemTypeOK
      [] part = "killer" -> Hunt!HuntTypeOK
      [] part = "frames" -> FramesTypeOK
      [] OTHER -> TRUE

\* The games come to their end although nobody does anything.
GameEnds == <>MCEnded

\* BetPool, BiddingPoker, Holdem: the bets of a pool, the coins and the chips of a game are
\* shared out to the last one, each pot among those who paid for it, but for what is
\* announced as lost; in Holdem who has to follow is behind, and nobody else, until a sum
\* of chips overflows, which only that of a raise can.
\* CrowdTable: no choice of the players makes a score infinite or undefined, and those
\* with the same scores who choose the same score the same.  What the game's own tests
\* expect of a question is what it does.  LoveLetter: whatever is swapped, discarded or
\* left over, each card is in exactly one place, and who is asked has what he needs to
\* answer.  HpKiller: whom the round waits for can act, the verdict follows from who has
\* lost when, and every line of the game's own tests is answered as expected.
TableIsFair ==
    /\ part = "bets" => PotsAreTheLevels
    /\ part = "poker" => ScoresShareOutAll
    /\ part = "holdem" => Hold!ChipsFit /\ Hold!ChipsArePaidOut /\ Hold!StakesAreLevel
    /\ part = "table" => Table!ScoresStayFinite /\ Table!AlikeIsTreatedAlike /\ Table!AsTested
    /\ part = "letter" => Love!EveryLetterOnce /\ Love!HandsAreRight
    /\ part = "killer" => Hunt!TheActiveCanAct /\ Hunt!VerdictsStand /\ Hunt!HuntAsTested

\* Commands: a message is given to the first command whose format it has, with the
\* arguments that its words stand for, and the examples that are shown are understood if
\* they are made of single words.
\* Messages: everybody reads what was said to him, in order and each message with its own
\* last picture, whatever other matches say.
SaidIsHeard ==
    /\ part = "commands" => FormatsAreKept /\ ExamplesAreRead
    /\ part = "messages" => Talk!EverybodyReadsAll

=============================================================================
