------------------------------ MODULE CrowdGame ------------------------------
(***************************************************************************)
(* The game "crowd" (MainStage and RoundStage of games/crowd/mygame.cc and  *)
(* specialRule of rules.h) on the framework's rules for a stage: it is over *)
(* once nobody has to be waited for.  What calc does to the scores is       *)
(* module Crowd.                                                            *)
(***************************************************************************)
EXTENDS Crowd

CONSTANTS
    Seats,      \* number of players, at least 4 (AdaptOptions)
    Machines,   \* those of them that are computers
    Asked,      \* the questions that may be drawn
    Letters,    \* the options that players try
    Expects,    \* and those that computers choose
    Turns,      \* option: number of rounds
    Rules       \* option: the special rule, one of these

VARIABLES
    stage,      \* "begin", "wait" for requests, "over", or "done"
    turn,       \* round_
    rule,       \* the option, which does not change
    question,   \* the question of the round
    used,       \* the questions drawn before
    people,     \* players; last is their lastScore
    ready,      \* the masker
    gone        \* those who have left the match: the host sends nothing of theirs

crowdVars == <<stage, turn, rule, question, used, people, ready, gone>>

Everyone == 1 .. Seats

ASSUME CrowdAssumption ==
    /\ Seats \in Nat /\ Seats >= 4
    /\ Asked \subseteq 1 .. all_question_num + t_question_num
    /\ Letters \subseteq Nat /\ Expects \subseteq Nat

Mask == INSTANCE PlayerReadyMasker WITH Players <- Everyone

NewPlayer == [select |-> 0, lastSelect |-> -1, score |-> 0, last |-> 0]

CrowdTypeOK ==
    /\ stage \in {"begin", "wait", "over", "done"}
    /\ turn \in 1 .. Turns + 1
    /\ rule \in Rules
    /\ question \in Asked \cup {0}
    /\ used \subseteq Asked
    /\ people \in [Everyone -> [select : 0 .. 25, lastSelect : -1 .. 25, score : Int,
                                last : Int]]
    /\ ready \in Mask!Masker
    /\ gone \subseteq Everyone

\* FirstStageFsm
CrowdInit ==
    /\ stage = "begin" /\ turn = 1
    /\ rule \in Rules
    /\ question = 0 /\ used = {}
    /\ people = [p \in Everyone |-> NewPlayer]
    /\ ready = Mask!NewMasker
    /\ gone = {}

\* AtomicStage::Handle_
SettleRound(m) == stage' = IF Mask!Ok(m) THEN "over" ELSE "wait"

\* OnStageBegin.  A question is drawn until one comes that was not used; after a
\* thousand draws the last one is taken, and the used ones are forgotten.
BeginRound ==
    /\ stage = "begin"
    /\ \E q \in Asked :
          /\ question' = q
          /\ \/ q \notin used /\ used' = used \cup {q}
             \/ used # {} /\ used' = {q}
    /\ SettleRound(ready)
    /\ UNCHANGED <<turn, rule, people, ready, gone>>

\* Submit_ in private; the refusals, but for the activation of its sender.
Refused(p, o) ==
    \/ ready.ready[p]
    \/ o + 1 > Options(question, Seats)
    \/ rule = 9 /\ people[p].lastSelect = o

Present(p) == p \notin Machines \cup gone

Submit(p, o) ==
    /\ stage = "wait" /\ Present(p)
    /\ LET m == Mask!SetActive(ready, p)
       IN  IF Refused(p, o) THEN ready' = m /\ UNCHANGED people
           ELSE /\ ready' = Mask!SetReady(m, p)
                /\ people' = [people EXCEPT ![p].select = o]
    /\ SettleRound(ready')
    /\ UNCHANGED <<turn, rule, question, used, gone>>

\* OnComputerAct: a letter of expects, again after every request; the special rule is
\* not asked for.
MachineSubmits(p, o) ==
    /\ stage = "wait" /\ p \in Machines
    /\ o + 1 <= Options(question, Seats)
    /\ people' = [people EXCEPT ![p].select = o]
    /\ ready' = Mask!SilentlySetReady(ready, p)
    /\ SettleRound(ready')
    /\ UNCHANGED <<turn, rule, question, used, gone>>

\* OnPlayerLeave takes back what was submitted.
LeaveGame(p) ==
    /\ stage = "wait" /\ Present(p)
    /\ people' = [people EXCEPT ![p].select = 0]
    /\ ready' = Mask!SetPermanentInactive(ready, p)
    /\ gone' = gone \cup {p}
    /\ SettleRound(ready')
    /\ UNCHANGED <<turn, rule, question, used>>

\* Slip: the special rule is forgotten.
DefaultSelectFirst(p) == 0

\* Who has not submitted has chosen the first option, or else the second.
DefaultSelect(p) == IF rule = 9 /\ p.lastSelect = 0 THEN 1 ELSE 0

Defaulted ==
    [p \in Everyone |-> IF ready.ready[p] THEN people[p]
                        ELSE [people[p] EXCEPT !.select = DefaultSelect(people[p])]]

\* specialRule at the end of a round, on the scores s and what was selected.
RoundEnd(s, select) ==
    LET hi == Max({s[p] : p \in Everyone})
        lo == Min({s[p] : p \in Everyone})
        changed(p) ==
            CASE rule = 2 /\ s[p] = hi -> s[p] + U
              [] rule = 3 /\ s[p] = hi -> s[p] - 2 * U
              [] rule = 4 /\ s[p] = hi -> lo
              [] rule = 4 /\ s[p] # hi /\ s[p] = lo -> hi
              [] rule = 6 /\ s[p] > 7 * U -> s[p] - 7 * U
              [] rule = 7 /\ select[p] = 0 -> s[p] + Half
              [] OTHER -> s[p]
    IN  [p \in Everyone |-> changed(p)]

\* calc of RoundStage: what everybody is after the choices P, with the scores s of the
\* question.
Counted(P, s) ==
    [p \in Everyone |-> [select |-> P[p].select, lastSelect |-> P[p].select,
                         score |-> RoundEnd(s, [q \in Everyone |-> P[q].select])[p],
                         last |-> P[p].score]]
Outcomes(P) ==
    {Calc(question, [p \in Everyone |->
                        [score |-> P[p].score, select |-> P[p].select, last |-> P[p].last]],
          chance) : chance \in Chances(question, CountChoices(P, Options(question, Seats)))}

\* specialRule at the end of the game.
GameEnd(P) ==
    [p \in Everyone |->
        [P[p] EXCEPT !.score = CASE rule = 5 -> -@
                                 [] rule = 8 /\ @ = 0 -> 100 * U
                                 [] OTHER -> @]]

\* Slip: one round too many.
EndRoundLate(m) ==
    /\ \E scores \in Outcomes(Defaulted) : people' = Counted(Defaulted, scores)
    /\ turn' = turn + 1
    /\ stage' = IF turn > Turns THEN "done" ELSE "begin"
    /\ ready' = Mask!ClearReady(m)
    /\ UNCHANGED <<rule, question, used, gone>>

\* OnStageOver, or OnStageTimeout; then CheckoutSubStage_ and NextStageFsm.
EndRound(m) ==
    /\ \E scores \in Outcomes(Defaulted) : \E counted \in {Counted(Defaulted, scores)} :
          people' = IF turn + 1 > Turns THEN GameEnd(counted) ELSE counted
    /\ turn' = turn + 1
    /\ stage' = IF turn + 1 > Turns THEN "done" ELSE "begin"
    /\ ready' = Mask!ClearReady(m)
    /\ UNCHANGED <<rule, question, used, gone>>

RoundOver == stage = "over" /\ EndRound(ready)

\* HookUnreadyPlayers comes before calc.
RoundTimeout ==
    /\ stage = "wait"
    /\ EndRound(Mask!SetTemporaryInactive(ready, {p \in Everyone : ~ready.ready[p]}))

CrowdNext ==
    \/ BeginRound \/ RoundOver \/ RoundTimeout
    \/ \E p \in Everyone :
          \/ \E o \in Letters : Submit(p, o)
          \/ \E o \in Expects : MachineSubmits(p, o)
          \/ LeaveGame(p)

CrowdSpec == CrowdInit /\ [][CrowdNext]_crowdVars

-----------------------------------------------------------------------------
(* Properties.                                                              *)

\* Whatever was submitted, taken back or left open, and whoever timed out, the choice
\* a player is given points for is an option of the question of this round, and under
\* special rule 9 not the option a player who is still there had the round before.
ChoicesAreLegal ==
    [][turn' # turn =>
        \A p \in Everyone :
            /\ people'[p].lastSelect < Options(question, Seats)
            /\ rule = 9 /\ Present(p) => people'[p].lastSelect # people[p].lastSelect]_crowdVars

\* As the special rule itself is worded, for all players: nobody chooses the same option in
\* two rounds that follow each other.  Those who leave and computers do: this is false, and
\* no run checks it.
NobodyStaysPut ==
    [][turn' # turn /\ rule = 9 =>
        \A p \in Everyone : people'[p].lastSelect # people[p].lastSelect]_crowdVars

=============================================================================
