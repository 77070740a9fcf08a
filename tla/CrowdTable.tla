------------------------------ MODULE CrowdTable ------------------------------
(***************************************************************************)
(* Every question of the game "crowd" once: players with given scores, all  *)
(* their choices, everything that is left to chance, and the scores after.  *)
(***************************************************************************)
EXTENDS Crowd

CONSTANTS
    Tables,     \* sequences of [score, last], one for each player, in halves
    Expected    \* the tests of each question, as in CrowdTests

VARIABLES
    number,     \* of the question; 0 before it is asked
    seats,      \* the players: their scores and what they chose
    outcome     \* their scores after the question

tableVars == <<number, seats, outcome>>

TableInit == number = 0 /\ seats \in Tables /\ outcome = <<>>

Seat(s, o) == [score |-> s.score * Half, last |-> s.last * Half, select |-> o]

\* Where all scores are the same it does not matter who chose what.
Selections(table, options) ==
    LET first[n \in 0 .. Len(table)] ==
            IF n = 0 THEN {<<>>}
            ELSE {Append(p[1], p[2]) : p \in
                    {p \in first[n - 1] \X (0 .. options - 1) :
                        n > 1 /\ table[n] = table[n - 1] => p[1][n - 1] <= p[2]}}
    IN  first[Len(table)]

\* The players once they have chosen: those of the table with every choice, and those of
\* the game's own tests, who all begin with nothing.
EveryChoice(q) == {[i \in DOMAIN seats |-> Seat(seats[i], s[i])] :
                  s \in Selections(seats, Options(q, Len(seats)))}
Tried(test) == [i \in DOMAIN test.choices |-> Seat([score |-> 0, last |-> 0], test.choices[i])]
Beginners == \A i \in DOMAIN seats : seats[i].score = 0

Round(q) ==
    /\ number = 0
    /\ number' = q
    /\ \/ seats' \in EveryChoice(q)
       \/ Beginners /\ \E test \in Expected[q] : seats' = Tried(test)
    /\ \E chance \in Chances(q, CountChoices(seats', Options(q, Len(seats')))) :
          outcome' = Calc(q, seats', chance)

TableNext == \E q \in 1 .. all_question_num + t_question_num : Round(q)

TableSpec == TableInit /\ [][TableNext]_tableVars

-----------------------------------------------------------------------------
(* Properties.                                                              *)

\* No choice of the players makes a score infinite or undefined: what is divided among
\* those who chose an option is only given to them, and other divisors are not 0.  The
\* exception is question 86, which may pay an unassigned variable.
ScoresStayFinite ==
    number # 86 => \A i \in DOMAIN outcome : IsNumber(outcome[i])

\* Players with the same scores who choose the same come out with the same score: no
\* question treats a player by its place at the table.
AlikeIsTreatedAlike ==
    number # 0 =>
        \A i, j \in DOMAIN seats : seats[i] = seats[j] => outcome[i] = outcome[j]

\* The game's own tests agree: what they expect is what the question does to the scores
\* (dec2 rounds to hundredths, and the model to units).
Near(x, hundredths) == Abs(100 * x - U * hundredths) <= U
AsTested ==
    number # 0 =>
        \A test \in Expected[number] :
            Tried(test) = seats =>
                \A i \in DOMAIN seats : Near(outcome[i], test.points[i])

=============================================================================
