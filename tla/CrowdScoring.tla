---------------------------- MODULE CrowdScoring ----------------------------
(***************************************************************************)
(* What the questions of the game "crowd" share (class Question in          *)
(* games/crowd/problems.h).  Points are counted in parts of 1/U, and a      *)
(* quotient is cut off there, where the code has doubles.                   *)
(*                                                                          *)
(* c is optionCount, so that c[1] counts those who chose A; v is what else  *)
(* calc reads.                                                              *)
(***************************************************************************)
EXTENDS Integers, Sequences, FiniteSets, SequencesExt, FiniteSetsExt

U == 120
Half == U \div 2
Tenth == U \div 10
Quarter == U \div 4

\* An infinity or a NaN, and the numbers that are none.
Endless == 1000000000
IsNumber(x) == x \in -(Endless \div 2) .. (Endless \div 2)

\* a / b for b > 0, rounded toward zero.
Quot(a, b) == IF a >= 0 THEN a \div b ELSE -((-a) \div b)

\* The double division x / k by a count.
Over(x, k) == IF k = 0 THEN Endless ELSE Quot(x, k)

When(condition, x) == IF condition THEN x ELSE 0

Abs(x) == IF x < 0 THEN -x ELSE x

\* A draw of rand() % m, the lowest or the highest: whether the k-th is below x.
Draw(v, k, m, x) == IF v.low[k] THEN x > 0 ELSE x > m - 1

Chosen(c) == {i \in DOMAIN c : c[i] > 0}

\* optionCount.
CountChoices(P, options) ==
    [i \in 1 .. options |-> Cardinality({p \in DOMAIN P : P[p].select = i - 1})]

\* The scores in ascending order.
Ranked(P) ==
    [k \in 1 .. Len(P) |->
        CHOOSE s \in {P[p].score : p \in DOMAIN P} :
            /\ Cardinality({p \in DOMAIN P : P[p].score < s}) < k
            /\ Cardinality({p \in DOMAIN P : P[p].score <= s}) >= k]

\* init
Median(P) ==
    LET s == Ranked(P)
        n == Len(P)
    IN  IF n % 2 = 0 THEN Quot(s[n \div 2] + s[n \div 2 + 1], 2) ELSE s[n \div 2 + 1]

\* init and initCalc; low, top and garbage are what the program leaves to chance.
View(P, c, chance) ==
    [n |-> Len(P), P |-> P,
     hi |-> Max({P[p].score : p \in DOMAIN P}),
     lo |-> Min({P[p].score : p \in DOMAIN P}),
     med |-> Median(P),
     mx |-> Max({c[i] : i \in DOMAIN c}),
     mn |-> Min({c[i] : i \in DOMAIN c}),
     nz |-> Min({c[i] : i \in Chosen(c)}),
     low |-> chance.low, top |-> chance.top, garbage |-> chance.garbage]

\* The new score of every player, as a function of its record.
Each(v, Score(_)) == [i \in 1 .. v.n |-> Score(v.P[i])]

\* Those who chose the option with index o.
Choosers(v, o) == {i \in 1 .. v.n : v.P[i].select = o}

SumScores(v, S) == MapThenSumSet(LAMBDA i : v.P[i].score, S)

=============================================================================
