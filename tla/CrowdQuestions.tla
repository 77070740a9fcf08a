--------------------------- MODULE CrowdQuestions ---------------------------
(***************************************************************************)
(* The questions 1 to 60 of the game "crowd" (games/crowd/problems.h).      *)
(* Qk(c, v) is what calc of question k leaves in tempScore: the points for  *)
(* each option, from A.  Where calc also writes the scores of the players,  *)
(* Qk_scores(c, v) are the scores it leaves, to which the points are added. *)
(***************************************************************************)
EXTENDS CrowdScoring

Q1(c, v) == <<When(c[1] < c[2], 3 * U), When(c[2] = v.mx, 2 * U),
              IF c[3] = v.mx THEN -U ELSE U>>

Q2(c, v) == <<2 * U, When(c[2] = 2, 6 * U)>>

Q3(c, v) == <<v.n * Quarter, c[1] * Half>>

Q4(c, v) == <<U, When(c[2] = v.mx, 7 * Half), When(c[3] = v.mn, 3 * U),
              When(c[4] = 1, 5 * U), Over((v.n \div 2 + 1) * U, c[5])>>

Q5(c, v) == <<When(c[1] = 1, 4 * U), When(c[2] \in {2, 3}, 3 * U),
              When(c[3] \in {4, 5}, 2 * U), U>>

Q6(c, v) == <<When(c[1] = v.mx, -U),
              When(c[1] = v.mx, -3 * U) + When(c[2] = v.mx, 2 * U),
              When(c[2] = v.mx, U) - When(c[3] = v.mx, Half)>>

Q7(c, v) == <<0, U>>

Q7_scores(c, v) ==
    Each(v, LAMBDA p : p.score - When(c[1] >= 3 /\ p.score = v.hi, 3 * U))

Q8(c, v) == <<Over(v.n * U, c[1]), Over(((3 * v.n) \div 2) * U, c[2] + v.n \div 4)>>

Q9(c, v) == <<When(c[2] > c[3], 2 * U) - When(c[2] < c[3], 2 * U),
              When(c[2] > c[3], U), 0, When(c[2] < c[3], Half)>>

Q10(c, v) == <<IF c[2] > 0 THEN -2 * U ELSE 3 * U, -U, -Half,
               IF Draw(v, 1, 1000, 9) THEN 77 * U ELSE -6 * Tenth>>

Q11(c, v) == <<U, IF c[1] > 0 THEN 2 * U ELSE -U, When(c[2] > 0, 5 * Half),
               When(c[3] > 0, 3 * U)>>

Q12(c, v) == LET d == v.n \div 3 + 2
             IN  <<When(c[1] < c[2], 3 * U), When(c[1] < c[2], 2 * U), U,
                   When(c[4] = d, d * U)>>

Q13(c, v) == <<IF c[4] > 1 THEN -4 * U ELSE 3 * U, IF c[4] > 1 THEN -2 * U ELSE 2 * U,
               -U, -c[4] * U>>

Q14(c, v) == <<When(c[1] <= 1, 3 * U), When(c[2] <= (2 * v.n) \div 10 + 1, 2 * U),
               When(c[3] <= (3 * v.n) \div 10 + 1, U), When(c[4] <= (4 * v.n) \div 10, 2 * U)>>

Q15(c, v) == <<When(c[3] = v.mx, 2 * U) - When(c[3] = v.mn, U),
               When(c[3] = v.mn, 3 * U) - When(c[3] = v.mx, U), U>>

Q16(c, v) == <<When(c[1] > c[2], -U), When(c[2] > c[1], -U),
               When(c[1] = 0 \/ c[2] = 0, -4 * U)>>

Q17(c, v) == <<IF c[1] > c[2] + c[3] THEN -3 * U ELSE 3 * U, U,
               IF c[3] < c[1] + c[2] THEN 2 * U ELSE -U>>

\* What the third option gains replaces its share of the first sum.
Q18(c, v) ==
    LET share(i) == Over((v.n \div 3) * U, c[i])
        more(i) == Over((v.n \div 2) * U, c[i])
    IN  <<share(1) + When(3 * c[1] >= v.n, more(1)),
          share(2) + When(3 * c[1] <= v.n, more(2)),
          IF c[3] >= 2 THEN more(3) ELSE share(3)>>

Q19(c, v) == <<IF c[1] <= v.n \div 3 THEN 2 * U ELSE -U, 0,
               IF c[3] >= (3 * v.n) \div 5 THEN U ELSE -2 * U>>

\* Slip: the operands of the division are swapped.
Q20Swapped(c, v) == <<Over(c[1] * U, c[2]) + U, Over(c[3] * U, c[2]), 3 * U>>

Q20(c, v) == <<Over(c[2] * U, c[1]) + U, Over(c[3] * U, c[2]), 3 * U>>

Q21(c, v) == <<-2 * U, 0>>
Q21_scores(c, v) == Each(v, LAMBDA p : IF c[2] = v.n THEN -p.score ELSE p.score)

Q22(c, v) ==
    LET best == Max(Chosen(c))
        base == <<0, -U, -2 * U, -3 * U, -4 * U - v.n * Quarter>>
    IN  [i \in 1 .. 5 |-> base[i] + When(i = best, U + (v.n - c[i]) * Half)]

Q23(c, v) == <<U + Over(SumScores(v, Choosers(v, 0)), c[1]), 0>>
Q23_scores(c, v) == Each(v, LAMBDA p : IF p.select = 0 THEN 0 ELSE p.score)

Q24(c, v) == <<When(c[2] = v.mx, 2 * U) - When(c[1] = v.mx, 2 * U), 0,
               When(c[2] = v.mx, 2 * U) - When(c[3] = v.mx, 2 * U),
               When(c[4] = v.mx, -Half)>>

\* The option that is the average of the options chosen.
Q25(c, v) ==
    LET average == MapThenSumSet(LAMBDA i : c[i] * (i - 1), DOMAIN c) \div v.n
    IN  [i \in 1 .. 8 |-> When(i - 1 = average, average * U)]

Q26(c, v) == <<IF 2 * c[1] > v.n THEN 3 * Half ELSE -U, When(~(2 * c[2] > v.n), U),
               IF 2 * c[3] > v.n THEN -2 * U ELSE 2 * U>>

\* Downward, so that an option of the most loses half a point for the one before it
\* only if its own turn has been.
Q27(c, v) ==
    LET base == <<3 * Half, Half, U, 0>>
        most(i) == i <= 3 /\ c[i] = v.mx
    IN  [i \in 1 .. 4 |-> (IF most(i) THEN -U ELSE base[i])
                             - When(i > 1 /\ most(i - 1), Half)]

Q28(c, v) ==
    LET base == <<2 * U, U, 0, -3 * Half>>
    IN  [i \in 1 .. 4 |-> IF c[i] = v.mx THEN -base[i] ELSE base[i]]

Q29(c, v) == <<IF c[2] > c[1] THEN U ELSE Half,
               IF c[2] = v.mx THEN -Half ELSE 3 * Half,
               IF c[3] = v.mx THEN -U ELSE 2 * U,
               (IF c[3] > c[1] /\ c[3] > c[2] THEN 4 * U ELSE Half)
                   - When(c[4] = v.mx, c[4] * Half)>>

Q30(c, v) == <<0, 0, 0, 0>>
Q30_scores(c, v) ==
    Each(v, LAMBDA p :
        IF c[4] = v.mx THEN When(p.select = 3, -30 * U)
        ELSE (IF c[1] = v.mx THEN p.last - When(p.select = 0, U) ELSE p.score)
                 + When(c[2] = v.mx /\ p.select # 1, U)
                 - When(c[3] = v.mx /\ p.select = 2, Half))

\* coins is an int: it is cut off after every assignment.
Q31(c, v) ==
    LET before == (5 * v.n) \div 2 + c[2] - c[3]
        coins == Quot(2 * before - c[4] * (v.n + 4), 2)
    IN  <<-U + Over(coins * U, c[1]), Half, 0, -2 * U>>

Q32(c, v) ==
    CASE c[4] = v.mx -> <<U, 3 * U, U, 0>>
      [] c[4] # v.mx /\ c[3] = v.mx -> <<2 * U, 3 * U, U, -U>>
      [] c[4] # v.mx /\ c[3] # v.mx /\ c[2] = v.mx -> <<2 * U, -3 * U, 2 * U, 3 * U>>
      [] OTHER -> <<U, 4 * U, -U, U>>

Q33(c, v) == LET spread == v.mx - v.mn
             IN  <<When(3 * spread > v.n, U), When(3 * spread <= v.n, 3 * U),
                   When(spread <= 1, 6 * U)>>

\* coins is an int again; need is counted in halves.
Q34(c, v) ==
    LET need == <<6, 4, 2, 1>>
        enough(coins, i) == 2 * coins >= c[i] * need[i]
        coins[i \in 0 .. 4] ==
            IF i = 0 THEN v.n
            ELSE LET had == coins[i - 1]
                 IN  IF enough(had, i) THEN (2 * had - c[i] * need[i]) \div 2 ELSE had
    IN  [i \in 1 .. 4 |-> When(enough(coins[i - 1], i), need[i] * Half)]

Q35(c, v) ==
    LET share == Over(v.n * Half, c[1])
        third == When(c[3] = v.mx, -U)
    IN  IF c[2] >= c[1] THEN <<-share - U, 0, third>> ELSE <<share + U, -2 * U, third>>

Q36(c, v) == <<Half, When(c[1] > 0, U), When(2 * (c[1] + c[2]) >= v.n, 3 * Half),
               When(c[4] = 1, 2 * U)>>

Q37(c, v) == <<0, 0, 0, Half>>
Q37_scores(c, v) ==
    LET firsts == Choosers(v, 0)
        swapped == [i \in 1 .. v.n |->
            IF Cardinality(firsts) = 2 /\ i \in firsts
            THEN v.P[CHOOSE j \in firsts : j # i].score + U ELSE v.P[i].score]
        turned == [i \in 1 .. v.n |->
            IF c[2] = 1 /\ i \in Choosers(v, 1) THEN Abs(swapped[i]) ELSE swapped[i]]
        top == Max({turned[i] : i \in 1 .. v.n})
    IN  [i \in 1 .. v.n |-> turned[i] - When(c[3] = 1 /\ turned[i] = top, 2 * U)]

Q38(c, v) == <<IF c[1] = 2 THEN 2 * U ELSE -U, 0,
               When(c[1] = c[2] \/ c[2] = c[3] \/ c[1] = c[3], 2 * U)>>
Q38_scores(c, v) ==
    LET raised == Each(v, LAMBDA p : p.score + When(p.select = 1, Half))
        top == Max({raised[i] : i \in 1 .. v.n})
    IN  [i \in 1 .. v.n |->
            raised[i] - When(i \in Choosers(v, 1) /\ raised[i] = top, 2 * U)]

Q39(c, v) == <<-4 * U, IF c[2] > 4 THEN -6 * U ELSE -3 * U,
               IF c[3] > 3 THEN -6 * U ELSE -2 * U, IF c[4] > 2 THEN -6 * U ELSE -U>>

Q40(c, v) == <<When(c[1] > 0 /\ c[2] = 0 /\ c[3] > 0 /\ c[4] = 0, 4 * U),
               When(c[2] = 1, 2 * U), When(c[1] = 0, U), Half>>

Q41(c, v) ==
    LET sign == IF c[5] = 1 THEN -1 ELSE 1
    IN  <<0, sign * (When(c[1] = 0, U) + When(c[2] = v.mx, U) - When(c[4] = 1, 2 * U)),
          sign * When(c[2] = v.mx, 2 * U), 0, -2 * U * sign>>

Q42(c, v) == <<IF c[1] > c[2] THEN -2 * U ELSE 2 * U,
               IF c[2] = v.mx THEN 3 * Half ELSE -Half, -U + Over(c[1] * U, c[3])>>

\* The first of the fastest wins, the last of the slowest loses.
Q43(c, v) ==
    LET many == v.n > 5
        hours == IF many THEN 5 * v.n - 5 ELSE 5 * v.n + 5
        time == [i \in 1 .. 3 |->
            IF c[i] = 0 \/ (i = 3 /\ c[3] < (2 * v.n + 3) \div 6) THEN 999
            ELSE <<17 + 5 * c[1], hours + 6 - 5 * c[2], 10>>[i]]
        first == Min({i \in 1 .. 3 : \A j \in 1 .. 3 : time[i] <= time[j]})
        last == Max({i \in 1 .. 3 : \A j \in 1 .. 3 : time[i] >= time[j]})
    IN  [i \in 1 .. 3 |->
            CASE i = last -> -U
              [] i # last /\ i = first -> Over((IF many THEN 8 ELSE 6) * U, c[i])
              [] OTHER -> Over((IF many THEN 5 ELSE 3) * U, c[i])]

Q44(c, v) ==
    LET few == v.n <= 10
        power == (IF few THEN 4 ELSE 5) - c[2]
    IN  <<When(c[1] >= 2, Over((IF few THEN 6 ELSE 8) * U, c[1])),
          IF power >= 0 THEN U * 2^power ELSE U \div 2^(-power)>>

Q45(c, v) == <<IF c[1] <= c[4] THEN 2 * U ELSE -U, IF c[2] >= c[4] THEN -2 * U ELSE 3 * Half,
               Half, When(c[1] + c[2] >= 2 * c[4], 3 * U)>>

Q46(c, v) == <<IF c[1] > c[2] THEN 3 * U ELSE -2 * U, U>>

Q47(c, v) == <<3 * U - c[3] * Half, -U + c[3] * U, U>>

Q48(c, v) == IF c[3] > c[2] THEN <<0, -U, U, 2 * U>> ELSE <<3 * Half, 2 * U, U, -2 * U>>

Q49(c, v) ==
    LET most(i) == c[i] = v.mx
        others == c[1] + c[2] + c[4] + c[5]
        own == <<When(most(1), U), 0,
                 When(most(3), IF c[3] >= others THEN 3 * U ELSE -3 * U),
                 When(most(4), 2 * U), When(most(5), -5 * U)>>
    IN  [i \in 1 .. 5 |-> own[i] + When(most(1) /\ c[i] = v.nz, 3 * U) + When(most(2), U)
                            + When(most(4) /\ i # 4, Over(3 * U, c[i]))]

Q50(c, v) ==
    LET loss == When(c[3] > c[2] /\ c[3] > c[1], 4 * U)
    IN  <<When(c[1] = v.nz, 4 * U) + When(c[2] > v.mn, U) - loss,
          When(c[2] > v.mn, 3 * U) - loss, -U, (c[1] + c[2] - c[3]) * U>>

Q51(c, v) == <<(3 + c[3] - c[2]) * U, 3 * Half, Over(c[2] * U, c[3])>>

Q52(c, v) == LET base == <<U, 0, -4 * Tenth>>
             IN  [i \in 1 .. 3 |-> base[i] - When(c[i] = v.mx, 2 * U)]

\* med is rounded up to whole points.
Q53(c, v) ==
    LET med == -((-v.med) \div U) * U
        strong == {i \in 1 .. v.n : v.P[i].score >= med}
        works == Cardinality(strong \cap Choosers(v, 2)) >= Cardinality(strong) \div 2 + 1
    IN  IF works THEN <<-U, -3 * U, U, -Half>> ELSE <<U, 2 * U, -2 * U, -Half>>

Q54(c, v) == <<U, IF c[1] > 0 THEN 2 * U ELSE -2 * U,
               IF c[1] > 0 /\ c[2] > 0 THEN 3 * U ELSE -3 * U,
               IF c[1] > 0 /\ c[2] > 0 /\ c[3] > 0 THEN 4 * U ELSE -4 * U>>

Q55(c, v) ==
    LET turned == c[3] > 0 /\ c[2] >= v.n \div 3
    IN  <<When(c[3] = 0, -2 * U), IF turned THEN -2 * U ELSE 2 * U,
          IF turned THEN U ELSE -2 * U>>

Q56(c, v) == <<IF 2 * c[1] >= v.n THEN -3 * U ELSE 3 * U, 0>>
Q56_scores(c, v) == Each(v, LAMBDA p : IF c[1] = 0 THEN 0 ELSE p.score)

\* The highest option chosen pays, unless the last one was chosen by one player.
Q57(c, v) ==
    IF c[5] = 1 THEN <<0, 0, 0, 0, 4 * U>>
    ELSE [i \in 1 .. 5 |-> IF i = Max(Chosen(c)) THEN -(i - 1) * U ELSE (i - 1) * U]

Q58(c, v) == <<IF c[1] = v.mx THEN -3 * U ELSE 3 * U, IF c[1] = v.mx THEN 3 * U ELSE -3 * U,
               IF c[3] = v.mx THEN -U ELSE U, IF c[3] = v.mx THEN U ELSE -U>>

Q59(c, v) ==
    IF c[4] > 0 THEN <<0, 0, 0, IF c[3] > 0 THEN 2 * U ELSE -4 * U, 0>>
    ELSE <<When(c[2] = 0, 32 * Tenth),
           IF c[3] > 0 /\ c[2] = v.mx THEN -U ELSE IF c[1] > 0 THEN 3 * Half ELSE Half,
           U, 0, When(Draw(v, 1, 1000, 16), 64 * U)>>

\* The option of the fewest wins; if there are several, that of the most; if there
\* are several again, none does.
Q60(c, v) ==
    LET fewest == {i \in 1 .. 4 : c[i] = v.nz}
        most == {i \in 1 .. 4 : c[i] = v.mx}
        win == IF Cardinality(fewest) = 1 THEN fewest
               ELSE IF Cardinality(most) = 1 THEN most ELSE {}
    IN  CASE win = {1} -> <<0, 2 * U, U, 0>>
          [] win = {2} -> <<-2 * U, 0, 0, 0>>
          [] win = {3} -> <<0, -3 * U, -U, 0>>
          [] win = {4} -> <<3 * U, 2 * U, 2 * U, 0>>
          [] OTHER -> <<0, 0, 0, 7 * U>>

=============================================================================
