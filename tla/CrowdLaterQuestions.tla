------------------------- MODULE CrowdLaterQuestions -------------------------
(***************************************************************************)
(* The questions 61 to 135 of the game "crowd" (games/crowd/problems.h), in *)
(* the form of module CrowdQuestions.                                       *)
(***************************************************************************)
EXTENDS CrowdScoring

Q61(c, v) == [i \in DOMAIN c |-> When(c[i] = 1, i * Half)]

\* The first option that one player chose, and every crowded one.
Q62(c, v) ==
    [i \in DOMAIN c |-> When(c[i] = 1 /\ \A j \in 1 .. i - 1 : c[j] # 1, 2 * U)
                          - When(c[i] > 2, c[i] * Half)]

Q63(c, v) ==
    LET leave == (v.n + 2) \div 3
        safe == When(c[2] > 0, (leave \div c[2]) * U)
        crowded == \E i \in 3 .. 5 : c[i] >= 2
        rescued(i) == Over(c[1] * U, c[i])
    IN  IF crowded THEN <<-U, safe, rescued(3), rescued(4), rescued(5)>>
        ELSE <<Over(v.n * U, c[1]), safe, -Half, -U, -3 * Half>>

Q64(c, v) == <<IF c[1] = v.mx THEN -U ELSE 2 * U, IF c[2] = v.mx THEN -U ELSE U, 0>>

Q65(c, v) ==
    LET met(i) == c[i] > 0 /\ c[i + 3] > 0
    IN  [i \in 1 .. 6 |-> IF i <= 3 THEN (IF met(i) THEN -i * U ELSE i * U)
                          ELSE IF met(i - 3) THEN (i - 3) * U ELSE -(i - 3) * U]

Q66(c, v) == [i \in DOMAIN c |-> When(Cardinality(Chosen(c)) >= i, i * U)]

Q67(c, v) == <<0, IF c[2] < c[1] THEN 2 * U ELSE -U, IF c[3] < c[2] THEN 4 * U ELSE -2 * U>>

Q68(c, v) == <<-U + Over(v.n * U, c[1]), U>>

Q69(c, v) == <<Over(v.n * Half, c[1]), Over(3 * v.n * Tenth, c[2]),
               When(c[3] = v.mx, 3 * U), U>>

Q70(c, v) ==
    LET few == c[2] <= v.n \div 3
        water == (2 - c[1]) * U + c[3] * Half + (IF few THEN c[2] * U ELSE -c[2] * Half)
    IN  <<0, IF few THEN U ELSE -Half, Half, Over(water, c[4])>>

Q71(c, v) ==
    LET both == c[2] > 0 /\ c[4] > 0
        badwin == both \/ c[1] + c[2] + c[3] < c[4] + c[5]
    IN  <<When(~badwin, U), IF badwin THEN When(both, -U) ELSE 4 * U,
          When(c[3] = v.nz, 3 * U), IF c[2] > 0 THEN 2 * U ELSE -U, When(badwin, U)>>

Q72(c, v) ==
    LET odd == (c[1] + c[2] + c[3]) % 2 = 1
    IN  <<When(odd, 2 * U), When(~odd, 2 * U), IF c[5] > 0 THEN -2 * U ELSE 4 * U,
          (2 - c[3]) * U, IF c[3] > 0 THEN 2 * U ELSE -U>>

Q73(c, v) ==
    LET robbed == c[1] = v.mn /\ c[3] > 0
    IN  <<U, IF robbed THEN -2 * U ELSE 2 * U, IF c[2] > c[1] THEN 4 * U ELSE -3 * U,
          When(robbed, c[3] * U)>>

Q74(c, v) ==
    LET second == When(c[2] = v.mx, -2 * U)
    IN  <<-U, second, IF c[3] <= 3 THEN Over(c[1] * U - second * c[2], c[3]) ELSE -3 * U,
          IF c[4] = 1 THEN 3 * U ELSE -3 * U>>

Q75(c, v) == <<When(c[2] = 0, 2 * U), U, IF c[1] = 0 THEN 3 * U ELSE -U>>

Q76(c, v) ==
    LET fits(k) == 2 * k <= v.n
        fourth == fits(c[4])
        third == fourth /\ fits(c[4] + c[3])
        second == third /\ fits(c[4] + c[3] + c[2])
    IN  <<0, -U + When(second, 5 * U), -2 * U + When(third, 5 * U),
          -3 * U + When(fourth, 5 * U)>>

Q77(c, v) == <<When(c[1] = 1, 3 * U), When(c[1] > 0, U), IF c[1] > 0 THEN -U ELSE 4 * U,
               When(c[1] > 0 /\ c[2] > 0 /\ c[3] > 0, 2 * U)>>

Q78(c, v) ==
    LET most == Max({2 * c[5], v.mx})
    IN  <<When(most \in {c[3], c[4], 2 * c[5]}, 3 * U), 3 * Half,
          When(c[3] < most, c[3] * U), When(c[4] < most, Over(5 * U, c[4])),
          When(2 * c[5] < most, 5 * U)>>

Q79(c, v) == <<IF c[1] = 2 THEN -2 * U ELSE 2 * U, IF c[2] = 2 THEN -2 * U ELSE 2 * U,
               IF c[3] = v.mx THEN -2 * U ELSE 3 * U>>

\* Whoever gave the most of those who gave anything is paid for it.
Q80(c, v) ==
    LET enough == c[2] + 2 * c[3] + 3 * c[4] + 4 * c[5] >= (16 * v.n + 5) \div 10
        most == Max({1} \cup {i \in 2 .. 5 : c[i] > 0})
    IN  [i \in 1 .. 5 |-> -(i - 1) * U + When(enough /\ i > 1, 7 * Half)
                            + When(enough /\ i = most, 2 * U)]

Q81(c, v) ==
    LET all == \A i \in 1 .. 4 : c[i] > 0
    IN  [i \in 1 .. 4 |-> IF i > 1 /\ all THEN -(i - 1) * U
                          ELSE When(i > 1 /\ c[i - 1] = 0, (i - 1) * U)]

\* The sums of the scores are ints: they are cut off after every player.
Q82(c, v) ==
    LET total(o, base) ==
            FoldLeft(LAMBDA a, p : IF p.select = o THEN Quot(a * U + p.score, U) ELSE a,
                     base, v.P)
    IN  <<When(total(0, 0) > total(1, 2), Over(8 * U, c[1])),
          When(total(1, 2) > total(0, 0), Over(6 * U, c[2])),
          IF c[3] > 2 THEN -2 * U ELSE 5 * Half, Half>>

Q83(c, v) ==
    LET alone == {i \in DOMAIN c : c[i] = 1}
        place(i) == Cardinality({j \in alone : j <= i})
    IN  [i \in DOMAIN c |-> When(i \in alone /\ place(i) <= 3, (4 - place(i)) * U)]

\* top are the indexes of the two options that partial_sort found to be the most.
Q84(c, v) ==
    LET o1 == Min(v.top)
        o2 == Max(v.top)
        second == \/ o2 = 4 /\ o1 \in {0, 3}
                  \/ o2 < 4 /\ o2 - o1 = 1
        first == \/ o2 = 4 /\ o1 = 1
                 \/ o2 < 4 /\ o2 - o1 = 3
    IN  [i \in 1 .. 5 |-> When(i - 1 \in v.top, Half) + When(second /\ i - 1 = o2, 2 * U)
                            + When(first /\ i - 1 = o1, 2 * U)]

\* What is left of the debt is taken from the options, one after the other and
\* again from the first, until it is paid.
Q85(c, v) ==
    LET base == <<-U, U, -2 * U, 0, -3 * Half, -6 * U>>
        minus == <<1, 3, 2, 3, 0, 6>>
        debt == (3 * v.n) \div 2 - c[1] + c[2] - 2 * c[3] - 3 * c[5] - 6 * c[6]
        paid(k) == MapThenSumSet(LAMBDA i : c[i] * minus[i], 1 .. k)
        due(turn, i) == debt - turn * paid(6) - paid(i - 1) > 0
        times(i) == Cardinality({turn \in 0 .. 3 * v.n : due(turn, i)})
    IN  [i \in 1 .. 6 |-> (IF i = 6 /\ debt <= 0 THEN U ELSE base[i])
                            - times(i) * minus[i] * U]

\* gap is only assigned where nobody is left in the first option.
Q86(c, v) ==
    LET left == c[1] - c[4]
        first == IF left <= 0 THEN 1 ELSE left
        second == c[2] + c[4]
        gap == IF left <= 0 THEN (1 - left) * U ELSE v.garbage
        sign == IF c[3] = 1 THEN -1 ELSE 1
    IN  <<sign * When(first <= 3, Over(6 * U, first)),
          sign * When(second >= 4, Over(10 * U, second)),
          When(c[3] = 1, (first + second) * U - gap), 0>>

Q87(c, v) ==
    LET last == Max({i \in 1 .. 4 : c[i] = v.mx})
    IN  [i \in 1 .. 4 |-> IF i = last \/ i = (last % 4) + 1 THEN -i * U ELSE i * U]

Q88(c, v) ==
    CASE c[1] > c[2] -> <<2 * U, -2 * U, -2 * U, -10 * U>>
      [] c[1] < c[2] -> <<-2 * U, 2 * U, -2 * U, -10 * U>>
      [] OTHER -> <<-2 * U, -2 * U, 2 * U, 10 * U>>

Q89(c, v) == <<Over(Abs(c[2] - 5) * U, c[1]), Over(Abs(c[1] - 6) * U, c[2]),
               Over(v.mx * U, c[3])>>

Q90(c, v) == [i \in 1 .. 8 |-> (i + 4) * Quarter - When(c[i] > 1, 2 * U)]

\* Once an option cannot be paid, the later ones are cheaper by one.
Q91(c, v) ==
    LET need(s, i) == i - s.missed
        pays(s, i) == s.point >= c[i] * need(s, i)
        after[i \in 0 .. 4] ==
            IF i = 0 THEN [point |-> (5 * v.n) \div 2, missed |-> 0]
            ELSE LET s == after[i - 1]
                 IN  IF pays(s, i) THEN [s EXCEPT !.point = @ - c[i] * need(s, i)]
                                   ELSE [s EXCEPT !.missed = @ + 1]
    IN  [i \in 1 .. 4 |-> IF pays(after[i - 1], i) THEN need(after[i - 1], i) * U ELSE -U]

Q92(c, v) ==
    LET win == CASE c[1] < c[2] -> 1 [] c[2] < c[1] -> 2 [] OTHER -> 3
    IN  [i \in 1 .. 3 |-> IF i = win THEN Over((v.n - c[i]) * U, c[i]) ELSE -U]

Q93(c, v) == <<Over((2 * v.n - 1) * U, c[1]) - c[3] * U, When(c[2] <= 3, 2 * U) - c[3] * U,
               0, U>>
Q93_scores(c, v) ==
    Each(v, LAMBDA p : IF c[4] = 0 /\ p.select = 2 THEN 0 ELSE p.score)

\* What the most bring, the fewest take away.
Q94(c, v) ==
    LET times(i) == (IF c[i] = v.mx THEN 1 ELSE 0) - (IF c[i] = v.mn THEN 1 ELSE 0)
        share(i) == Over(3 * U, c[i])
    IN  <<(times(3) + times(4)) * share(1), times(1) * U,
          (times(2) + times(4)) * share(3), times(3) * share(4)>>

Q95(c, v) == <<U, (3 - c[1]) * U, When(~Draw(v, 1, 2, 1), 3 * U)>>

Q96(c, v) == <<IF c[2] % 2 = 1 THEN -3 * U ELSE 3 * U, -U>>

Q97(c, v) ==
    LET revolt == c[3] > 0 /\ c[2] = 0
    IN  <<When(~revolt, 2 * U), IF c[1] > c[3] THEN -U ELSE U, IF revolt THEN U ELSE -U>>
Q97_scores(c, v) ==
    Each(v, LAMBDA p : IF c[3] > 0 /\ c[2] = 0 /\ p.select = 0 THEN 0 ELSE p.score)

Q98(c, v) ==
    LET more == c[1] + c[3] > c[2] + c[4]
    IN  <<IF more THEN U ELSE -2 * U, IF more THEN -2 * U ELSE U,
          IF more THEN -2 * U ELSE 4 * U, IF Draw(v, 1, 2, 1) THEN 2 * U ELSE -2 * U>>

Q99(c, v) ==
    LET win == Max({i \in 1 .. 4 : c[i] = v.mx})
        third == IF Draw(v, 1, 10, 4) THEN -c[3] * U ELSE c[3] * U
    IN  [i \in 1 .. 4 |-> When(i = win, 3 * Half + When(i = 3, third))]
Q99_scores(c, v) ==
    LET win == Max({i \in 1 .. 4 : c[i] = v.mx})
        kept(p) == p.score + When(p.score = v.hi, 3 * U)
    IN  Each(v, LAMBDA p :
            CASE win = 2 -> Max({0, kept(p)})
              [] win = 1 -> p.score + (CASE p.score = v.hi -> -3 * U
                                         [] p.score # v.hi /\ p.score = v.lo -> 2 * U
                                         [] OTHER -> U)
              [] OTHER -> p.score)

Q100(c, v) ==
    LET bell == c[1] + 2 * c[2] + 3 * c[3]
        rings == bell < (3 * v.n) \div 2
    IN  [i \in 1 .. 4 |-> IF i = 4 THEN v.n * Quarter
                          ELSE When(rings, (7 * i + 3 * bell) * Tenth)]

Q101(c, v) == <<0, 0, 0, When(c[2] > 0 /\ c[4] > 0, -U)>>
Q101_scores(c, v) ==
    LET changed == Each(v, LAMBDA p :
            p.score + When(c[1] = 0 /\ c[p.select + 1] = v.mn, 2 * U)
                    - When(c[1] > 0 /\ c[p.select + 1] = v.mx, 2 * U)
                    + When(p.select = 3, IF c[3] = 0 THEN -2 * U ELSE 2 * U))
        sum == MapThenSumSet(LAMBDA i : changed[i], 1 .. v.n)
    IN  IF c[2] > 0 /\ c[4] = 0 THEN Each(v, LAMBDA p : Quot(sum, v.n)) ELSE changed

Q102(c, v) ==
    LET extreme(i) == c[i] \in {v.mx, v.mn}
    IN  <<When(extreme(1), U) - When(extreme(2), 2 * U),
          When(extreme(1), 2 * U) - When(extreme(4), 2 * U),
          When(extreme(3), 2 * U) - When(extreme(2), 3 * U),
          When(extreme(3), 2 * U) - When(extreme(4), U)>>

Q103(c, v) == <<When(c[4] = v.mn, U), When(c[1] = v.mn, 2 * U), When(c[2] = v.mn, -Half),
                When(c[3] = v.mn, -U)>>

\* One option of the most wins by itself; if there are two, the third one does.
Q104(c, v) ==
    LET most == {i \in 1 .. 3 : c[i] = v.mx}
        win == IF Cardinality(most) = 1 THEN most ELSE (1 .. 3) \ most
    IN  <<When(win = {2} /\ c[3] > 0, 2 * U), When(win = {3} /\ c[1] > 0, 3 * U),
          When(win = {1} /\ c[2] > 0, U)>>
Q104_scores(c, v) ==
    Each(v, LAMBDA p : IF \A i \in 1 .. 3 : c[i] = v.mx THEN 0 ELSE p.score)

Q105(c, v) ==
    LET o1 == Min(v.top)
        o2 == Max(v.top)
    IN  [i \in 1 .. 4 |-> CASE i - 1 = o1 -> -2 * o1 * U
                            [] i - 1 = o2 -> (4 - 2 * o2) * U
                            [] OTHER -> -2 * o1 * U - Half]

Q106(c, v) ==
    LET all == c[1] > 0 /\ c[2] > 0 /\ c[3] > 0
    IN  <<When(c[3] = 0, U), IF c[3] > 0 THEN U ELSE -2 * U, 0,
          When(all, ((c[1] + c[2] + c[3] + 1) \div 2) * U)>>

Q107(c, v) == <<(6 - c[1]) * U, c[1] * U, (c[2] - 1) * U, U>>

Q108(c, v) ==
    LET judged == c[4] > 0 /\ c[2] # c[3]
    IN  <<0, When(c[2] > 0 /\ ~(judged /\ c[2] < c[3]), -U),
          When(c[3] > 0 /\ ~(judged /\ c[2] > c[3]), -2 * U), 0>>
Q108_scores(c, v) ==
    LET judged == c[4] > 0 /\ c[2] # c[3]
        reversal == (c[2] = 0) # (judged /\ c[2] > c[3])
        minus9 == (c[3] = 0) # (judged /\ c[2] < c[3])
        lowered(p) == p.score - When(minus9, 9 * U)
    IN  Each(v, LAMBDA p : CASE p.select # 0 -> p.score
                             [] p.select = 0 /\ reversal -> -lowered(p)
                             [] OTHER -> lowered(p))

Q109(c, v) == IF c[1] >= c[2] THEN <<0, 0, -2 * U, -U, 2 * U>> ELSE <<0, 0, 2 * U, U, -2 * U>>

Q110(c, v) ==
    LET arrested == c[2] + c[3] > c[1]
    IN  <<IF c[1] = 1 THEN 4 * U ELSE U, When(arrested, 2 * U), When(~arrested, 5 * Half)>>

Q111(c, v) ==
    LET blue == c[1] + c[2]
        red == c[3] + c[4]
        power == (c[3] + 2 * c[4]) * (IF c[3] > 0 THEN 2 ELSE 1)
        blueWins == When(blue > power, Over(10 * U, blue))
        redWins == When(power > blue, Over(10 * U, red))
    IN  <<U + blueWins, When(c[2] > 0, Over(3 * U, c[2])) + blueWins, redWins, redWins>>

Q112(c, v) ==
    IF c[2] + 2 * c[3] + 3 * c[4] - 2 * c[5] - 4 * c[6] > v.n
    THEN <<Half, 3 * Half, 2 * U, 5 * Half, 0, -U>>
    ELSE <<0, -Half, -U, -3 * Half, 0, 0>>

Q113(c, v) ==
    LET success == 3 * c[2] + 4 * c[3] + 5 * c[4] + 6 * c[5] <= 2 * v.n
    IN  [i \in 1 .. 5 |-> IF i = 1 THEN 2 * U ELSE When(success, (i + 1) * U)]

Q114(c, v) ==
    LET defense == c[1] + c[3] > c[2] + c[4]
        escape == c[2] + c[3] > c[1] + c[4]
        betrayed == When(c[4] > 0, U)
        fourth == IF defense /\ escape THEN -7 * Half
                  ELSE When(defense \/ escape, -3 * Half)
    IN  <<(IF defense THEN 2 * U ELSE -U) - betrayed,
          When(defense, U) + (IF escape THEN 3 * Half ELSE -Half) - betrayed,
          U + When(defense, Half) + When(escape, Half) - betrayed,
          When(c[4] > 0, fourth)>>

Q115(c, v) ==
    LET first == IF 2 * c[1] >= v.n THEN 3 * U ELSE -U
        second == 2 * U - When(c[3] > c[2], (c[3] - c[2]) * U)
        taxed == (IF first > 0 THEN c[1] ELSE 0) + (IF second > 0 THEN c[2] ELSE 0)
        points == <<first, second, U, When(2 * taxed >= v.n, 2 * U), 0>>
        best == Max({points[i] : i \in 1 .. 5})
    IN  [i \in 1 .. 5 |-> points[i] - When(c[5] = v.nz /\ points[i] = best, 3 * U)]

\* A rabbit whose new score is below the median counts as a fox from then on.
Q116(c, v) == <<0, 0, 0, 0>>
Q116_scores(c, v) ==
    LET fox(o) == \E i \in Choosers(v, o) : v.P[i].score < v.med
        hunted(o) == fox(o) /\ c[o + 1] > (v.n + 2) \div 3
        eaten(o) == hunted(o) /\ \E i \in Choosers(v, o) : v.P[i].score >= v.med
        rabbit(p) == IF p.score < v.med THEN p.score
                     ELSE p.score + (IF hunted(p.select) THEN -2 * U ELSE (2 - p.select) * U)
    IN  Each(v, LAMBDA p :
            rabbit(p) + When(rabbit(p) < v.med, IF eaten(p.select) THEN 2 * U ELSE -U))

Q117(c, v) ==
    LET coins == 3 * c[1] - c[2]
    IN  <<U, Over(coins * U, c[2]),
          CASE coins > 0 -> 2 * U [] coins < 0 -> -2 * U [] OTHER -> 0,
          When(coins < 0, -coins * U)>>

Q118(c, v) ==
    LET x == Min({c[1], c[2]})
        y == Max({c[3], c[4]})
    IN  <<(x - y) * U, 2 * (x - y) * U, 2 * (x - y) * U, -y * U>>

Q119(c, v) ==
    IF 2 * (c[2] + 2 * c[3] + 3 * c[4] + 4 * c[5]) <= 3 * v.n THEN <<0, U, 2 * U, 3 * U, 4 * U>>
    ELSE <<Over(3 * v.n * Half, c[1]), 0, 0, 0, 0>>

Q120(c, v) == <<When(c[1] < c[2], U), 0>>
Q120_scores(c, v) ==
    LET top == Max({v.P[i].score : i \in Choosers(v, 0)})
    IN  Each(v, LAMBDA p :
            p.score - When(c[1] > c[2] /\ p.select = 0 /\ p.score = top, 2 * U))

Q121(c, v) == <<IF c[4] > 0 /\ c[2] = 0 THEN -3 * Half ELSE 5 * Half, 0, Half, 0>>
Q121_scores(c, v) ==
    Each(v, LAMBDA p :
        p.score + When(p.select = 1, IF p.score = v.hi THEN 3 * Half ELSE -100 * U))

Q122(c, v) ==
    LET caught == IF c[4] = 0 THEN c[2] > 0 ELSE 2 * c[2] > v.n
    IN  <<Half, When(c[4] = 0, U), IF caught THEN -3 * Half ELSE 3 * U, 0>>
Q122_scores(c, v) ==
    Each(v, LAMBDA p :
        p.score + When(p.select = 3, IF p.score = v.lo THEN 3 * Half ELSE -100 * U))

Q123(c, v) ==
    LET fewest == c[1] = v.nz
        most == c[2] = v.mx
        middle == /\ c[3] > 0
                  /\ c[3] \notin {v.mx, v.mn} \/ c[1] = 0 \/ c[2] = 0
    IN  CASE c[1] = c[3] -> <<-3 * U, 3 * U, -3 * U>>
          [] c[1] # c[3] /\ c[2] = c[3] -> <<6 * U, -4 * U, 2 * U>>
          [] Cardinality({c[1], c[2], c[3]}) = 3 ->
                <<When(fewest, 6 * U) - When(most, 3 * U) - When(middle, 5 * U),
                  -When(fewest, 4 * U) + When(most, 3 * U) + When(middle, 2 * U),
                  When(fewest, 2 * U) - When(most, 3 * U) + When(middle, 2 * U)>>
          [] OTHER -> <<0, 0, 0>>

Q124(c, v) == <<Over(2 * U, c[1]), Over(3 * U, c[2]), Over(5 * U, c[3]),
                Over((c[4] * c[4] - 2) * U, c[4])>>

Q125(c, v) ==
    LET size(S) == MapThenSumSet(LAMBDA i : Abs(v.P[i].score), S)
        light(o, k) == 4 * size(Choosers(v, o)) <= k * size(1 .. v.n)
    IN  <<IF light(0, 3) THEN 2 * U ELSE -U, IF light(1, 2) THEN 3 * U ELSE -2 * U,
          IF light(2, 1) THEN 4 * U ELSE -3 * U>>

Q126(c, v) ==
    LET nobody == When(c[1] = 0, 3 * U)
        third == When(c[3] = 0, 2 * U)
        fourth == When(c[4] = 0, 2 * U)
    IN  <<When(c[1] > 0, -U), nobody + third - fourth, nobody - fourth,
          nobody - When(c[2] = 0, 2 * U) + third, 0>>
Q126_scores(c, v) ==
    Each(v, LAMBDA p : p.score + When(c[5] = 0 /\ p.score = v.hi, 4 * U))

Q127(c, v) ==
    IF c[1] + v.n > c[2] + 3 * c[3] + 5 * c[4]
    THEN <<Over(2 * v.n * U, c[1]) - 2 * U, -U, -U, -U, 0>>
    ELSE <<-U, 3 * U, 2 * U, U, 0>>

Q128(c, v) ==
    LET votes == <<c[2] + c[3] + c[4], c[2] + c[3], c[2] + c[5] + c[6], c[4] + c[5] + c[7]>>
        top(S) == \E k \in S : \A m \in 1 .. 4 : votes[k] >= votes[m]
    IN  <<Half, When(top({1, 2, 3}), U), When(top({1, 2}), 2 * U), When(top({1, 4}), 2 * U),
          When(top({3, 4}), 2 * U), When(top({3}), 3 * U), When(top({4}), 3 * U)>>

Q129(c, v) == <<2 * U + When(c[1] > c[2], U) - When(c[1] < c[2], U), U + c[2] * Half,
                IF c[3] > c[4] THEN 2 * U ELSE -U, IF c[4] < c[3] THEN 2 * U ELSE -2 * U>>

\* resource is counted in halves.
Q130(c, v) ==
    LET start == 6 * v.n
        first == start >= 2 * c[1] * c[1]
        rest == start - (IF first THEN 2 * c[1] * c[1] ELSE 0)
        second == rest >= c[2] * c[2]
        left == rest - (IF second THEN c[2] * c[2] ELSE 0) + (IF c[3] > c[1] THEN 0 ELSE 4)
    IN  <<When(first, c[1] * U), When(second, c[2] * Half),
          IF c[3] > c[1] THEN 3 * U ELSE -2 * U,
          IF c[4] > c[2] THEN -2 * U ELSE When(left > 8, 3 * U)>>

Q131(c, v) ==
    LET live(i) == IF i <= 3 THEN \A j \in 1 .. 3 : c[i] >= c[j] ELSE c[i] <= 2
        x == IF c[6] = 0 THEN live(1) ELSE live(2)
        y == IF c[6] = 0 THEN live(2) ELSE live(1)
        added == <<When(x, U) - When(live(3), U),
                   When(y, U) - When(x, U), When(y, U) - When(live(3), U),
                   When(live(4), U), When(live(5), -U), 0>>
        factor == IF ~(live(4) /\ c[4] > 0) THEN 1 ELSE IF c[4] = 1 THEN 2 ELSE 4
        sign == IF live(5) THEN -1 ELSE 1
    IN  [i \in 1 .. 6 |-> sign * factor * (added[i] - When(~live(i), Half))]

Q132(c, v) ==
    LET first == Max({c[1] - c[4], 0})
        second == Max({c[2] - c[3], 0})
        bonus == IF c[5] > 0 THEN 4 * U ELSE -2 * U
    IN  CASE first > second -> <<bonus, -2 * U, 2 * U, -2 * U, -first * U>>
          [] first < second -> <<-2 * U, bonus, 0, 2 * U, -second * U>>
          [] OTHER -> <<-2 * U, -2 * U, -2 * U, -2 * U, 2 * U>>

Q133(c, v) ==
    LET first == c[2] > v.n \div 2
        third == c[1] > c[2]
    IN  CASE first /\ ~third -> <<2 * U, 0, -2 * U>>
          [] third /\ ~first -> <<-2 * U, 0, 2 * U>>
          [] OTHER -> <<-2 * U, 2 * U, -2 * U>>

\* Each chosen option takes from the next one.
Q134(c, v) ==
    LET rate == <<4, 3, 2>>
        from == <<3, 1, 2>>
        gets(i) == When(c[i] > 0, Over(c[from[i]] * rate[i] * Half, c[i]))
        loses(i) == LET by == CHOOSE k \in 1 .. 3 : from[k] = i
                    IN  When(c[by] > 0, rate[by] * Half)
    IN  [i \in 1 .. 3 |-> gets(i) - loses(i)]

Q135(c, v) ==
    LET poor == When(c[3] > c[1], c[3] * Half)
        devil == 2 * c[3] * U - c[1] * U + (c[4] + c[2]) * Half
    IN  <<c[1] * U - c[2] * Half - poor, c[1] * Half + c[2] * Half - poor, c[3] * Half,
          When(c[4] > 0, Over(devil, c[4]))>>

=============================================================================
