-------------------------- MODULE CrowdOldQuestions --------------------------
(***************************************************************************)
(* The 24 questions of the game "crowd" that are only asked in its test     *)
(* mode 2 (games/crowd/problems_t.h), in the form of module CrowdQuestions. *)
(***************************************************************************)
EXTENDS CrowdScoring

Qt1(c, v) == IF v.n \in {c[1], c[2]} THEN <<0, 0>> ELSE <<-U, -2 * U>>
Qt1_scores(c, v) ==
    Each(v, LAMBDA p : CASE c[1] = v.n -> IF p.score = v.hi THEN 0 ELSE p.score
                         [] c[2] = v.n -> p.score + 2 * U
                         [] OTHER -> p.score)

\* Both conditions are of the same player, so that only one of them can be met.
Qt2(c, v) == <<-U, -2 * U>>
Qt2_scores(c, v) ==
    Each(v, LAMBDA p : CASE p.select = 0 /\ p.score > c[1] * U -> U
                         [] p.select = 1 /\ p.score < c[2] * U -> 2 * U
                         [] OTHER -> p.score)

Qt3(c, v) == <<When(c[1] > c[2], c[2] * Half), When(c[1] < c[2], c[1] * Half),
               When(c[3] > c[4], c[4] * Half), When(c[3] < c[4], c[3] * Half)>>

\* pnum is half of the count among more than five.  (The loop that fills it reads
\* optionCount once for every player, past its end when there are more than four;
\* what it reads there is not used.)
Qt4(c, v) ==
    LET pnum == [i \in 1 .. 4 |-> IF v.n > 5 THEN c[i] * Half ELSE c[i] * U]
        robbed == pnum[4] > pnum[3]
        loot == SumScores(v, Choosers(v, 0)) + 2 * pnum[4] * c[1]
    IN  <<When(~robbed, 2 * pnum[4]),
          IF pnum[3] > pnum[4] THEN -2 * U ELSE pnum[4],
          IF pnum[2] > pnum[1] THEN 2 * U ELSE -pnum[1],
          When(robbed, Over(loot, c[4])) + (IF pnum[1] > pnum[2] THEN -2 * U ELSE pnum[2])>>
Qt4_scores(c, v) == Each(v, LAMBDA p : IF c[4] > c[3] /\ p.select = 0 THEN 0 ELSE p.score)

Qt5(c, v) ==
    LET action(x, y) == CASE x > y -> 1 [] x < y -> 0 [] OTHER -> -1
        a == action(c[1], c[2])
        b == action(c[3], c[4])
    IN  CASE a = b -> LET fight == When(a = 1, -2 * U)
                          talk == When(a = 0, -U)
                      IN  <<fight, talk, fight, talk>>
          [] OTHER -> <<When(a = 1, 2 * U), 0, When(b = 1, 2 * U), 0>>

Qt6(c, v) ==
    LET aDies == c[3] > c[2]
        cDies == c[1] = 1
        dDies == c[2] > c[3] \/ c[4] > c[3]
    IN  <<When(~aDies, (1 + c[2]) * U), U + When(~aDies, U),
          When(~cDies, U + When(aDies, U)), When(~dDies, 3 * U),
          When(aDies /\ (cDies \/ dDies), 4 * U)>>

\* Each option is governed by the next one, and that by the one before.
Qt7(c, v) ==
    [i \in 1 .. 4 |-> LET by == <<2, 3, 4, 1>>[i]
                          for == <<4, 1, 2, 3>>[i]
                      IN  IF c[by] > 0 THEN (c[for] - c[by]) * U ELSE (i + 1) * Half]

Qt8(c, v) ==
    [i \in 1 .. 4 |->
        IF i \notin Chosen(c) THEN 0
        ELSE (IF i = Min(Chosen(c)) THEN (i + 1) * U ELSE -2 * U)
                 - When(Chosen(c) = {i}, 2 * U)]

Qt9(c, v) == <<IF c[1] % 2 = 1 THEN -3 * U ELSE 3 * U, 0>>

Qt10(c, v) == [i \in 1 .. 3 |-> IF (c[i] + i) % 2 = 1 THEN -i * U ELSE i * U]

Qt11(c, v) == IF c[1] % 2 = 0 THEN <<2 * U, -2 * U>> ELSE <<-2 * U, 2 * U>>

\* Those who cannot pay their option are given its price back, before the pool is
\* looked at; the price of an option is what tempScore takes away for it.
Qt12_price(select) == <<0, 1, 2, 4, 6, 0>>[select + 1]
Qt12_total(c, v) ==
    2 * v.n + c[2] + 2 * c[3] + 4 * c[4] + 6 * c[5]
      - MapThenSumSet(LAMBDA i : IF v.P[i].score < Qt12_price(v.P[i].select) * U
                                 THEN Qt12_price(v.P[i].select) ELSE 0, 1 .. v.n)
Qt12(c, v) ==
    <<0, -U, -2 * U, -4 * U, -6 * U,
      IF Draw(v, 1, 1000, 16) THEN Qt12_total(c, v) * U ELSE -15 * U>>
Qt12_scores(c, v) ==
    LET total == Qt12_total(c, v)
        price(p) == Qt12_price(p.select) * U
        kept(p) == p.score + When(p.score < price(p), price(p))
        overflows == ~Draw(v, 1, 1000, 16) /\ total > (32 * v.n) \div 10
    IN  Each(v, LAMBDA p :
            kept(p) + When(overflows /\ kept(p) >= price(p),
                           Over(price(p) * total, total - 2 * v.n)))

Qt13(c, v) == <<Half - c[4] * Half, IF c[4] % 2 = 0 THEN -2 * U ELSE Half,
                IF c[4] % 2 = 1 THEN -5 * Half ELSE Half, -Half>>

Qt14(c, v) == <<0, 0, 0>>
Qt14_scores(c, v) ==
    Each(v, LAMBDA p : CASE p.select = 0 -> Quot(p.score, 2)
                         [] p.select = 1 -> Over(SumScores(v, Choosers(v, 1)), c[2])
                         [] p.select = 2 -> -Quot(p.score, 2))

Qt15(c, v) == <<0, 0>>
Qt15_scores(c, v) ==
    LET first == Choosers(v, 0)
        scores == {v.P[i].score : i \in first}
        ends == {i \in first : v.P[i].score \in {Min(scores), Max(scores)}}
        down(s) == IF s > 0 THEN s - 2 * U ELSE s
        up(s) == IF s < 0 THEN s + 2 * U ELSE s
    IN  [i \in 1 .. v.n |->
            IF i \notin first THEN up(down(v.P[i].score))
            ELSE IF i \in ends THEN Over(SumScores(v, ends), Cardinality(ends))
            ELSE v.P[i].score]

Qt16(c, v) == <<IF c[1] % 2 = 1 THEN -c[1] * Half ELSE c[1] * Half, 0>>

Qt17(c, v) == <<IF Draw(v, 1, 100, 5) THEN -U ELSE 2 * U,
                When(Draw(v, 2, 100, 10), 24 * U), 13 * U - 7 * c[2] * Quarter,
                When(c[1] = 0, 12 * U), (c[1] + c[2] - c[3] + c[4]) * U,
                IF Draw(v, 3, 1000, 25) THEN 1919810 * U ELSE -114514 * U>>

Qt18(c, v) == <<0, 0, 0, 0, 0>>
Qt18_scores(c, v) ==
    LET met == <<c[1] = 1, c[2] = 2, c[3] = 3, c[4] >= 2, FALSE>>
        gain == <<4 * U, 2 * U, -3 * U, -U, 0>>
        turned == (\A i \in 1 .. 4 : ~met[i]) \/ c[5] = 4
        new(p) == p.score + When(met[p.select + 1], gain[p.select + 1])
    IN  Each(v, LAMBDA p : IF turned THEN -new(p) ELSE new(p))

Qt19(c, v) == <<IF c[1] = v.mx THEN -c[1] * U ELSE 3 * U, -2 * U>>

\* The first option wins if all who are third from below or lower have chosen it.
Qt20_lowest(v) == {i \in 1 .. v.n : v.P[i].score <= Ranked(v.P)[3]}
Qt20(c, v) ==
    LET first == Qt20_lowest(v) \subseteq Choosers(v, 0)
        win == IF first THEN 1 ELSE IF c[2] < c[3] THEN 2 ELSE 3
    IN  [i \in 1 .. 3 |->
            When(~(first /\ c[1] = v.n), IF i = win THEN (v.n - c[i]) * U ELSE -c[win] * U)]
Qt20_scores(c, v) == Each(v, LAMBDA p : IF c[1] = v.n THEN -p.score ELSE p.score)

Qt21(c, v) == <<When(c[2] = 0, 5 * U), -3 * U, When(c[1] > 0, -2 * U)>>
Qt21_scores(c, v) == Each(v, LAMBDA p : IF c[2] > 0 /\ p.select = 0 THEN 0 ELSE p.score)

Qt22(c, v) == <<c[1] * U, 3 * c[1] * Half - c[2] * U, (2 * c[1] - c[3]) * U>>

\* The poor lose as well: 45 percent of a negative score are added to it.
Qt23(c, v) == <<0, -c[2] * U, -3 * c[3] * Half>>
Qt23_scores(c, v) ==
    Each(v, LAMBDA p : p.score - When(p.select = 0, Quot(45 * Abs(p.score), 100)))

Qt24(c, v) ==
    LET percent == IF v.n > 8 THEN 10 ELSE 16
        hit(k, x) == Draw(v, k, 100, x * percent)
        first == hit(1, c[2] + c[3])
        second == hit(2, c[1] - c[2])
        third == hit(3, c[1] + c[4])
        fourth == hit(4, c[1] + c[2] - c[4])
    IN  <<2 * U - When(first, 4 * U) - When(fourth, 4 * U), U - When(fourth, 4 * U),
          -2 * U + When(second, 2 * U) + When(third, 6 * U) + When(fourth, 5 * U), -3 * U>>

=============================================================================
