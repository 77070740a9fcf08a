------------------------------- MODULE Crowd -------------------------------
(***************************************************************************)
(* One question of the game "crowd": Question, its factory create_question  *)
(* and test_question (games/crowd/mygame.cc), and what calc does to the     *)
(* scores.  The questions 136 to 159 are those of test mode 2.              *)
(***************************************************************************)
EXTENDS CrowdQuestions, CrowdLaterQuestions, CrowdOldQuestions

k_question_num == 83
all_question_num == 135
t_question_num == 24

\* initOptions: how many options a question has for n players.
Options(q, n) ==
    CASE q = 61 -> Min({n, 20})
      [] q = 62 -> IF n < 5 THEN 4 ELSE (n + 4) \div 2
      [] q = 66 -> n \div 2 + 2
      [] q = 83 -> Min({n, 26})
      [] OTHER ->
    <<3, 2, 2, 5, 4, 3, 2, 2, 4, 4, 4, 4, 4, 4, 3, 3, 3, 3, 3, 3, 2, 5, 2, 4, 8, 3, 4, 4, 4, 4,
      4, 4, 3, 4, 3, 4, 4, 3, 4, 4, 5, 3, 3, 2, 4, 2, 3, 4, 5, 4, 3, 3, 4, 4, 3, 2, 5, 4, 5, 4,
      1, 1, 5, 3, 6, 1, 3, 2, 4, 4, 5, 5, 4, 4, 3, 4, 4, 5, 3, 5, 4, 4, 1, 5, 6, 4, 4, 4, 3, 8,
      4, 3, 4, 4, 3, 2, 3, 4, 4, 4, 4, 4, 4, 3, 4, 4, 4, 4, 5, 3, 4, 6, 5, 4, 5, 4, 4, 4, 5, 2,
      4, 4, 3, 4, 3, 5, 5, 7, 4, 4, 6, 5, 3, 3, 4, 2, 2, 4, 4, 4, 5, 4, 4, 2, 3, 2, 6, 4, 3, 2,
      2, 6, 5, 2, 3, 3, 3, 3, 4>>[q]

\* create_question and test_question, and the virtual call of calc.
Points(q, c, v) ==
    CASE q = 1 -> Q1(c, v) [] q = 2 -> Q2(c, v) [] q = 3 -> Q3(c, v) [] q = 4 -> Q4(c, v)
      [] q = 5 -> Q5(c, v) [] q = 6 -> Q6(c, v) [] q = 7 -> Q7(c, v)
      [] q = 8 -> Q8(c, v) [] q = 9 -> Q9(c, v) [] q = 10 -> Q10(c, v)
      [] q = 11 -> Q11(c, v) [] q = 12 -> Q12(c, v) [] q = 13 -> Q13(c, v)
      [] q = 14 -> Q14(c, v) [] q = 15 -> Q15(c, v) [] q = 16 -> Q16(c, v)
      [] q = 17 -> Q17(c, v) [] q = 18 -> Q18(c, v) [] q = 19 -> Q19(c, v)
      [] q = 20 -> Q20(c, v) [] q = 21 -> Q21(c, v) [] q = 22 -> Q22(c, v)
      [] q = 23 -> Q23(c, v) [] q = 24 -> Q24(c, v) [] q = 25 -> Q25(c, v)
      [] q = 26 -> Q26(c, v) [] q = 27 -> Q27(c, v) [] q = 28 -> Q28(c, v)
      [] q = 29 -> Q29(c, v) [] q = 30 -> Q30(c, v) [] q = 31 -> Q31(c, v)
      [] q = 32 -> Q32(c, v) [] q = 33 -> Q33(c, v) [] q = 34 -> Q34(c, v)
      [] q = 35 -> Q35(c, v) [] q = 36 -> Q36(c, v) [] q = 37 -> Q37(c, v)
      [] q = 38 -> Q38(c, v) [] q = 39 -> Q39(c, v) [] q = 40 -> Q40(c, v)
      [] q = 41 -> Q41(c, v) [] q = 42 -> Q42(c, v) [] q = 43 -> Q43(c, v)
      [] q = 44 -> Q44(c, v) [] q = 45 -> Q45(c, v) [] q = 46 -> Q46(c, v)
      [] q = 47 -> Q47(c, v) [] q = 48 -> Q48(c, v) [] q = 49 -> Q49(c, v)
      [] q = 50 -> Q50(c, v) [] q = 51 -> Q51(c, v) [] q = 52 -> Q52(c, v)
      [] q = 53 -> Q53(c, v) [] q = 54 -> Q54(c, v) [] q = 55 -> Q55(c, v)
      [] q = 56 -> Q56(c, v) [] q = 57 -> Q57(c, v) [] q = 58 -> Q58(c, v)
      [] q = 59 -> Q59(c, v) [] q = 60 -> Q60(c, v) [] q = 61 -> Q61(c, v)
      [] q = 62 -> Q62(c, v) [] q = 63 -> Q63(c, v) [] q = 64 -> Q64(c, v)
      [] q = 65 -> Q65(c, v) [] q = 66 -> Q66(c, v) [] q = 67 -> Q67(c, v)
      [] q = 68 -> Q68(c, v) [] q = 69 -> Q69(c, v) [] q = 70 -> Q70(c, v)
      [] q = 71 -> Q71(c, v) [] q = 72 -> Q72(c, v) [] q = 73 -> Q73(c, v)
      [] q = 74 -> Q74(c, v) [] q = 75 -> Q75(c, v) [] q = 76 -> Q76(c, v)
      [] q = 77 -> Q77(c, v) [] q = 78 -> Q78(c, v) [] q = 79 -> Q79(c, v)
      [] q = 80 -> Q80(c, v) [] q = 81 -> Q81(c, v) [] q = 82 -> Q82(c, v)
      [] q = 83 -> Q83(c, v) [] q = 84 -> Q84(c, v) [] q = 85 -> Q85(c, v)
      [] q = 86 -> Q86(c, v) [] q = 87 -> Q87(c, v) [] q = 88 -> Q88(c, v)
      [] q = 89 -> Q89(c, v) [] q = 90 -> Q90(c, v) [] q = 91 -> Q91(c, v)
      [] q = 92 -> Q92(c, v) [] q = 93 -> Q93(c, v) [] q = 94 -> Q94(c, v)
      [] q = 95 -> Q95(c, v) [] q = 96 -> Q96(c, v) [] q = 97 -> Q97(c, v)
      [] q = 98 -> Q98(c, v) [] q = 99 -> Q99(c, v) [] q = 100 -> Q100(c, v)
      [] q = 101 -> Q101(c, v) [] q = 102 -> Q102(c, v) [] q = 103 -> Q103(c, v)
      [] q = 104 -> Q104(c, v) [] q = 105 -> Q105(c, v) [] q = 106 -> Q106(c, v)
      [] q = 107 -> Q107(c, v) [] q = 108 -> Q108(c, v) [] q = 109 -> Q109(c, v)
      [] q = 110 -> Q110(c, v) [] q = 111 -> Q111(c, v) [] q = 112 -> Q112(c, v)
      [] q = 113 -> Q113(c, v) [] q = 114 -> Q114(c, v) [] q = 115 -> Q115(c, v)
      [] q = 116 -> Q116(c, v) [] q = 117 -> Q117(c, v) [] q = 118 -> Q118(c, v)
      [] q = 119 -> Q119(c, v) [] q = 120 -> Q120(c, v) [] q = 121 -> Q121(c, v)
      [] q = 122 -> Q122(c, v) [] q = 123 -> Q123(c, v) [] q = 124 -> Q124(c, v)
      [] q = 125 -> Q125(c, v) [] q = 126 -> Q126(c, v) [] q = 127 -> Q127(c, v)
      [] q = 128 -> Q128(c, v) [] q = 129 -> Q129(c, v) [] q = 130 -> Q130(c, v)
      [] q = 131 -> Q131(c, v) [] q = 132 -> Q132(c, v) [] q = 133 -> Q133(c, v)
      [] q = 134 -> Q134(c, v) [] q = 135 -> Q135(c, v) [] q = 136 -> Qt1(c, v)
      [] q = 137 -> Qt2(c, v) [] q = 138 -> Qt3(c, v) [] q = 139 -> Qt4(c, v)
      [] q = 140 -> Qt5(c, v) [] q = 141 -> Qt6(c, v) [] q = 142 -> Qt7(c, v)
      [] q = 143 -> Qt8(c, v) [] q = 144 -> Qt9(c, v) [] q = 145 -> Qt10(c, v)
      [] q = 146 -> Qt11(c, v) [] q = 147 -> Qt12(c, v) [] q = 148 -> Qt13(c, v)
      [] q = 149 -> Qt14(c, v) [] q = 150 -> Qt15(c, v) [] q = 151 -> Qt16(c, v)
      [] q = 152 -> Qt17(c, v) [] q = 153 -> Qt18(c, v) [] q = 154 -> Qt19(c, v)
      [] q = 155 -> Qt20(c, v) [] q = 156 -> Qt21(c, v) [] q = 157 -> Qt22(c, v)
      [] q = 158 -> Qt23(c, v) [] q = 159 -> Qt24(c, v)

Scores(q, c, v) ==
    CASE q = 7 -> Q7_scores(c, v) [] q = 21 -> Q21_scores(c, v)
      [] q = 23 -> Q23_scores(c, v) [] q = 30 -> Q30_scores(c, v)
      [] q = 37 -> Q37_scores(c, v) [] q = 38 -> Q38_scores(c, v)
      [] q = 56 -> Q56_scores(c, v) [] q = 93 -> Q93_scores(c, v)
      [] q = 97 -> Q97_scores(c, v) [] q = 99 -> Q99_scores(c, v)
      [] q = 101 -> Q101_scores(c, v) [] q = 104 -> Q104_scores(c, v)
      [] q = 108 -> Q108_scores(c, v) [] q = 116 -> Q116_scores(c, v)
      [] q = 120 -> Q120_scores(c, v) [] q = 121 -> Q121_scores(c, v)
      [] q = 122 -> Q122_scores(c, v) [] q = 126 -> Q126_scores(c, v)
      [] q = 136 -> Qt1_scores(c, v) [] q = 137 -> Qt2_scores(c, v)
      [] q = 139 -> Qt4_scores(c, v) [] q = 147 -> Qt12_scores(c, v)
      [] q = 149 -> Qt14_scores(c, v) [] q = 150 -> Qt15_scores(c, v)
      [] q = 153 -> Qt18_scores(c, v) [] q = 155 -> Qt20_scores(c, v)
      [] q = 156 -> Qt21_scores(c, v) [] q = 158 -> Qt23_scores(c, v)
      [] OTHER -> Each(v, LAMBDA p : p.score)

\* What is left to chance: the draws of rand(), which options partial_sort puts
\* first among equals, and the variable of question 86 that is not assigned.
Draws(q) == CASE q \in {10, 59, 95, 98, 99, 147} -> 1 [] q = 152 -> 3 [] q = 159 -> 4 [] OTHER -> 0

Tops(q, c) ==
    IF q \notin {84, 105} THEN {{}}
    ELSE {T \in kSubset(2, {i - 1 : i \in DOMAIN c}) :
            \A i \in T, j \in {k - 1 : k \in DOMAIN c} \ T : c[i + 1] >= c[j + 1]}

Chances(q, c) ==
    {[low |-> low, top |-> top, garbage |-> garbage] :
        low \in [1 .. Draws(q) -> BOOLEAN], top \in Tops(q, c),
        garbage \in IF q = 86 THEN {0, Endless} ELSE {0}}

\* initCalc, calc and quickScore: the scores after the question.
Calc(q, P, chance) ==
    LET c == CountChoices(P, Options(q, Len(P)))
        v == View(P, c, chance)
        points == Points(q, c, v)
        scores == Scores(q, c, v)
    IN  [i \in 1 .. Len(P) |-> scores[i] + points[P[i].select + 1]]

=============================================================================
