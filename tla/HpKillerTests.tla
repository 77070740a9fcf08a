---------------------------- MODULE HpKillerTests ----------------------------
(***************************************************************************)
(* The games that the tests of hp_killer play (games/hp_killer/unittest.cc): *)
(* the roles in the order of the players, the options, and the lines, each   *)
(* with what it expects.  Left out are the tests that are disabled, and      *)
(* those that only start a game of random roles.                             *)
(***************************************************************************)
EXTENDS Integers, Sequences, FiniteSetsExt, SequencesExt

LOCAL A == 1
LOCAL B == 2
LOCAL C == 3
LOCAL D == 4
LOCAL E == 5
LOCAL F == 6

LOCAL Usual == [roles |-> <<>>, hp |-> 100, rounds |-> 20, cures |-> 3, night |-> FALSE,
                open |-> FALSE, script |-> <<>>, said |-> {},
                acts |-> 0]

\* The lines, by the answer that is expected.
LOCAL Says(answer, p, act) == [do |-> "say", pid |-> p, act |-> act, answer |-> answer]
LOCAL Ok(p, act) == Says("OK", p, act)
LOCAL Nxt(p, act) == Says("CONTINUE", p, act)
LOCAL End(p, act) == Says("CHECKOUT", p, act)
LOCAL No(p, act) == Says("FAILED", p, act)
LOCAL Unread(p, act) == Says("NOT_FOUND", p, act)
LOCAL Late == [do |-> "timeout", answer |-> "CONTINUE"]
LOCAL LateEnd == [do |-> "timeout", answer |-> "CHECKOUT"]
LOCAL Gone(p) == [do |-> "eliminated", pid |-> p]
LOCAL Won(S) == [do |-> "score", winners |-> S]
LOCAL Running == [do |-> "running"]
LOCAL Refused(n) == [do |-> "refused", n |-> n]
LOCAL Accepted(n) == [do |-> "accepted", n |-> n]
LOCAL Times(n, steps) == FlattenSeq([i \in 1 .. n |-> steps])

\* What is said.
LOCAL Action(kind, on, hp) == [kind |-> kind, on |-> on, hp |-> hp]
LOCAL HitAll(on, hp) == Action("attack", on, [i \in 1 .. Max({1, Len(on)}) |-> hp])
LOCAL Hit(t, hp) == Action("attack", <<t>>, <<hp>>)
LOCAL Heal(t, hp) == Action("cure", <<t>>, <<hp>>)
LOCAL Hex(t, hp) == Action("curse", <<t>>, <<hp>>)
LOCAL Guarding(on, hp) == Action("shield", on, hp)
LOCAL Charge(on, hp) == Action("assign", on, hp)
LOCAL Fire(on) == Action("release", on, <<>>)
LOCAL Spy(t) == Action("detect", <<t>>, <<>>)
LOCAL Cover(t) == Action("block", <<t>>, <<>>)
LOCAL Conjure(t) == Action("exorcise", <<t>>, <<>>)
LOCAL Sleep == Action("night", <<>>, <<>>)
LOCAL Idle == Action("pass", <<>>, <<>>)

\* From player_not_enough on.
HuntTests1 == <<
    [Usual EXCEPT !.roles = <<>>,
        !.script = <<Refused(4)>>],
    [Usual EXCEPT !.roles = <<"double", "civilian", "civilian", "goddess", "guard", "civilian">>,
        !.script = <<Refused(5)>>],
    [Usual EXCEPT !.roles = <<"double", "civilian", "civilian", "goddess", "guard">>,
        !.script = <<Refused(5)>>],
    [Usual EXCEPT !.roles = <<"killer", "killer", "double", "goddess", "guard">>,
        !.script = <<Refused(5)>>],
    [Usual EXCEPT !.roles = <<"double", "killer", "civilian", "goddess", "guard">>,
        !.script = <<Accepted(5), Ok(0, Cover(A))>>],
    [Usual EXCEPT !.roles = <<"double", "killer", "civilian", "goddess", "guard", "puppet">>,
        !.script = <<Accepted(5), Ok(0, Cover(A))>>],
    [Usual EXCEPT !.roles = <<"double", "killer", "civilian", "goddess", "detective">>,
        !.script = <<Ok(0, Heal(A, 10)), Late, Nxt(0, Heal(A, 10)), Nxt(0, Heal(A, 10)),
        No(0, Heal(A, 10))>>],
    [Usual EXCEPT !.roles = <<"killer", "double", "civilian", "civilian", "civilian">>, !.hp = 15,
        !.script = <<Late, Nxt(1, Hit(B, 15)), Gone(1), Nxt(0, Idle)>>],
    [Usual EXCEPT !.roles = <<"killer", "double", "civilian", "civilian", "civilian">>, !.hp = 15,
        !.script = <<Late, Nxt(0, Hit(B, 25)), No(0, Heal(B, 10)), No(0, Hit(B, 15))>>],
    [Usual EXCEPT !.roles = <<"killer", "double", "detective", "civilian", "civilian">>,
        !.hp = 15,
        !.script = <<Late, Nxt(0, Hit(B, 25)), Ok(2, Spy(B))>>],
    [Usual EXCEPT !.roles = <<"double", "killer", "civilian", "goddess", "detective">>,
        !.script = <<Ok(1, Hit(C, 25)), Late>> \o Times(4, <<Nxt(1, Hit(D, 25)),
        Nxt(1, Hit(E, 25))>>) \o <<Nxt(1, Hit(C, 25)), Nxt(1, Hit(C, 25)), End(1, Hit(C, 25)),
        Won({0, 1})>>],
    [Usual EXCEPT !.roles = <<"double", "killer", "civilian", "civilian", "detective">>,
        !.script = <<Ok(1, Hit(C, 25)), Late>> \o
        Times(4, <<Nxt(1, Hit(D, 25))>>) \o <<Nxt(1, Hit(C, 25)), Nxt(1, Hit(C, 25)),
        End(1, Hit(C, 25)), Won({0, 1})>>]>>

\* From civilian_win on.
HuntTests2 == <<
    [Usual EXCEPT !.roles = <<"double", "killer", "civilian", "goddess", "detective">>,
        !.script = <<Ok(1, Hit(B, 25)), Late, Nxt(1, Hit(B, 25)), Nxt(1, Hit(B, 25)),
        End(1, Hit(B, 25)), Won({2, 3, 4})>>],
    [Usual EXCEPT !.roles = <<"double", "killer", "civilian", "goddess", "detective">>,
        !.script = <<Ok(1, Hit(C, 25)), Late>> \o Times(4, <<Nxt(1, Hit(D, 25)),
        Nxt(1, Hit(E, 25))>>) \o <<Nxt(1, Hit(C, 25)), Nxt(1, Hit(C, 25)), Nxt(1, Hit(C, 15)),
        Nxt(1, Hit(B, 25)), Nxt(1, Hit(B, 25)), Nxt(1, Hit(B, 25)), Ok(0, Hit(C, 15)),
        End(1, Hit(B, 25)), Won({0, 1})>>],
    [Usual EXCEPT !.roles = <<"double", "killer", "civilian", "goddess", "detective">>, !.hp = 50,
        !.script = <<Ok(1, Hit(A, 25)), Late, Nxt(1, Hit(A, 25)), Gone(0)>>],
    [Usual EXCEPT !.roles = <<"double", "killer", "civilian", "goddess", "detective">>,
        !.script = <<No(0, Hit(A, 25)), No(2, Hit(A, 25)), No(3, Hit(A, 25)), No(4, Hit(A, 25))>>],
    [Usual EXCEPT !.roles = <<"double", "killer", "civilian", "goddess", "detective">>, !.hp = 75,
        !.script = <<Ok(0, Cover(B)), Ok(1, Hit(B, 25)), Ok(2, Hit(B, 15)), Ok(3, Hit(B, 15)),
        Nxt(4, Hit(B, 15)), Ok(1, Hit(A, 15)), Late, Gone(0)>>],
    [Usual EXCEPT !.roles = <<"double", "killer", "civilian", "goddess", "detective">>, !.hp = 60,
        !.script = <<Ok(0, Cover(C)), Ok(1, Hit(C, 25)), Ok(2, Hit(C, 15)), Ok(3, Idle),
        Nxt(4, Hit(C, 15)), Ok(2, Hit(A, 15)), Late, Gone(0)>>],
    [Usual EXCEPT !.roles = <<"double", "killer", "civilian", "goddess", "detective">>, !.hp = 15,
        !.script = <<Late, Nxt(3, Hit(C, 15)), Nxt(3, Idle), Nxt(3, Hit(D, 15)), Nxt(3, Idle),
        Nxt(3, Hit(E, 15)), Nxt(3, Idle), End(3, Hit(B, 15)), Won({2, 3, 4})>>],
    [Usual EXCEPT !.roles = <<"double", "killer", "goddess", "civilian", "traitor">>, !.hp = 5,
        !.script = <<Ok(2, Hit(E, 15)), Late, Gone(4)>>],
    [Usual EXCEPT !.roles = <<"double", "killer", "civilian", "goddess", "detective">>,
        !.script = <<Ok(3, Hit(C, 15)), Late, No(3, Hit(C, 15))>>],
    [Usual EXCEPT !.roles = <<"double", "killer", "civilian", "goddess", "detective">>,
        !.script = <<Ok(3, Heal(A, 10)), Late>> \o Times(10, <<Nxt(3, Heal(A, 10))>>)],
    [Usual EXCEPT !.roles = <<"double", "killer", "civilian", "goddess", "detective">>,
        !.script = <<No(4, Spy(A)), Late, Nxt(4, Spy(A))>>]>>

\* From detective_cant_repeat_detect on.
HuntTests3 == <<
    [Usual EXCEPT !.roles = <<"double", "killer", "civilian", "goddess", "detective">>,
        !.script = <<Late, Nxt(4, Spy(A)), No(4, Spy(A))>>],
    [Usual EXCEPT !.roles = <<"killer", "civilian", "goddess", "detective", "traitor">>,
        !.script = <<Late>> \o Times(4, <<Nxt(0, Hit(A, 25))>>) \o
        Times(6, <<Nxt(1, Hit(E, 15))>>) \o <<End(1, Hit(E, 15)), Won({1, 2, 3})>>],
    [Usual EXCEPT !.roles = <<"killer", "civilian", "goddess", "detective", "firstTraitor">>,
        !.script = <<Late>> \o Times(4, <<Nxt(0, Hit(A, 25))>>) \o
        Times(6, <<Nxt(1, Hit(E, 15))>>) \o <<End(1, Hit(E, 15)), Won({1, 2, 3})>>],
    [Usual EXCEPT !.roles = <<"killer", "civilian", "goddess", "detective", "traitor">>,
        !.script = <<Late>> \o Times(4, <<Nxt(0, Hit(B, 25)), Nxt(0, Hit(C, 25)),
        Nxt(0, Hit(D, 25))>>) \o Times(3, <<Nxt(0, Hit(E, 25))>>) \o <<End(0, Hit(E, 25)),
        Won({0})>>],
    [Usual EXCEPT !.roles = <<"killer", "civilian", "goddess", "detective", "traitor">>,
        !.script = <<Late>> \o Times(4, <<Nxt(0, Hit(E, 25))>>) \o Times(4, <<Nxt(0, Hit(B, 25)),
        Nxt(0, Hit(C, 25))>>) \o <<Nxt(0, Hit(A, 25)), Nxt(0, Hit(A, 25)), Nxt(0, Hit(A, 15)),
        Nxt(0, Hit(D, 25)), Nxt(0, Hit(D, 25)), Nxt(0, Hit(D, 25)), Ok(3, Hit(A, 15)),
        End(0, Hit(D, 25)), Won({0})>>],
    [Usual EXCEPT !.roles = <<"killer", "civilian", "goddess", "detective", "traitor">>,
        !.rounds = 100,
        !.script = <<Late>> \o Times(4, <<Nxt(0, Hit(A, 25))>>) \o Times(6, <<Nxt(4, Hit(B, 15)),
        Nxt(4, Hit(C, 15)), Nxt(4, Hit(D, 15))>>) \o <<Nxt(4, Hit(B, 15)), Nxt(4, Hit(C, 15)),
        End(4, Hit(D, 15)), Won({4})>>],
    [Usual EXCEPT !.roles = <<"killer", "civilian", "civilian", "civilian", "traitor">>,
        !.rounds = 100,
        !.script = <<Late>> \o Times(4, <<Nxt(0, Hit(A, 25))>>) \o <<Nxt(4, Idle)>> \o
        Times(6, <<Ok(1, Hit(B, 15)), Ok(2, Hit(C, 15)), Ok(3, Hit(D, 15)),
        Nxt(4, Hit(E, 15))>>) \o <<Ok(1, Hit(B, 15)), Ok(2, Hit(C, 15)), Ok(3, Hit(D, 15)),
        End(4, Hit(E, 15)), Won({4})>>],
    [Usual EXCEPT !.roles = <<"killer", "civilian", "civilian", "civilian", "traitor">>,
        !.rounds = 100,
        !.script = Times(6, <<Ok(0, Hit(A, 15)), Ok(1, Hit(B, 15)), Ok(2, Hit(C, 15)),
        Ok(3, Hit(D, 15)), Nxt(4, Hit(E, 15))>>) \o <<Ok(0, Hit(A, 15)), Ok(1, Hit(B, 15)),
        Ok(2, Hit(C, 15)), Ok(3, Hit(D, 15)), End(4, Hit(E, 15)), Won({4})>>]>>

\* From both_civilian_and_killer_lose_in_the_first_round on.
HuntTests4 == <<
    [Usual EXCEPT !.roles = <<"killer", "civilian", "civilian", "goddess", "guard">>, !.hp = 15,
        !.script = <<Ok(0, Hit(A, 15)), Ok(1, Hit(B, 15)), Ok(2, Hit(C, 15)), LateEnd, Won({0})>>],
    [Usual EXCEPT !.roles = <<"killer", "double", "civilian", "civilian", "traitor">>,
        !.rounds = 100,
        !.script = <<Late, Nxt(2, Idle)>> \o Times(7, <<Ok(1, Idle),
        Nxt(2, Hit(A, 15))>>) \o <<Gone(1), Nxt(2, Idle)>>],
    [Usual EXCEPT
        !.roles = <<"killer", "detective", "goddess", "civilian", "civilian", "traitor">>,
        !.script = <<Late>> \o Times(4, <<Nxt(0, Hit(B, 25)), Nxt(0, Hit(C, 25)),
        Nxt(0, Hit(D, 25))>>) \o <<Gone(1), Gone(2), Gone(3), Gone(4)>>],
    [Usual EXCEPT !.roles = <<"killer", "double", "civilian", "civilian", "traitor">>,
        !.rounds = 100,
        !.script = <<No(4, Hit(B, 25)), Late>> \o
        Times(4, <<Nxt(0, Hit(A, 25))>>) \o <<Nxt(4, Hit(B, 25))>>],
    [Usual EXCEPT !.roles = <<"civilian", "killer", "goddess", "civilian", "traitor">>,
        !.script = <<Late>> \o Times(4, <<Nxt(1, Hit(C, 25)), Nxt(1, Hit(D, 25)),
        Nxt(1, Hit(E, 25))>>) \o <<Running>>],
    [Usual EXCEPT !.roles = <<"double", "killer", "civilian", "civilian", "traitor">>,
        !.rounds = 6,
        !.script = <<Late>> \o Times(4, <<Nxt(1, Hit(B, 25))>>) \o <<LateEnd, Won({2, 3, 4})>>],
    [Usual EXCEPT !.roles = <<"killer", "goddess", "detective", "civilian", "traitor">>,
        !.rounds = 14,
        !.script = <<Late>> \o Times(4, <<Nxt(0, Hit(B, 25)), Nxt(0, Hit(C, 25)),
        Nxt(0, Hit(D, 25))>>) \o <<LateEnd, Won({0, 4})>>],
    [Usual EXCEPT !.roles = <<"killer", "goddess", "detective", "civilian", "traitor">>,
        !.rounds = 6,
        !.script = <<Late>> \o Times(4, <<Nxt(0, Hit(E, 25))>>) \o <<LateEnd, Won({0, 1, 2, 3})>>],
    [Usual EXCEPT !.roles = <<"killer", "goddess", "detective", "sorcerer", "ghost">>,
        !.script = <<Late>> \o Times(4, <<Nxt(0, Hit(E, 25))>>) \o <<Late>> \o
        Times(3, <<Nxt(4, Heal(A, 10))>>) \o <<No(4, Heal(A, 10))>>],
    [Usual EXCEPT !.roles = <<"killer", "goddess", "detective", "sorcerer", "ghost">>,
        !.script = <<Late>> \o Times(4, <<Nxt(0, Hit(E, 25))>>) \o <<Late, Nxt(3, Conjure(E)),
        Gone(4)>>]>>

\* From ghost_is_detected_when_move_after_death_cant_act on.
HuntTests5 == <<
    [Usual EXCEPT !.roles = <<"killer", "goddess", "detective", "sorcerer", "ghost">>, !.hp = 15,
        !.script = <<Late, Nxt(4, Idle), Ok(2, Spy(E)), Nxt(4, Hit(B, 15)), Ok(2, Hit(E, 15)),
        Nxt(4, Idle), Ok(2, Spy(E)), Nxt(4, Idle), Ok(2, Idle), Nxt(4, Idle), Ok(2, Spy(E)),
        Nxt(4, Hit(D, 15)), Gone(1), Gone(3), Gone(4)>>],
    [Usual EXCEPT !.roles = <<"killer", "goddess", "detective", "sorcerer", "ghost">>,
        !.script = <<No(3, Conjure(A)), No(3, Conjure(B)), No(3, Conjure(C)), No(3, Conjure(D)),
        No(3, Conjure(E))>>],
    [Usual EXCEPT !.roles = <<"killer", "goddess", "detective", "sorcerer", "ghost">>, !.hp = 15,
        !.script = <<Ok(3, Idle), Ok(4, Hit(E, 15)), Late, Ok(3, Conjure(E)), Nxt(4, Hit(B, 15)),
        Gone(1), Gone(4)>>],
    [Usual EXCEPT !.roles = <<"killer", "goddess", "detective", "sorcerer", "ghost">>, !.hp = 15,
        !.script = <<Ok(3, Idle), Ok(2, Hit(C, 15)), Ok(4, Hit(E, 15)), Late, Gone(2),
        Ok(3, Conjure(C)), Late, No(3, Conjure(E))>>],
    [Usual EXCEPT !.roles = <<"killer", "goddess", "detective", "sorcerer", "ghost">>, !.hp = 30,
        !.script = <<Late, Nxt(4, Hit(E, 15)), Ok(3, Idle), Nxt(4, Hit(E, 15)), Ok(3, Conjure(E)),
        Nxt(4, Hit(B, 15)), Gone(4), Late, Nxt(1, Hit(C, 15))>>],
    [Usual EXCEPT !.roles = <<"killer", "goddess", "detective", "sorcerer", "ghost">>, !.hp = 15,
        !.script = <<Ok(3, Idle), Ok(4, Hit(D, 15)), Late, Gone(3), Ok(0, Hit(E, 15))>>],
    [Usual EXCEPT !.roles = <<"killer", "goddess", "detective", "sorcerer", "ghost">>, !.hp = 15,
        !.script = <<No(4, Heal(D, 15))>>],
    [Usual EXCEPT !.roles = <<"killer", "civilian", "civilian", "double", "assassin">>, !.hp = 15,
        !.script = <<Late, No(4, Hit(B, 1)), No(4, Hit(B, 20)), No(4, Hit(B, 25)),
        Nxt(4, Hit(B, 5)), Ok(1, Idle), Nxt(4, Hit(B, 5)), Ok(1, Idle), Nxt(4, Hit(B, 5)),
        Gone(1)>>],
    [Usual EXCEPT !.roles = <<"killer", "civilian", "double", "double", "assassin">>, !.hp = 1,
        !.script = <<Late, Nxt(4, Hit(B, 0)), Ok(1, Idle)>>],
    [Usual EXCEPT !.roles = <<"killer", "civilian", "goddess", "detective", "assassin">>,
        !.hp = 5,
        !.script = <<Late, End(4, HitAll(<<B, C, D>>, 5)), Won({0, 4})>>]>>

\* From assassin_invalid_hurt on.
HuntTests6 == <<
    [Usual EXCEPT
        !.roles = <<"killer", "civilian", "goddess", "detective", "assassin", "civilian">>,
        !.script = <<Late, No(4, HitAll(<<>>, 15)), No(4, HitAll(<<A, B, C, D, E, F>>, 5)),
        Nxt(4, HitAll(<<A, B, C, D, E>>, 5)), No(4, HitAll(<<A, B, C>>, 10)),
        Nxt(4, HitAll(<<A, B>>, 10)), No(4, HitAll(<<A, B>>, 15)), Nxt(4, Hit(A, 15)),
        No(4, HitAll(<<A, B>>, 0)), Nxt(4, Hit(A, 0))>>],
    [Usual EXCEPT !.roles = <<"killer", "civilian", "goddess", "detective", "assassin">>,
        !.script = <<Late, No(0, HitAll(<<>>, 5)), No(0, HitAll(<<A, B>>, 5))>>],
    [Usual EXCEPT !.roles = <<"killer", "double", "ghost", "guard", "assassin">>, !.hp = 1,
        !.script = <<Late, No(4, HitAll(<<A, B, B, C, D>>, 5))>>],
    [Usual EXCEPT !.roles = <<"killer", "double", "ghost", "guard", "civilian">>,
        !.script = <<No(3, Guarding(<<>>, <<>>)), No(3, Guarding(<<A, B, C>>, <<100, 100, 100>>)),
        No(3, Guarding(<<A, A>>, <<100, 100>>))>>],
    [Usual EXCEPT !.roles = <<"killer", "double", "ghost", "guard", "civilian">>,
        !.script = <<Late, Nxt(3, Guarding(<<A, B>>, <<100, 100>>)),
        No(3, Guarding(<<A>>, <<100>>)), No(3, Guarding(<<B>>, <<100>>)),
        No(3, Guarding(<<A, B>>, <<100, 100>>)), No(3, Guarding(<<B, C>>, <<100, 100>>)),
        Nxt(3, Guarding(<<C>>, <<100>>)), No(3, Guarding(<<C>>, <<100>>)),
        Nxt(3, Guarding(<<A, B>>, <<100, 100>>)), Nxt(3, Hit(C, 15)),
        Nxt(3, Guarding(<<A>>, <<100>>)), Late, Nxt(3, Guarding(<<A>>, <<100>>))>>],
    [Usual EXCEPT !.roles = <<"killer", "double", "ghost", "guard", "civilian">>, !.hp = 15,
        !.script = <<Ok(1, Hit(D, 15)), Ok(4, Hit(D, 15)), Ok(3, Guarding(<<D>>, <<-15>>)), Late,
        Gone(1), Gone(4)>>],
    [Usual EXCEPT !.roles = <<"killer", "double", "ghost", "guard", "civilian">>, !.hp = 15,
        !.script = <<Ok(1, Hit(C, 15)), Ok(4, Hit(D, 15)), Ok(3, Guarding(<<C, D>>, <<0, 0>>)),
        Late, Gone(1), Gone(4)>>],
    [Usual EXCEPT !.roles = <<"killer", "double", "ghost", "guard", "civilian">>, !.hp = 15,
        !.script = <<Ok(1, Hit(B, 15)), Ok(3, Guarding(<<B>>, <<0>>)), Late, Gone(1)>>],
    [Usual EXCEPT !.roles = <<"killer", "double", "ghost", "guard", "civilian">>, !.hp = 15,
        !.script = <<Ok(1, Hit(E, 15)), Ok(4, Hit(B, 15)), Ok(3, Guarding(<<B, E>>, <<0, 0>>)),
        Late, Gone(1), Gone(4)>>],
    [Usual EXCEPT !.roles = <<"killer", "double", "ghost", "guard", "civilian">>, !.hp = 25,
        !.script = <<Ok(0, Heal(D, 10)), Ok(3, Guarding(<<D>>, <<35>>)), Late, Ok(0, Hit(D, 25)),
        Late, Ok(3, Idle)>>]>>

\* From shield_anti_takes_no_effects_when_blocked_hurt on.
HuntTests7 == <<
    [Usual EXCEPT !.roles = <<"killer", "double", "civilian", "guard", "civilian">>, !.hp = 15,
        !.script = <<Ok(0, Heal(D, 10)), Ok(1, Cover(D)), Ok(2, Hit(D, 15)),
        Ok(3, Guarding(<<D>>, <<25>>)), Late, Gone(1), Ok(2, Hit(D, 15)), Ok(3, Idle), Late,
        Ok(3, Idle)>>],
    [Usual EXCEPT !.roles = <<"killer", "double", "civilian", "guard", "civilian">>, !.hp = 15,
        !.script = <<Ok(0, Hit(D, 25)), Ok(1, Cover(A)), Ok(3, Guarding(<<D>>, <<-10>>)), LateEnd,
        Won({2, 3, 4})>>],
    [Usual EXCEPT !.roles = <<"killer", "double", "civilian", "guard", "goddess">>, !.hp = 15,
        !.script = <<Ok(4, Hit(D, 15)), Ok(3, Guarding(<<D>>, <<15>>)), Late, Ok(4, Idle),
        Nxt(3, Idle)>>],
    [Usual EXCEPT !.roles = <<"killer", "double", "civilian", "guard", "goddess", "puppet">>,
        !.hp = 15,
        !.script = <<Ok(4, Hit(F, 15)), Late, No(0, Hit(F, 15))>>],
    [Usual EXCEPT !.roles = <<"killer", "evilTwin", "goodTwin", "civilian", "guard">>,
        !.script = <<No(1, Hit(B, 15)), No(2, Hit(B, 15)), No(1, Hit(C, 15)), No(2, Hit(C, 15)),
        Ok(1, Hit(D, 15)), Ok(2, Hit(D, 15))>>],
    [Usual EXCEPT !.roles = <<"killer", "evilTwin", "goodTwin", "civilian", "guard">>, !.hp = 15,
        !.script = <<Late, Nxt(0, Hit(C, 15)), End(0, Hit(A, 15)), Won({1, 2, 3, 4})>>],
    [Usual EXCEPT !.roles = <<"killer", "evilTwin", "goodTwin", "civilian", "guard">>, !.hp = 15,
        !.script = <<Late, Nxt(0, Hit(B, 15)), End(0, Hit(A, 15)), Won({3, 4})>>],
    [Usual EXCEPT !.roles = <<"killer", "evilTwin", "goodTwin", "civilian", "guard">>, !.hp = 15,
        !.script = <<Ok(0, Hit(B, 15)), Ok(3, Hit(C, 15)), Late, Ok(0, Hit(A, 15)), LateEnd,
        Won({2, 3, 4})>>],
    [Usual EXCEPT !.roles = <<"killer", "evilTwin", "goodTwin", "civilian", "guard">>, !.hp = 15,
        !.script = <<Ok(0, Hit(A, 15)), Ok(3, Hit(C, 15)), LateEnd, Won({2, 3, 4})>>],
    [Usual EXCEPT !.roles = <<"killer", "evilTwin", "goodTwin", "civilian", "guard">>, !.hp = 15,
        !.script = <<Ok(0, Hit(D, 15)), Ok(1, Hit(E, 15)), Ok(3, Hit(B, 15)), LateEnd,
        Won({0, 1})>>],
    [Usual EXCEPT !.roles = <<"killer", "witch", "guard", "civilian", "civilian">>,
        !.script = <<Refused(5)>>],
    [Usual EXCEPT !.roles = <<"killer", "witch", "knight", "civilian", "civilian">>,
        !.script = <<No(0, Hex(A, 5))>>],
    [Usual EXCEPT !.roles = <<"killer", "witch", "knight", "civilian", "civilian">>,
        !.script = <<No(1, Hex(A, 6))>>],
    [Usual EXCEPT !.roles = <<"killer", "witch", "knight", "civilian", "civilian">>, !.hp = 5,
        !.script = <<Ok(1, Hex(A, 5)), Late, Late>>]>>

\* From curse_do_not_hurt_when_target_takes_no_actions on.
HuntTests8 == <<
    [Usual EXCEPT !.roles = <<"killer", "witch", "knight", "civilian", "civilian">>, !.hp = 10,
        !.script = <<Ok(0, Heal(B, 10)), Ok(1, Hex(A, 5)), Late, Late>>],
    [Usual EXCEPT !.roles = <<"killer", "witch", "knight", "civilian", "civilian">>,
        !.script = <<No(1, Hit(A, 15)), No(1, Hit(A, 0))>>],
    [Usual EXCEPT !.roles = <<"killer", "witch", "knight", "civilian", "civilian">>, !.hp = 15,
        !.script = <<Ok(0, Heal(B, 10)), Ok(1, Hex(A, 5)), Late, Ok(0, Heal(B, 10)), Late,
        End(0, Heal(B, 10)), Won({2, 3, 4})>>],
    [Usual EXCEPT !.roles = <<"killer", "witch", "witch", "knight", "civilian">>, !.hp = 20,
        !.script = <<Ok(0, Heal(B, 10)), Ok(1, Hex(A, 5)), Ok(2, Hex(A, 5)), Late,
        Ok(0, Heal(B, 10)), LateEnd, Won({3, 4})>>],
    [Usual EXCEPT !.roles = <<"killer", "witch", "knight", "civilian", "civilian">>,
        !.hp = 30, !.cures = 10,
        !.script = <<Ok(0, Heal(B, 10)), Ok(1, Hex(A, 5)), Late, Ok(0, Heal(B, 10)),
        Ok(2, Hit(A, 15)), Late, Ok(0, Heal(B, 10)), Late, Nxt(0, Heal(B, 10)), Running>>],
    [Usual EXCEPT !.roles = <<"killer", "witch", "knight", "goddess", "civilian">>,
        !.hp = 15, !.cures = 10,
        !.script = <<Ok(4, Heal(B, 10)), Ok(1, Hex(E, 5)), Late, Ok(4, Heal(B, 10)),
        Ok(3, Hit(E, 15)), Late, Ok(4, Heal(B, 10)), Late, Nxt(4, Heal(B, 10)),
        Nxt(4, Heal(B, 10))>>],
    [Usual EXCEPT !.roles = <<"killer", "witch", "knight", "goddess", "civilian">>, !.hp = 25,
        !.script = <<Ok(0, Heal(B, 10)), Ok(1, Hex(A, 5)), Ok(3, Hit(A, 15)), Late,
        Ok(0, Heal(B, 10)), LateEnd, Won({2, 3, 4})>>],
    [Usual EXCEPT !.roles = <<"killer", "witch", "knight", "civilian", "civilian">>, !.hp = 10,
        !.script = <<Ok(0, Heal(A, 10)), Ok(1, Hex(A, 5)), Ok(2, Hit(A, 15)), LateEnd,
        Won({2, 3, 4})>>],
    [Usual EXCEPT !.roles = <<"killer", "witch", "knight", "goddess", "civilian">>, !.hp = 30,
        !.script = <<Ok(0, Heal(B, 10)), Ok(1, Hex(A, 5)), Late, Ok(0, Heal(B, 10)),
        Ok(3, Hit(A, 15)), Nxt(1, Hex(A, 5)), Ok(0, Heal(B, 10)), LateEnd, Won({2, 3, 4})>>]>>

\* From witch_curse_cannot_be_blocked on.
HuntTests9 == <<
    [Usual EXCEPT !.roles = <<"killer", "witch", "double", "civilian", "civilian">>, !.hp = 15,
        !.script = <<Ok(0, Heal(B, 10)), Ok(1, Hex(A, 5)), Ok(2, Cover(A)), Late,
        Ok(0, Heal(B, 10)), Late, End(0, Heal(B, 10)), Won({3, 4})>>],
    [Usual EXCEPT !.roles = <<"killer", "witch", "knight", "civilian", "civilian">>, !.hp = 15,
        !.script = <<Ok(2, Hit(C, 15)), Late, Gone(2)>>],
    [Usual EXCEPT !.roles = <<"killer", "witch", "knight", "civilian", "civilian">>, !.hp = 15,
        !.script = <<Ok(2, Hit(E, 15)), Ok(4, Hit(C, 15)), Late, Nxt(2, Idle), Gone(4)>>],
    [Usual EXCEPT !.roles = <<"killer", "witch", "knight", "civilian", "civilian">>, !.hp = 10,
        !.script = <<Ok(2, Heal(B, 10)), Ok(1, Hex(C, 5)), Late, Ok(2, Hit(E, 15)),
        Ok(4, Hit(C, 15)), Late, Nxt(2, Idle), Gone(4)>>],
    [Usual EXCEPT !.roles = <<"killer", "double", "civilian", "traitor", "agent">>,
        !.script = <<Refused(5)>>],
    [Usual EXCEPT !.roles = <<"killer", "double", "civilian", "civilian", "agent">>,
        !.script = <<No(4, Hit(A, 15))>>],
    [Usual EXCEPT !.roles = <<"killer", "double", "civilian", "agent", "agent">>, !.hp = 5,
        !.script = <<Ok(3, Charge(<<A, C>>, <<5, 5>>)), Late, End(3, Fire(<<A, C>>)),
        Won({3, 4})>>],
    [Usual EXCEPT !.roles = <<"killer", "double", "civilian", "agent", "agent">>, !.hp = 5,
        !.script = <<Ok(3, Charge(<<A, C>>, <<5, 5>>)), Late, End(3, Fire(<<A>>)), Won({2})>>],
    [Usual EXCEPT !.roles = <<"killer", "double", "detective", "agent", "agent">>, !.hp = 20,
        !.script = <<Ok(3, Charge(<<A, C>>, <<15, 5>>)), Late,
        Nxt(3, Charge(<<A, C>>, <<5, 15>>)), Ok(2, Spy(D)), End(3, Fire(<<A, C>>)), Won({3, 4})>>],
    [Usual EXCEPT !.roles = <<"killer", "double", "civilian", "civilian", "agent">>,
        !.script = <<No(4, Fire(<<>>))>>],
    [Usual EXCEPT !.roles = <<"killer", "double", "civilian", "civilian", "agent">>,
        !.script = <<No(4, Fire(<<A>>))>>],
    [Usual EXCEPT !.roles = <<"killer", "double", "civilian", "civilian", "agent">>,
        !.script = <<Ok(4, Charge(<<A, C>>, <<5, 15>>)), Late, No(4, Fire(<<A, D>>))>>],
    [Usual EXCEPT !.roles = <<"killer", "double", "civilian", "civilian", "agent">>,
        !.script = <<No(4, Charge(<<A, C, D>>, <<5, 15, 5>>)),
        No(4, Charge(<<A, B, A>>, <<5, 5, 5>>)), Unread(4, Charge(<<A>>, <<0>>)),
        No(4, Charge(<<>>, <<>>)), Unread(4, Charge(<<A>>, <<20>>)),
        No(4, Charge(<<A>>, <<11>>))>>]>>

\* From agent_cannot_double_release on.
HuntTests10 == <<
    [Usual EXCEPT !.roles = <<"killer", "double", "civilian", "civilian", "agent">>,
        !.script = <<Ok(4, Charge(<<A, C>>, <<5, 15>>)), Late, Nxt(4, Fire(<<A>>)),
        No(4, Fire(<<A>>))>>],
    [Usual EXCEPT !.roles = <<"killer", "double", "civilian", "civilian", "agent">>, !.hp = 5,
        !.script = <<Ok(4, Charge(<<A>>, <<5>>)), Late, Ok(1, Cover(A)), Nxt(4, Fire(<<A>>)),
        Gone(1)>>],
    [Usual EXCEPT !.roles = <<"killer", "double", "detective", "guard", "agent">>, !.hp = 20,
        !.script = <<Ok(4, Charge(<<A, C>>, <<5, 15>>)), Late, Ok(2, Spy(E)),
        Ok(3, Guarding(<<A, C>>, <<15, 5>>)), Nxt(4, Fire(<<C, A>>)), Gone(4)>>],
    [Usual EXCEPT !.roles = <<"killer", "double", "civilian", "agent", "agent">>, !.hp = 15,
        !.script = <<Ok(0, Hit(E, 15)), Late, Gone(4), Ok(2, Hit(A, 15)), End(0, Hit(C, 15)),
        Won({3, 4})>>],
    [Usual EXCEPT !.roles = <<"killer", "double", "civilian", "goddess", "agent">>, !.hp = 15,
        !.script = <<Ok(3, Hit(E, 15)), Late, Gone(4)>>],
    [Usual EXCEPT !.roles = <<"killer", "double", "civilian", "goddess", "agent">>, !.rounds = 1,
        !.script = <<LateEnd, Won({0, 1, 2, 3})>>],
    [Usual EXCEPT !.roles = <<"killer", "double", "civilian", "goddess", "detective">>,
        !.script = <<No(3, Sleep)>>],
    [Usual EXCEPT !.roles = <<"killer", "double", "civilian", "goddess", "detective">>,
        !.night = TRUE,
        !.script = <<Ok(3, Sleep), Late, Gone(3)>>],
    [Usual EXCEPT !.roles = <<"killer", "double", "civilian", "goddess", "detective">>,
        !.night = TRUE,
        !.script = <<No(0, Sleep)>>],
    [Usual EXCEPT !.roles = <<"killer", "double", "civilian", "goddess", "detective">>,
        !.hp = 15, !.night = TRUE,
        !.script = <<Ok(0, Hit(A, 15)), Late, Nxt(2, Sleep), Late, End(3, Sleep),
        Won({2, 3, 4})>>],
    [Usual EXCEPT !.roles = <<"killer", "double", "civilian", "goddess", "detective">>,
        !.hp = 15, !.night = TRUE,
        !.script = <<Ok(0, Hit(A, 15)), Ok(2, Sleep), Late, Nxt(1, Hit(D, 15)), Ok(4, Hit(E, 15)),
        LateEnd, Won({2, 3, 4})>>]>>

HuntTests == HuntTests1 \o HuntTests2 \o HuntTests3 \o HuntTests4 \o HuntTests5
             \o HuntTests6 \o HuntTests7 \o HuntTests8 \o HuntTests9 \o HuntTests10

\* Games without a script: the ghost and the traitor, the twins, good nights, and the
\* witch with an agent.
HuntGames == <<
    [Usual EXCEPT !.roles = <<"killer", "ghost", "guard", "civilian", "firstTraitor">>,
        !.hp = 15, !.rounds = 4, !.cures = 1, !.acts = 1,
        !.said = {Hit(A, 15), Hit(B, 15), Hit(D, 15)}],
    [Usual EXCEPT
        !.roles = <<"killer", "assassin", "evilTwin", "goodTwin", "detective", "goddess">>,
        !.hp = 15, !.rounds = 2, !.cures = 1, !.acts = 2,
        !.said = {Hit(A, 15), Hit(D, 15)}],
    [Usual EXCEPT !.roles = <<"killer", "civilian", "goddess", "civilian", "traitor">>,
        !.hp = 15, !.rounds = 3, !.cures = 1, !.night = TRUE, !.acts = 1,
        !.said = {Hit(A, 15), Hit(B, 15), Heal(A, 10), Sleep}],
    [Usual EXCEPT !.roles = <<"killer", "witch", "knight", "civilian", "agent">>,
        !.hp = 15, !.rounds = 3, !.cures = 1, !.acts = 2,
        !.said = {Hex(C, 10), Charge(<<A>>, <<15>>), Fire(<<A>>)}]>>

=============================================================================
