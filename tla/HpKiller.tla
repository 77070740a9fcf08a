------------------------------- MODULE HpKiller -------------------------------
(***************************************************************************)
(* The game "hp_killer" (games/hp_killer/mygame.cc): a single stage in which *)
(* everybody says once a round, in private, what his role does, and the      *)
(* round is settled at once.  Some games are the game's own tests, played    *)
(* line by line.  Whoever is told what is left out.                          *)
(***************************************************************************)
EXTENDS Integers, Sequences, FiniteSets, FiniteSetsExt, SequencesExt, Functions

CONSTANTS
    Hunts       \* the games: roles by token, options, and the script of a test, or
                \* <<>>, what may be said, and the bound of how many are heard in a round

\* Occupation
Occupations == {"killer", "double", "ghost", "assassin", "evilTwin", "witch", "prisoner",
                "civilian", "goddess", "detective", "sorcerer", "guard", "goodTwin", "knight",
                "traitor", "firstTraitor", "agent", "puppet"}

VARIABLES
    hunt,       \* the game: one of Hunts
    cast,       \* role_manager_: the roles by token
    bout,       \* round_
    fallen,     \* last_round_*_lost_: the teams that had lost when the round began
    awake,      \* the masker
    hour,       \* "wait" for requests, "over" if the round is, or "done"
    line, retort \* of the script: the last line played, and what the stage returned

huntVars == <<hunt, cast, bout, fallen, awake, hour, line, retort>>

This == hunt
Tokens == DOMAIN cast
NoSeat == -1
Pass == [kind |-> "pass", on |-> <<>>, hp |-> <<>>]

Masked(n) == INSTANCE PlayerReadyMasker WITH Players <- 0 .. n - 1

\* LoadRoleVec_: puppets belong to nobody.
Seat(roles, t) ==
    IF roles[t] = "puppet" THEN NoSeat
    ELSE Cardinality({i \in 1 .. t - 1 : roles[i] # "puppet"})
SeatsOf(roles) == Cardinality({i \in DOMAIN roles : roles[i] # "puppet"})
Size == SeatsOf(This.roles)

Twins == {"evilTwin", "goodTwin"}
Foes == {<<"assassin", "guard">>, <<"ghost", "sorcerer">>, <<"witch", "knight">>,
         <<"prisoner", "knight">>}
Haunted == {<<"ghost", "sorcerer">>}
Traitors == {"traitor", "firstTraitor"}

TeamOf(kind) ==
    CASE kind \in {"killer", "double", "ghost", "assassin", "evilTwin", "witch", "prisoner"} ->
            "killer"
      [] kind \in Traitors \cup {"agent", "puppet"} -> "special"
      [] OTHER -> "civilian"

NewRole(h, t) ==
    LET kind == h.roles[t]
    IN  [kind |-> kind, pid |-> Seat(h.roles, t), team |-> TeamOf(kind), next |-> TeamOf(kind),
         hp |-> h.hp, act |-> TRUE, off |-> FALSE, alive |-> TRUE, heavy |-> kind = "killer",
         winner |-> FALSE, cures |-> IF kind = "goddess" THEN -1 ELSE h.cures,
         doing |-> Pass,
         last |-> "none",                           \* kind of history_status_.back()
         curse |-> 0,
         used |-> {},                               \* levels, exorcism or tokens used
         hidden |-> [i \in DOMAIN h.roles |-> 0]]   \* hidden_damages_

\* GetRole of an occupation: the first one, or 0.
First(c, kinds) == SelectInSeq(c, LAMBDA r : r.kind \in kinds)

\* GetRoleVec_: the lists of roles for n players of which one is drawn.
DefaultRoles(n) ==
    CASE n = 5 -> {<<"killer", "ghost", "guard", "civilian", "firstTraitor">>}
      [] n = 6 -> {<<"killer", "assassin", "evilTwin", "goodTwin", "detective", "goddess">>}
      [] n = 7 -> {<<"killer", "double", "detective", "goddess", "civilian", "civilian", x>> :
                      x \in {"traitor", "agent"}}
      [] n = 8 -> {<<"killer", "double", x[1], "detective", "goddess", x[2],
                     "civilian", "civilian">>
                       \o (IF x[1] = "assassin" THEN <<"puppet">> ELSE <<>>) : x \in Foes \ Haunted}
      [] n = 9 -> {<<"killer", "double", x[1][1], "detective", "goddess", x[1][2],
                     "civilian", "civilian", x[2]>> :
                      x \in (Foes \X {"traitor"}) \cup ((Foes \ Haunted) \X {"agent"})}

\* AdaptOptions: the lists of roles with which n can play.
Adapted(roles, n) ==
    LET count(kind) == Cardinality({i \in DOMAIN roles : roles[i] = kind})
    IN  /\ n >= 5 /\ SeatsOf(roles) = n
        /\ count("killer") = 1
        /\ Cardinality({kind \in Traitors \cup {"agent"} : count(kind) > 0}) <= 1
        /\ count("guard") = 0 \/ count("witch") = 0
        /\ \A kind \in Traitors \cup Twins \cup {"double", "guard"} : count(kind) <= 1

\* What the commands read: to each token its number, or none where none is meant.
Measured == {"attack", "cure", "curse", "injury", "shield", "assign"}
IsAction(a) ==
    /\ a = [kind |-> a.kind, on |-> a.on, hp |-> a.hp]
    /\ a.on \in Seq(Int) /\ a.hp \in Seq(Int)
    /\ IF a.kind \in Measured THEN a.on # <<>> => Len(a.hp) = Len(a.on) ELSE a.hp = <<>>

\* What the verdict needs of the roles.  AdaptOptions demands it and more, but not of the roles
\* that a test sets; its tests keep to it where they play.
HaveSides(roles) ==
    /\ \E t \in DOMAIN roles : roles[t] = "killer"
    /\ \A t, u \in DOMAIN roles :
          {roles[t], roles[u]} \subseteq Traitors \cup {"agent"} => roles[t] = roles[u]

\* The options are in their ranges.
IsHunt(h) ==
    /\ h.roles \in Seq(Occupations)
    /\ h.hp \in Nat \ {0} /\ h.rounds \in Nat \ {0} /\ h.cures \in Nat /\ h.night \in BOOLEAN
    /\ \A a \in h.said : IsAction(a)
    /\ Len(h.script) \in Nat
    /\ \A n \in 1 .. Len(h.script) :
           /\ h.script[n].do = "say" => IsAction(h.script[n].act)
           /\ h.script[n].do \in {"say", "timeout"} => HaveSides(h.roles)
HuntAssumption == \A i \in DOMAIN Hunts : IsHunt(Hunts[i])

Does(r, kind) == r.doing.kind = kind
\* GetHpFromMultiTargetAction: what r's action says of token t.
Aims(r, t) == {r.doing.hp[i] : i \in {j \in DOMAIN r.doing.hp : r.doing.on[j] = t}}
Amount(r, t) == MapThenSumSet(LAMBDA hp : hp, Aims(r, t))

-----------------------------------------------------------------------------
(* What a role can do: the Act functions.                                   *)

\* The ranges of the commands' arguments.
InFormat(a) ==
    \A i \in DOMAIN a.hp :
        CASE a.kind = "attack" -> a.hp[i] \in 0 .. 25
          [] a.kind = "cure" -> a.hp[i] \in {10, 15}
          [] a.kind = "curse" -> a.hp[i] \in 5 .. 10
          [] a.kind = "injury" -> a.hp[i] \in 0 .. 10
          [] a.kind = "assign" -> a.hp[i] \in 5 .. 15
          [] OTHER -> a.hp[i] \in -1000 .. 1000

\* CheckToken, CheckMultipleTokens_ and the other checks of the handlers.
Checked(a) ==
    /\ \A i \in DOMAIN a.on : a.on[i] \in Tokens
    /\ a.kind \in {"attack", "cure", "curse", "injury", "shield", "assign", "release"} =>
           /\ a.on # <<>> /\ IsInjective(a.on)
           /\ \A i \in DOMAIN a.on : cast[a.on[i]].alive
    /\ a.kind = "exorcise" => ~cast[a.on[1]].alive
    /\ a.kind = "block" /\ a.on = <<>> => ~This.open
    /\ a.kind = "night" => This.night

Strength(r, hp, normal, strong) == hp = normal \/ (r.heavy /\ hp = strong)

\* How many an assassin may hit with so much each.
Targets(hp) == CASE hp = 5 -> 5 [] hp = 10 -> 2 [] hp \in {0, 15} -> 1 [] OTHER -> 0

\* Whether the role accepts the action.
Able(r, a) ==
    CASE a.kind = "attack" /\ r.kind = "assassin" -> Len(a.on) <= Targets(a.hp[1])
      [] a.kind = "attack" /\ r.kind # "assassin" ->
            /\ r.kind \notin {"witch", "agent"}
            /\ r.kind = "goddess" => r.last # "attack"
            /\ r.kind \in Twins => \A i \in DOMAIN a.on : cast[a.on[i]].kind \notin Twins
            /\ Len(a.on) = 1 /\ Strength(r, a.hp[1], 15, 25)
      [] a.kind = "cure" -> r.cures # 0 /\ Strength(r, a.hp[1], 10, 15)
      [] a.kind = "curse" -> r.kind = "witch" /\ a.hp[1] \in {5, 10}
      [] a.kind = "injury" -> r.kind = "prisoner" /\ a.hp[1] \in {0, 5, 10} \ r.used
      [] a.kind = "block" -> r.kind = "double"
      [] a.kind = "detect" -> r.kind = "detective" /\ r.last \notin {"none", "detect"}
      [] a.kind = "exorcise" -> r.kind = "sorcerer" /\ r.used = {}
      [] a.kind = "shield" -> r.kind = "guard" /\ Len(a.on) <= 2 /\ ToSet(a.on) \cap r.used = {}
      [] a.kind = "assign" ->
            /\ r.kind = "agent"
            /\ \A i \in DOMAIN a.hp : a.hp[i] \in {5, 10, 15}
            /\ FoldSeq(LAMBDA x, n : x + n, 0, a.hp) <= 20
      [] a.kind = "release" -> r.kind = "agent" /\ \A i \in DOMAIN a.on : r.hidden[a.on[i]] > 0
      [] a.kind = "night" -> r.team = "civilian"
      [] a.kind = "pass" -> TRUE

\* The role once it has accepted the action; saying good night it cannot act any more
\* at once, released damage is an attack.
Acted(r, a) ==
    LET s == [r EXCEPT !.doing = a]
    IN  CASE a.kind = "injury" -> [s EXCEPT !.used = @ \cup {a.hp[1]}]
          [] a.kind = "exorcise" -> [s EXCEPT !.used = {0}]
          [] a.kind = "shield" -> [s EXCEPT !.used = ToSet(a.on)]
          [] a.kind = "assign" ->
                [s EXCEPT !.hidden = [t \in DOMAIN @ |-> IF t \in ToSet(a.on)
                                          THEN @[t] + a.hp[SelectInSeq(a.on, LAMBDA u : u = t)]
                                          ELSE @[t]]]
          [] a.kind = "release" ->
                [s EXCEPT !.doing = [kind |-> "attack", on |-> a.on,
                                     hp |-> [i \in DOMAIN a.on |-> r.hidden[a.on[i]]]],
                          !.hidden = [t \in DOMAIN @ |-> IF t \in ToSet(a.on) THEN 0 ELSE @[t]]]
          [] a.kind = "night" -> [s EXCEPT !.off = TRUE, !.act = FALSE]
          [] OTHER -> s

\* A witch and a prisoner set cur_action_ before they refuse it.
Refusing(r, a) ==
    IF <<r.kind, a.kind>> \in {<<"witch", "curse">>, <<"prisoner", "injury">>}
    THEN [r EXCEPT !.doing = a] ELSE r

-----------------------------------------------------------------------------
(* The settlement: SettlementAction_, SettlementCurse_, SettlementShieldAnti_ *)

\* is_blocked_hurt: the double takes what is meant for t, or for the killer.
Blocked(c, t) ==
    LET d == First(c, {"double"})
    IN  /\ d > 0 /\ Does(c[d], "block")
        /\ IF c[d].doing.on = <<>> THEN c[t].kind = "killer" ELSE c[d].doing.on[1] = t

\* is_avoid_hurt: the goddess harms no civilian, nor does whom the knight attacks the knight.
Avoided(c, h, t) ==
    \/ c[h].kind = "goddess" /\ c[t].team = "civilian"
    \/ c[t].kind = "knight" /\ h # t /\ Does(c[t], "attack") /\ Aims(c[t], h) # {}

\* is_blocked_cure
CureBlocked(c, t) ==
    \E s \in DOMAIN c : c[s].kind = "prisoner" /\ Does(c[s], "injury") /\ c[s].doing.on[1] = t

\* The sum of what those of a kind of action who count aim at t.
Aimed(c, kind, t, Counts(_)) ==
    MapThenSumSet(LAMBDA s : Amount(c[s], t), {s \in DOMAIN c : Does(c[s], kind) /\ Counts(s)})

Hurt(c, t) ==
    LET d == First(c, {"double"})
    IN  Aimed(c, "attack", t, LAMBDA s : ~Avoided(c, s, t) /\ ~Blocked(c, t))
        + Aimed(c, "injury", t, LAMBDA s : TRUE)
        + (IF t = d
           THEN MapThenSumSet(LAMBDA u : Aimed(c, "attack", u, LAMBDA s : ~Avoided(c, s, u)),
                              {u \in DOMAIN c : Blocked(c, u)})
           ELSE 0)
        + (IF c[t].kind = "ghost" /\ Does(c[t], "attack")
           THEN 25 * Cardinality({i \in DOMAIN c[t].doing.hp : c[t].doing.hp[i] = 25}) ELSE 0)

Gained(c, t) == Aimed(c, "cure", t, LAMBDA s : ~CureBlocked(c, t))

\* be_attackeds: an attack ends the curse unless the double takes it.
Attacked(c, t) ==
    \E s \in DOMAIN c :
        /\ Aims(c[s], t) # {}
        /\ \/ Does(c[s], "injury")
           \/ Does(c[s], "attack") /\ (Avoided(c, s, t) \/ ~Blocked(c, t))

Cursed(c, t) ==
    (IF Attacked(c, t) THEN 0 ELSE c[t].curse)
        + Aimed(c, "curse", t, LAMBDA s : c[s].kind = "witch")

\* The actions and the curses.
Struck(c) ==
    [t \in DOMAIN c |->
        [c[t] EXCEPT !.curse = Cursed(c, t),
                     !.hp = @ - Hurt(c, t) + Gained(c, t)
                              - (IF Does(c[t], "pass") THEN 0 ELSE Cursed(c, t))]]

\* Those whom the guard protects: their hp is now what he said it would be.
Shielded(c) ==
    LET g == First(c, {"guard"})
    IN  IF g = 0 \/ ~Does(c[g], "shield") THEN {}
        ELSE {t \in DOMAIN c : c[t].hp \in Aims(c[g], t) /\ ~Blocked(c, t)}

\* What the others did to them falls back on those who did it.
Reflected(c) ==
    LET safe == Shielded(c)
        back(s) == MapThenSumSet(LAMBDA t : IF Avoided(c, s, t) THEN 0 ELSE Amount(c[s], t), safe)
        spared(t) == Aimed(c, "attack", t, LAMBDA s : ~Avoided(c, s, t))
    IN  IF safe = {} THEN c
        ELSE [t \in DOMAIN c |->
                 [c[t] EXCEPT !.hp = @ + (IF t \in safe THEN spared(t) ELSE 0)
                                       - (IF Does(c[t], "attack") THEN back(t) ELSE 0)]]

\* Dead ghosts that a detective saw act, or a sorcerer asked: DisableAct_, delayed.
Banished(c) ==
    {t \in DOMAIN c : \E s \in DOMAIN c :
        /\ c[s].doing.on = <<t>>
        /\ \/ Does(c[s], "detect") /\ ~c[t].alive /\ c[t].doing.kind \in {"attack", "cure"}
           \/ Does(c[s], "exorcise") /\ c[t].kind = "ghost"}

\* SettlementAction_
Settled(c) ==
    LET d == Reflected(Struck(c))
    IN  [t \in DOMAIN c |-> [d[t] EXCEPT !.off = @ \/ t \in Banished(c)]]

\* RoleBase::OnRoundEnd; the dead who cannot act are left as they are.
Aged(r) ==
    IF ~r.act /\ ~r.alive THEN r
    ELSE [r EXCEPT !.act = @ /\ ~r.off, !.off = FALSE, !.alive = @ /\ r.hp > 0,
                   !.cures = IF Does(r, "cure") /\ @ > 0 THEN @ - 1 ELSE @,
                   !.used = IF r.kind = "guard" /\ ~Does(r, "shield") THEN {} ELSE @,
                   !.last = r.doing.kind, !.doing = Pass]

\* RolesOnRoundEnd_: a ghost acts on after its death; the traitor inherits the killer's
\* strength, and a twin who lives on goes over to the side of the dead one.
Buried(c) ==
    LET d == [t \in DOMAIN c |-> Aged(c[t])]
        dead == {t \in DOMAIN c : c[t].alive /\ ~d[t].alive}
        heir == IF First(c, {"traitor"}) > 0 THEN First(c, {"traitor"})
                ELSE First(c, {"firstTraitor"})
        brother(t) == First(c, Twins \ {c[t].kind})
        left == {t \in dead : c[t].kind \in Twins /\ brother(t) > 0 /\ d[brother(t)].hp > 0}
    IN  [t \in DOMAIN c |->
            [d[t] EXCEPT !.act = @ /\ ~(t \in dead /\ c[t].kind # "ghost"),
                         !.heavy = @ \/ (t = heir /\ \E k \in dead : c[k].kind = "killer"),
                         !.next = IF \E s \in left : brother(s) = t
                                  THEN c[CHOOSE s \in left : brother(s) = t].team ELSE @]]

-----------------------------------------------------------------------------
(* Who has lost, and who wins: CheckTeamsLost_.                             *)

Among(c, P(_)) == Cardinality({t \in DOMAIN c : P(c[t])})

CivilianLost(c) ==
    \/ Among(c, LAMBDA r : ~r.alive /\ r.team = "civilian" /\ r.kind = "civilian") >= 2
    \/ Among(c, LAMBDA r : ~r.alive /\ r.team = "civilian") >= 3
    \/ Among(c, LAMBDA r : r.alive /\ r.next = "civilian") = 0

\* In a game with good nights more than half of the civilians left have to have said it.
KillerLost(c) ==
    /\ \A t \in DOMAIN c : c[t].alive => c[t].kind # "killer"
    /\ This.night =>
           Among(c, LAMBDA r : r.alive /\ r.next = "civilian" /\ ~r.act)
               > Among(c, LAMBDA r : r.alive /\ r.next = "civilian") \div 2

TraitorLost(c) == \A t \in DOMAIN c : c[t].alive => c[t].kind \notin Traitors

Losers(c) ==
    {team \in {"civilian", "killer", "traitor"} :
        CASE team = "civilian" -> CivilianLost(c)
          [] team = "killer" -> KillerLost(c)
          [] team = "traitor" -> TraitorLost(c)}

\* If all have lost at once, one of those who had not lost before is let off.
LetOff(c, lost) ==
    IF Cardinality(lost) < 3 THEN lost
    ELSE IF "traitor" \notin fallen /\ First(c, Traitors) > 0 THEN lost \ {"traitor"}
    ELSE lost \ {"killer"}

Crowned(c, lost) ==
    [t \in DOMAIN c |->
        [c[t] EXCEPT !.winner =
            CASE c[t].team \in {"civilian", "killer"} -> c[t].team \notin lost
              [] c[t].kind \in Traitors -> "traitor" \notin lost
              [] OTHER -> @]]

AgentWins(c) == First(c, {"agent"}) > 0 /\ CivilianLost(c) /\ KillerLost(c)

\* Eliminate, for everybody of S who is somebody.
Out(m, c, S) ==
    FoldSet(LAMBDA t, n : Masked(Size)!SetPermanentInactive(n, c[t].pid), m,
            {t \in S : c[t].pid # NoSeat})

-----------------------------------------------------------------------------
(* The stage.                                                               *)

HuntInit ==
    /\ \E i \in DOMAIN Hunts : hunt = Hunts[i]
    /\ This.script = <<>> => Adapted(This.roles, Size)
    /\ cast = [t \in DOMAIN This.roles |-> NewRole(This, t)]
    /\ bout = 1 /\ fallen = {} /\ hour = "wait"
    /\ awake = Masked(Size)!NewMasker
    /\ line = 0 /\ retort = "OK"

\* AtomicStage::Handle_: the round is over when nobody has to be waited for.
Handled(m, said) ==
    /\ awake' = m
    /\ hour' = IF Masked(Size)!Ok(m) THEN "over" ELSE "wait"
    /\ retort' = said

\* The match ends with these who have lost; who is thrown out is left to the others.
Ends(c, lost, m) ==
    /\ cast' = Crowned(c, lost)
    /\ awake' = m
    /\ hour' = "done" /\ retort' = "CHECKOUT"
    /\ UNCHANGED <<bout, fallen>>

\* A new round: teams that have just lost cannot act any more, the ready flags are
\* cleared, and whoever cannot act is eliminated, once more if need be.
Goes(c, lost, m) ==
    LET newly == {t \in DOMAIN c : c[t].team \in {"civilian", "killer"} \cap (lost \ fallen)}
        d == [t \in DOMAIN c |-> [c[t] EXCEPT !.act = @ /\ t \notin newly, !.team = c[t].next]]
        still == {t \in DOMAIN c : ~d[t].act}
    IN  /\ cast' = d
        /\ bout' = bout + 1
        /\ fallen' = lost
        /\ Handled(Out(Masked(Size)!ClearReady(Out(m, c, {t \in newly : c[t].act})), d, still),
                   "CONTINUE")

\* OnRoundFinish_, with the masker m as the handler left it.
RoundFinish(m) ==
    \E c \in {Buried(Settled(cast))} :
    \E n \in {Out(m, c, Banished(cast) \cup
                        {t \in Tokens : cast[t].alive /\ ~c[t].alive /\ c[t].kind # "ghost"})} :
    \E lost \in {Losers(c)} :
        IF AgentWins(c)
        THEN /\ cast' = [t \in Tokens |-> [c[t] EXCEPT !.winner = c[t].kind = "agent"]]
             /\ awake' = n /\ hour' = "done" /\ retort' = "CHECKOUT"
             /\ UNCHANGED <<bout, fallen>>
        ELSE IF Cardinality(lost) >= 2 THEN Ends(c, LetOff(c, lost), n)
        ELSE IF bout >= This.rounds THEN Ends(c, lost, n)
        ELSE Goes(c, lost, n)

TokenOf(p) == CHOOSE t \in Tokens : cast[t].pid = p

\* A command of the stage, and GenericAct_: who acts is not hooked any more; in public,
\* a second time or without the ability to act nobody is heard.
Request(p, a, public) ==
    /\ hour = "wait"
    /\ \E t \in {TokenOf(p)}, m \in {Masked(Size)!SetActive(awake, p)} :
           IF ~InFormat(a)
           THEN /\ awake' = m /\ retort' = "NOT_FOUND"
                /\ UNCHANGED <<cast, hour>>
           ELSE IF ~Checked(a) \/ public \/ awake.ready[p] \/ ~cast[t].act
           THEN Handled(m, "FAILED") /\ UNCHANGED cast
           ELSE IF ~Able(cast[t], a)
           THEN Handled(m, "FAILED") /\ cast' = [cast EXCEPT ![t] = Refusing(@, a)]
           ELSE /\ Handled(Masked(Size)!SetReady(m, p), "OK")
                /\ cast' = [cast EXCEPT ![t] = Acted(@, a)]
    /\ UNCHANGED <<hunt, bout, fallen>>

\* OnComputerAct: a computer hits or cures whom it will, and is ready even if refused.
ComputerAct(p, a) ==
    /\ hour = "wait" /\ ~awake.ready[p]
    /\ \E t \in {TokenOf(p)} :
           cast' = IF Checked(a) /\ cast[t].act /\ Able(cast[t], a)
                   THEN [cast EXCEPT ![t] = Acted(@, a)] ELSE cast
    /\ Handled(Masked(Size)!SilentlySetReady(awake, p), "OK")
    /\ UNCHANGED <<hunt, bout, fallen>>

\* HandleLeave: the role stays and does nothing.
HuntLeave(p) ==
    /\ hour = "wait" /\ awake.active[p] # "PERMANENTLY_INACTIVE"
    /\ Handled(Masked(Size)!SetPermanentInactive(awake, p), "CONTINUE")
    /\ UNCHANGED <<hunt, cast, bout, fallen>>

\* OnStageTimeout: HookUnreadyPlayers, and the round is over.
HuntTimeout ==
    /\ hour = "wait"
    /\ RoundFinish(Masked(Size)!SetTemporaryInactive(
                       awake, {p \in 0 .. Size - 1 : ~awake.ready[p]}))
    /\ UNCHANGED hunt

\* OnStageOver
HuntOver ==
    /\ hour = "over"
    /\ RoundFinish(awake)
    /\ UNCHANGED hunt

Free == This.script = <<>>
\* Whom the round has heard, and those who left although they could still act.
Heard == {p \in 0 .. Size - 1 : awake.ready[p] \/ (bout > 1 /\ awake.active[p] = "ACTIVE")}
Deserters == {p \in 0 .. Size - 1 :
                 awake.active[p] = "PERMANENTLY_INACTIVE" /\ cast[TokenOf(p)].act}

\* What the next line of a test does; some only look.
Play(s) ==
    CASE s.do = "say" -> Request(s.pid, s.act, FALSE)
      [] s.do = "timeout" -> HuntTimeout
      [] OTHER -> UNCHANGED <<hunt, cast, bout, fallen, awake, hour, retort>>

ScriptStep ==
    /\ ~Free /\ hour # "over" /\ line < Len(This.script)
    /\ line' = line + 1
    /\ Play(This.script[line + 1])

HuntInternal == HuntOver /\ line' = line
HuntLate == Free /\ HuntTimeout /\ line' = line
\* A step that is one of them in a game that is no test.
RoundEnds == Free /\ (bout' # bout \/ hour' = "done")

\* In the other games only so many are heard in a round, and one leaves (the bounds).
HuntStep ==
    /\ Free /\ line' = line
    /\ Cardinality(Heard) < This.acts
    /\ \E p \in 0 .. Size - 1 :
          \/ \E a \in This.said : Request(p, a, FALSE)
          \/ Request(p, Pass, TRUE)
          \/ \E a \in This.said :
                a.kind \in {"attack", "cure"} /\ InFormat(a) /\ ComputerAct(p, a)
          \/ Deserters = {} /\ HuntLeave(p)

HuntNext == HuntInternal \/ HuntLate \/ ScriptStep \/ HuntStep

HuntSpec == HuntInit /\ [][HuntNext]_huntVars

-----------------------------------------------------------------------------
(* Properties.                                                              *)

\* The types of the variables.  No number of cures but that of the goddess ever falls
\* to -1, which would be no limit.
HuntTypeOK ==
    /\ hour \in {"wait", "over", "done"} /\ bout \in 1 .. This.rounds
    /\ fallen \subseteq {"civilian", "killer", "traitor"} /\ Cardinality(fallen) <= 1
    /\ awake \in Masked(Size)!Masker
    /\ \A t \in Tokens :
           /\ cast[t].hp \in Int /\ cast[t].curse \in Nat
           /\ cast[t].team \in {"civilian", "killer", "special"}
           /\ IF cast[t].kind = "goddess" THEN cast[t].cures = -1
              ELSE cast[t].cures \in 0 .. This.cures
           /\ \A u \in Tokens : cast[t].hidden[u] \in Nat

\* Whom the round waits for can act, and may be answered: who died, was banished or lost
\* with his side is out of the game for good, however often a timeout hooks him since.
\* Only who said good night in this very round is not out yet.
TheActiveCanAct ==
    hour # "done" =>
        \A t \in Tokens :
            \/ cast[t].act \/ cast[t].pid = NoSeat
            \/ Does(cast[t], "night")
            \/ awake.active[cast[t].pid] = "PERMANENTLY_INACTIVE"

SideOf(r) == IF r.kind \in Traitors \cup {"agent"} THEN r.kind ELSE r.team

\* Somebody wins, and unless the rounds ran out all winners are of one side.  The assert of
\* CheckTeamsLost_ is never reached; and without good nights nobody wins after he
\* was told that his side had lost.
VerdictsStand ==
    hour = "done" =>
        LET lost == Losers(cast)
            winners == {t \in Tokens : cast[t].winner}
        IN  /\ winners # {}
            /\ Cardinality(lost) = 3 /\ ~AgentWins(cast) =>
                   "killer" \notin fallen \/ ("traitor" \notin fallen /\ First(cast, Traitors) > 0)
            /\ Cardinality(lost) >= 2 => Cardinality({SideOf(cast[t]) : t \in winners}) = 1
            /\ ~This.night => \A t \in winners : cast[t].team \notin fallen

Winners == {cast[t].pid : t \in {u \in Tokens : cast[u].winner}}

\* The game's own tests (games/hp_killer/unittest.cc): each line returns what is expected
\* there, and no test says more once its game is over.  The lists of roles that the program
\* draws from are such that it would accept them.
HuntAsTested ==
    /\ ~Free /\ line > 0 /\ hour # "over" =>
           LET s == This.script[line]
           IN  CASE s.do \in {"say", "timeout"} -> retort = s.answer
                 [] s.do = "eliminated" -> awake.active[s.pid] = "PERMANENTLY_INACTIVE"
                 [] s.do = "score" -> hour = "done" /\ Winners = s.winners
                 [] s.do = "refused" -> ~Adapted(This.roles, s.n)
                 [] s.do = "accepted" -> Adapted(This.roles, s.n)
                 [] s.do = "running" -> hour # "done"
    /\ line = 0 /\ ~Free => \A n \in 5 .. 9 : \A roles \in DefaultRoles(n) : Adapted(roles, n)
    /\ ~Free /\ hour = "done" /\ line < Len(This.script) =>
           This.script[line + 1].do \notin {"say", "timeout"}

=============================================================================
