---------------------------- MODULE CardGameProofs ----------------------------
(***************************************************************************)
(* What holds in two games of cards, for every number of players.            *)
(*                                                                         *)
(* "holdem_poker", whatever cards are opened, bets and chips there are: all  *)
(* that is bet is paid out but for the remainders, and the stakes are level  *)
(* when the next cards come.                                                 *)
(*                                                                         *)
(* "love_letter", for every deck: while nobody leaves, each card is in one   *)
(* place, and every hand has the number of cards it should have.             *)
(***************************************************************************)
EXTENDS Holdem, LoveLetter, SequenceTheorems, CountingLemmas

-----------------------------------------------------------------------------
(* What both need: the masker after a loop over some players.               *)

\* All of them are ready.
Maskers(P) == [active : [P -> {"ACTIVE", "TEMPORARILY_INACTIVE", "PERMANENTLY_INACTIVE"}],
               ready : [P -> BOOLEAN], anyReady : BOOLEAN, allPermanent : BOOLEAN]
Readied(P, m, S) ==
    [m EXCEPT !.ready = [p \in P |-> p \in S \/ m.ready[p]],
              !.anyReady = @ \/ S # {}]

\* SetReady for each of S, in whatever order, is Readied.
LEMMA AllGetReady ==
  ASSUME NEW P, NEW m \in Maskers(P), NEW S, IsFiniteSet(S), S \subseteq P
  PROVE  FoldSet(LAMBDA p, n : Mask!SetReady(n, p), m, S) = Readied(P, m, S)
<1> DEFINE Step(g, s) == IF s = {} THEN m ELSE Mask!SetReady(g[s \ {OneOf(s)}], OneOf(s))
           Folds(g) == g = [s \in SUBSET S |-> Step(g, s)]
           h == [s \in SUBSET S |-> Readied(P, m, s)]
<1>1. ASSUME NEW s \in SUBSET S
      PROVE  Readied(P, m, s) = IF s = {} THEN m ELSE Mask!SetReady(Readied(P, m, s \ {OneOf(s)}), OneOf(s))
  <2>1. CASE s = {}
    <3>1. [p \in P |-> p \in {} \/ m.ready[p]] = m.ready
      BY DEF Maskers
    <3>2. Readied(P, m, {}) = m
      BY <3>1 DEF Readied, Maskers
    <3> QED
      BY <2>1, <3>2
  <2>2. CASE s # {}
    <3> DEFINE c == OneOf(s)
    <3>1. c \in s /\ c \in P
      BY <2>2 DEF OneOf
    <3> HIDE DEF c
    <3>2. [[p \in P |-> p \in s \ {c} \/ m.ready[p]] EXCEPT ![c] = TRUE]
             = [p \in P |-> p \in s \/ m.ready[p]]
      BY <3>1
    <3>3. Mask!SetReady(Readied(P, m, s \ {c}), c) = Readied(P, m, s)
      BY <2>2, <3>2 DEF Readied, Mask!SetReady, Maskers
    <3> QED
      BY <2>2, <3>3 DEF c
  <2> QED
    BY <2>1, <2>2
<1>2. Folds(h)
  <2>1. \A s \in SUBSET S : Step(h, s) = Readied(P, m, s)
    BY <1>1
  <2> QED
    BY <2>1
<1> DEFINE g == CHOOSE x : Folds(x)
<1>3. Folds(g)
  BY <1>2
<1> DEFINE T == {s \in SUBSET S : g[s] = Readied(P, m, s)}
<1>4. \A s \in SUBSET S : g[s] = Step(g, s)
  <2> HIDE DEF Step, g
  <2> QED
    BY <1>3
<1> HIDE DEF g
<1>5. {} \in T
  BY <1>1, <1>4
<1>6. \A s \in SUBSET S : s # {} /\ s \ {OneOf(s)} \in T => s \in T
  BY <1>1, <1>4
<1>7. S \in T
  <2> HIDE DEF T
  <2> QED
    BY <1>5, <1>6, OneByOne
<1>8. FoldSet(LAMBDA p, n : Mask!SetReady(n, p), m, S) = g[S]
  BY DEF FoldSet, MapThenFoldSet, g, OneOf
<1> QED
  BY <1>7, <1>8

-----------------------------------------------------------------------------
(* Types.                                                                   *)

Account == [remain : Nat, bet : Nat, fold : BOOLEAN]
Accounts == [Gamblers -> Account]
Phases == {"deal", "begin", "wait", "over", "next", "round", "done"}

\* What the table is made of.
TableShape ==
    /\ table \in Phases /\ raising \in BOOLEAN
    /\ deal \in 1 .. Deals /\ shown \in {0, 3, 4, 5}
    /\ account \in Accounts
    /\ top \in Nat /\ least \in Nat /\ most \in Nat /\ lost \in Nat
    /\ prompt \in M!Masker

\* There always is a base bet.
LEMMA BaseIsThere == HoldemAssumption /\ deal \in Nat \ {0} => Base \in Nat \ {0}
<1> SUFFICES ASSUME HoldemAssumption, deal \in Nat \ {0}
             PROVE  Base \in Nat \ {0}
  OBVIOUS
<1> DEFINE at == (deal - 1) \div BaseEvery + 1
<1>1. at \in Nat \ {0}
  BY DEF HoldemAssumption
<1>2. /\ Len(BaseBets) \in Nat \ {0}
      /\ \A i \in 1 .. Len(BaseBets) : BaseBets[i] \in Nat \ {0}
  BY DEF HoldemAssumption
<1>3. Base = IF at > Len(BaseBets) THEN BaseBets[Len(BaseBets)] ELSE BaseBets[at]
  BY DEF Base
<1> HIDE DEF at
<1> QED
  BY <1>1, <1>2, <1>3

\* The sum of all values.
LEMMA TotalIsSum ==
  ASSUME NEW f
  PROVE  Total(f) = SumTo(f, DOMAIN f)
BY DEF Total, FoldFunction, FoldFunctionOnSet, MapThenFoldSet, SumTo, Adds, Summand, OneOf

\* The lesser and the greater of two, and the greatest of some.
LEMMA OfTwo ==
  ASSUME NEW i \in Int, NEW j \in Int
  PROVE  /\ Min({i, j}) = IF i <= j THEN i ELSE j
         /\ Max({i, j}) = IF i <= j THEN j ELSE i
<1>1. /\ \E x \in {i, j} : \A y \in {i, j} : x <= y
      /\ \E x \in {i, j} : \A y \in {i, j} : x >= y
  OBVIOUS
<1>2. /\ Min({i, j}) \in {i, j} /\ \A y \in {i, j} : Min({i, j}) <= y
      /\ Max({i, j}) \in {i, j} /\ \A y \in {i, j} : Max({i, j}) >= y
  BY <1>1 DEF Min, Max
<1> QED
  BY <1>2

\* A finite set of numbers that is not empty has a greatest one.
LEMMA GreatestOf ==
  ASSUME NEW T, T \subseteq Nat, T # {}, IsFiniteSet(T)
  PROVE  Max(T) \in T /\ \A y \in T : y <= Max(T)
<1>1. \E x \in T : \A y \in T : x >= y
  BY GreatestNumber
<1> QED
  BY <1>1 DEF Max

-----------------------------------------------------------------------------
(* The masker: what a loop over some players leaves behind.                 *)

\* All of them are ready at once.
LEMMA GamblersGetReady ==
  ASSUME NEW m \in M!Masker, NEW S, IsFiniteSet(S), S \subseteq Gamblers
  PROVE  FoldSet(LAMBDA p, n : M!SetReady(n, p), m, S) = Readied(Gamblers, m, S)
<1>1. m \in Maskers(Gamblers)
  BY DEF M!Masker, M!ActiveState, Maskers
<1>2. FoldSet(LAMBDA p, n : Mask!SetReady(n, p), m, S) = Readied(Gamblers, m, S)
  BY <1>1, AllGetReady
<1>3. FoldSet(LAMBDA p, n : Mask!SetReady(n, p), m, S)
        = FoldSet(LAMBDA p, n : M!SetReady(n, p), m, S)
  BY DEF M!SetReady, Mask!SetReady
<1> QED
  BY <1>2, <1>3

\* All of them are out for good.
Gone == "PERMANENTLY_INACTIVE"
OutOf(m, S) == [p \in Gamblers |-> IF p \in S THEN Gone ELSE m.active[p]]
Retired(m, S) ==
    [active |-> OutOf(m, S),
     ready |-> m.ready,
     anyReady |-> m.anyReady \/ \E p \in S : m.active[p] = "ACTIVE",
     allPermanent |-> m.allPermanent
                        \/ (S # {} /\ \A p \in Gamblers : p \in S \/ m.active[p] = Gone)]

\* SetPermanentInactive for each of S, in whatever order, is Retired.
LEMMA AllRetire ==
  ASSUME NEW m \in M!Masker, NEW S, IsFiniteSet(S), S \subseteq Gamblers
  PROVE  FoldSet(LAMBDA p, n : M!SetPermanentInactive(n, p), m, S) = Retired(m, S)
<1> DEFINE Step(g, s) == IF s = {} THEN m
                         ELSE M!SetPermanentInactive(g[s \ {OneOf(s)}], OneOf(s))
           Folds(g) == g = [s \in SUBSET S |-> Step(g, s)]
           h == [s \in SUBSET S |-> Retired(m, s)]
<1>1. ASSUME NEW s \in SUBSET S
      PROVE  Retired(m, s) = IF s = {} THEN m
                ELSE M!SetPermanentInactive(Retired(m, s \ {OneOf(s)}), OneOf(s))
  <2>1. CASE s = {}
    <3>1. OutOf(m, {}) = m.active
      BY DEF M!Masker, OutOf
    <3>2. Retired(m, {}) = m
      BY <3>1 DEF Retired, M!Masker
    <3> QED
      BY <2>1, <3>2
  <2>2. CASE s # {}
    <3> DEFINE c == OneOf(s)
               r == Retired(m, s \ {c})
               n == M!Inactivate(r, {c}, Gone)
    <3>1. c \in s /\ c \in Gamblers
      BY <2>2 DEF OneOf
    <3> HIDE DEF c
    <3>2. r \in [active : [Gamblers -> M!ActiveState], ready : [Gamblers -> BOOLEAN],
                 anyReady : BOOLEAN, allPermanent : BOOLEAN]
      BY DEF Retired, OutOf, Gone, M!Masker, M!ActiveState
    <3>3. [p \in Gamblers |-> IF p \in {c} THEN Gone ELSE r.active[p]] = OutOf(m, s)
      BY <3>1 DEF Retired, OutOf
    <3>4. (r.anyReady \/ \E p \in {c} : r.active[p] = "ACTIVE")
             = (m.anyReady \/ \E p \in s : m.active[p] = "ACTIVE")
      BY <3>1 DEF M!Masker, Retired, OutOf
    <3>5. n = [r EXCEPT !.active = OutOf(m, s),
                        !.anyReady = m.anyReady \/ \E p \in s : m.active[p] = "ACTIVE"]
      <4> HIDE DEF r
      <4> QED
        BY <3>2, <3>3, <3>4 DEF M!Inactivate
    <3>6. (r.allPermanent \/ \A p \in Gamblers : OutOf(m, s)[p] = Gone)
            = (m.allPermanent \/ (s # {} /\ \A p \in Gamblers : p \in s \/ m.active[p] = Gone))
      BY <3>1 DEF M!Masker, Retired, OutOf
    <3>7. M!SetPermanentInactive(r, c) = [n EXCEPT !.allPermanent =
             @ \/ \A p \in Gamblers : n.active[p] = Gone]
      BY DEF M!SetPermanentInactive, Gone
    <3>8. M!SetPermanentInactive(r, c) = Retired(m, s)
      <4>1. r.ready = m.ready
        BY DEF Retired
      <4> HIDE DEF r, n
      <4>2. n.active = OutOf(m, s) /\ n.allPermanent = r.allPermanent
        BY <3>2, <3>5
      <4>3. M!SetPermanentInactive(r, c) = [n EXCEPT !.allPermanent =
              m.allPermanent \/ (s # {} /\ \A p \in Gamblers : p \in s \/ m.active[p] = Gone)]
        BY <3>6, <3>7, <4>2
      <4> QED
        BY <3>2, <3>5, <4>1, <4>3 DEF Retired
    <3> QED
      BY <2>2, <3>8 DEF c
  <2> QED
    BY <2>1, <2>2
<1>2. Folds(h)
  <2>1. \A s \in SUBSET S : Step(h, s) = Retired(m, s)
    BY <1>1
  <2> QED
    BY <2>1
<1> DEFINE g == CHOOSE x : Folds(x)
<1>3. Folds(g)
  BY <1>2
<1> DEFINE T == {s \in SUBSET S : g[s] = Retired(m, s)}
<1>4. \A s \in SUBSET S : g[s] = Step(g, s)
  <2> HIDE DEF Step, g
  <2> QED
    BY <1>3
<1> HIDE DEF g
<1>5. {} \in T
  BY <1>1, <1>4
<1>6. \A s \in SUBSET S : s # {} /\ s \ {OneOf(s)} \in T => s \in T
  BY <1>1, <1>4
<1>7. S \in T
  <2> HIDE DEF T
  <2> QED
    BY <1>5, <1>6, OneByOne
<1>8. FoldSet(LAMBDA p, n : M!SetPermanentInactive(n, p), m, S) = g[S]
  BY DEF FoldSet, MapThenFoldSet, g, OneOf
<1> QED
  BY <1>7, <1>8

\* What the methods leave behind is a masker, with the same players ready but for those
\* it is called for.
LEMMA MaskerStays ==
  ASSUME NEW m \in M!Masker, NEW p \in Gamblers, NEW S \in SUBSET Gamblers
  PROVE  /\ M!SilentlySetReady(m, p) \in M!Masker
         /\ M!SilentlySetReady(m, p).ready = [m.ready EXCEPT ![p] = TRUE]
         /\ M!SetReady(M!SetActive(m, p), p) \in M!Masker
         /\ M!SetReady(M!SetActive(m, p), p).ready = [m.ready EXCEPT ![p] = TRUE]
         /\ M!SetPermanentInactive(m, p) \in M!Masker
         /\ M!SetPermanentInactive(m, p).ready = m.ready
         /\ M!SetTemporaryInactive(m, S) \in M!Masker
         /\ M!ClearReady(m) \in M!Masker
         /\ \A q \in Gamblers : ~M!ClearReady(m).ready[q]
         /\ Retired(m, S) \in M!Masker
         /\ Readied(Gamblers, m, S) \in M!Masker
         /\ \A q \in Gamblers : Readied(Gamblers, m, S).ready[q] = (q \in S \/ m.ready[q])
<1>1. /\ M!SilentlySetReady(m, p) \in M!Masker
      /\ M!SilentlySetReady(m, p).ready = [m.ready EXCEPT ![p] = TRUE]
  BY DEF M!SilentlySetReady, M!Masker
<1>2. /\ M!SetActive(m, p) \in M!Masker
      /\ M!SetActive(m, p).ready = m.ready
  BY DEF M!SetActive, M!Masker, M!ActiveState
<1>3. ASSUME NEW n \in M!Masker
      PROVE  /\ M!SetReady(n, p) \in M!Masker
             /\ M!SetReady(n, p).ready = [n.ready EXCEPT ![p] = TRUE]
  BY DEF M!SetReady, M!Masker
<1>4. ASSUME NEW P \in SUBSET Gamblers, NEW state \in M!ActiveState
      PROVE  /\ M!Inactivate(m, P, state) \in M!Masker
             /\ M!Inactivate(m, P, state).ready = m.ready
  BY DEF M!Inactivate, M!Masker
<1>5. /\ M!SetPermanentInactive(m, p) \in M!Masker
      /\ M!SetPermanentInactive(m, p).ready = m.ready
  <2>1. PICK n \in M!Masker : n = M!Inactivate(m, {p}, "PERMANENTLY_INACTIVE") /\ n.ready = m.ready
    BY <1>4 DEF M!ActiveState
  <2>2. M!SetPermanentInactive(m, p) =
          [n EXCEPT !.allPermanent = @ \/ \A q \in Gamblers : n.active[q] = "PERMANENTLY_INACTIVE"]
    BY <2>1 DEF M!SetPermanentInactive
  <2> QED
    BY <2>1, <2>2 DEF M!Masker
<1>6. M!SetTemporaryInactive(m, S) \in M!Masker
  BY <1>4 DEF M!SetTemporaryInactive, M!ActiveState
<1>7. M!ClearReady(m) \in M!Masker /\ \A q \in Gamblers : ~M!ClearReady(m).ready[q]
  BY DEF M!ClearReady, M!Masker
<1>8. Retired(m, S) \in M!Masker
  BY DEF Retired, OutOf, Gone, M!Masker, M!ActiveState
<1>9. /\ Readied(Gamblers, m, S) \in M!Masker
      /\ \A q \in Gamblers : Readied(Gamblers, m, S).ready[q] = (q \in S \/ m.ready[q])
  BY DEF Readied, M!Masker
<1> QED
  BY <1>1, <1>2, <1>3, <1>5, <1>6, <1>7, <1>8, <1>9


-----------------------------------------------------------------------------
(* The pots.                                                                *)

LevelsTo(a, n) == {l \in PotLevels(a) : l <= n}
Below(a, level) == Max({0} \cup {l \in PotLevels(a) : l < level})
Gap(a) == [level \in PotLevels(a) |-> level - Below(a, level)]

\* The levels are finitely many, each higher than the one below it.
LEMMA LevelsAreFinite ==
  ASSUME HoldemAssumption, NEW a \in Accounts
  PROVE  /\ IsFiniteSet(PotLevels(a)) /\ PotLevels(a) \subseteq Nat \ {0}
         /\ Gap(a) \in [PotLevels(a) -> Nat]
<1> DEFINE bets == {a[p].bet : p \in Gamblers}
<1>1. IsFiniteSet(bets)
  <2> DEFINE f == [p \in Gamblers |-> a[p].bet]
  <2>1. bets = {f[p] : p \in Gamblers}
    OBVIOUS
  <2> HIDE DEF f, bets
  <2> QED
    BY <2>1, FiniteValues DEF HoldemAssumption
<1>2. PotLevels(a) \subseteq bets
  BY DEF PotLevels
<1>3. IsFiniteSet(PotLevels(a)) /\ PotLevels(a) \subseteq Nat \ {0}
  BY <1>1, <1>2, FS_Subset DEF Accounts, Account, PotLevels
<1>4. ASSUME NEW level \in PotLevels(a)
      PROVE  level - Below(a, level) \in Nat
  <2> DEFINE T == {l \in PotLevels(a) : l < level}
  <2>1. IsFiniteSet(T)
    BY <1>3, FS_Subset
  <2>2. IsFiniteSet({0} \cup T) /\ {0} \cup T \subseteq Nat
    BY <1>3, <2>1, FS_AddElement
  <2>3. Max({0} \cup T) \in {0} \cup T
    <3> HIDE DEF T
    <3> QED
      BY <2>2, GreatestOf
  <2> QED
    BY <1>3, <2>3 DEF Below
<1> QED
  BY <1>3, <1>4 DEF Gap

\* What lies between the levels up to n is the highest of them.
LEMMA GapsAddUp ==
  ASSUME HoldemAssumption, NEW a \in Accounts, NEW n \in Nat, n = 0 \/ n \in PotLevels(a)
  PROVE  SumTo(Gap(a), LevelsTo(a, n)) = n
<1> DEFINE L == PotLevels(a)
           upTo(i) == {l \in L : l <= i}
           T == {i \in Nat : SumTo(Gap(a), upTo(i)) = Max({0} \cup upTo(i))}
<1>1. /\ IsFiniteSet(L) /\ L \subseteq Nat \ {0} /\ Gap(a) \in [L -> Nat]
  BY LevelsAreFinite
<1>2. ASSUME NEW i \in Nat
      PROVE  /\ upTo(i) \in SUBSET L
             /\ Max({0} \cup upTo(i)) \in {0} \cup upTo(i)
             /\ \A y \in {0} \cup upTo(i) : y <= Max({0} \cup upTo(i))
  <2>1. upTo(i) \in SUBSET L
    OBVIOUS
  <2> HIDE DEF upTo
  <2>2. IsFiniteSet(upTo(i))
    BY <1>1, <2>1, FS_Subset
  <2>3. IsFiniteSet({0} \cup upTo(i)) /\ {0} \cup upTo(i) \subseteq Nat
    BY <1>1, <2>1, <2>2, FS_AddElement
  <2> QED
    BY <2>1, <2>3, GreatestOf
<1>3. 0 \in T
  <2>1. upTo(0) = {}
    BY <1>1
  <2>2. Max({0} \cup upTo(0)) = 0
    BY <1>2, <2>1
  <2>3. SumTo(Gap(a), {}) = 0
    BY <1>1, SumGrows
  <2> QED
    BY <2>1, <2>2, <2>3
<1>4. ASSUME NEW i \in Nat, i \in T
      PROVE  i + 1 \in T
  <2>1. CASE i + 1 \notin L
    <3>1. upTo(i + 1) = upTo(i)
      BY <1>1, <2>1
    <3>2. SumTo(Gap(a), upTo(i)) = Max({0} \cup upTo(i))
      BY <1>4
    <3>3. SumTo(Gap(a), upTo(i + 1)) = Max({0} \cup upTo(i + 1))
      <4> HIDE DEF upTo
      <4> QED
        BY <3>1, <3>2, Zenon
    <3> QED
      BY <3>3
  <2>2. CASE i + 1 \in L
    <3>1. upTo(i + 1) = upTo(i) \cup {i + 1} /\ i + 1 \in L \ upTo(i)
      BY <1>1, <2>2
    <3>2. {l \in L : l < i + 1} = upTo(i)
      BY <1>1
    <3>3. Gap(a)[i + 1] = (i + 1) - Max({0} \cup upTo(i))
      <4>1. Below(a, i + 1) = Max({0} \cup upTo(i))
        <5>1. PICK S : S = upTo(i)
          OBVIOUS
        <5>2. {l \in PotLevels(a) : l < i + 1} = S
          BY <3>2, <5>1
        <5> QED
          BY <5>1, <5>2 DEF Below
      <4>2. Gap(a)[i + 1] = (i + 1) - Below(a, i + 1)
        BY <2>2 DEF Gap
      <4> HIDE DEF upTo
      <4> QED
        BY <4>1, <4>2, Zenon
    <3>4. Max({0} \cup upTo(i + 1)) = i + 1
      <4>1. Max({0} \cup upTo(i + 1)) \in {0} \cup upTo(i + 1)
            /\ \A y \in {0} \cup upTo(i + 1) : y <= Max({0} \cup upTo(i + 1))
        BY <1>2
      <4>2. \A y \in {0} \cup upTo(i + 1) : y \in Nat /\ y <= i + 1
        BY <1>1
      <4>3. i + 1 \in upTo(i + 1)
        BY <3>1
      <4> HIDE DEF upTo
      <4>4. PICK x \in Nat : x = Max({0} \cup upTo(i + 1)) /\ x <= i + 1 /\ i + 1 <= x
        BY <4>1, <4>2, <4>3
      <4> QED
        BY <4>4
    <3>5. upTo(i) \in SUBSET L /\ Max({0} \cup upTo(i)) \in Nat
      BY <1>1, <1>2
    <3> HIDE DEF upTo, L
    <3>6. SumTo(Gap(a), upTo(i) \cup {i + 1}) = Gap(a)[i + 1] + SumTo(Gap(a), upTo(i))
      <4>1. DOMAIN Gap(a) = L /\ \A x \in L : Gap(a)[x] \in Int
        BY <1>1
      <4> HIDE DEF T
      <4> QED
        BY <1>1, <3>1, <3>5, <4>1, SumGrows
    <3>7. PICK m \in Nat : m = Max({0} \cup upTo(i))
      BY <3>5
    <3>8. SumTo(Gap(a), upTo(i)) = m /\ Gap(a)[i + 1] = (i + 1) - m
      BY <1>4, <3>3, <3>7
    <3>9. SumTo(Gap(a), upTo(i + 1)) = i + 1
      <4>1. SumTo(Gap(a), upTo(i + 1)) = ((i + 1) - m) + m
        BY <3>1, <3>6, <3>8, Zenon
      <4> QED
        BY <4>1
    <3> QED
      BY <3>4, <3>9
  <2> QED
    BY <2>1, <2>2
<1>5. n \in T
  <2> HIDE DEF T
  <2> QED
    BY <1>3, <1>4, Induction
<1>6. Max({0} \cup upTo(n)) = n
  <2>1. n \in {0} \cup upTo(n)
    OBVIOUS
  <2>2. \A y \in {0} \cup upTo(n) : y \in Nat /\ y <= n
    BY <1>1
  <2>3. PICK x \in Nat : x = Max({0} \cup upTo(n)) /\ x <= n /\ n <= x
    BY <1>2, <2>1, <2>2
  <2> QED
    BY <2>3
<1> QED
  BY <1>5, <1>6 DEF LevelsTo


Bets(a) == SumTo(BetOf(a), Gamblers)

\* The pots of a deal: each has a sum and somebody who wins it, together all that is bet.
Divides(pots, a) ==
    /\ IsFiniteSet(DOMAIN pots)
    /\ \A l \in DOMAIN pots :
          /\ pots[l].sum \in Nat
          /\ pots[l].winners \in SUBSET Gamblers /\ pots[l].winners # {}
    /\ SumTo([l \in DOMAIN pots |-> pots[l].sum], DOMAIN pots) = Bets(a)

\* Among some there is somebody whose hand is the best.
LEMMA SomebodyIsBest ==
  ASSUME HoldemAssumption, NEW S \in SUBSET Gamblers, S # {}, NEW rank, \A p \in S : rank[p] \in Nat
  PROVE  \E p \in S : \A q \in S : rank[q] <= rank[p]
<1> DEFINE ranks == {rank[p] : p \in S}
<1>1. IsFiniteSet(S)
  BY FS_Subset DEF HoldemAssumption
<1>2. IsFiniteSet(ranks)
  BY <1>1, FiniteValues
<1>3. ranks \subseteq Nat /\ ranks # {}
  OBVIOUS
<1>4. PICK x \in ranks : \A y \in ranks : y <= x
  <2> HIDE DEF ranks
  <2> QED
    BY <1>2, <1>3, GreatestNumber
<1> QED
  BY <1>4

\* Who pays what lies between the levels up to his bet pays his bet.
LEMMA GapsOnly ==
  ASSUME HoldemAssumption, NEW a \in Accounts, NEW n \in Nat, n = 0 \/ n \in PotLevels(a),
         NEW f \in [PotLevels(a) -> Int],
         \A level \in PotLevels(a) : f[level] = IF level <= n THEN Gap(a)[level] ELSE 0
  PROVE  SumTo(f, PotLevels(a)) = n
<1> DEFINE A == LevelsTo(a, n)
<1>1. /\ A \in SUBSET PotLevels(a)
      /\ \A level \in PotLevels(a) \ A : f[level] = 0
      /\ \A level \in A : f[level] = Gap(a)[level]
  BY DEF LevelsTo
<1> HIDE DEF A
<1>2. IsFiniteSet(PotLevels(a)) /\ Gap(a) \in [PotLevels(a) -> Int]
  BY LevelsAreFinite
<1>3. SumTo(f, PotLevels(a)) = SumTo(f, A)
  BY <1>1, <1>2, SumOfSome
<1>4. SumTo(f, A) = SumTo(Gap(a), A)
  BY <1>1, <1>2, SumSame
<1> QED
  BY <1>3, <1>4, GapsAddUp DEF A
\* The product of natural numbers.
LEMMA Product ==
  ASSUME NEW i \in Nat, NEW j \in Nat
  PROVE  i * j \in Nat
OBVIOUS

\* One pot for each level: everybody has paid what lies between the levels up to his bet.
LEMMA LevelsDivide ==
  ASSUME HoldemAssumption, NEW a \in Accounts, NEW strength \in [Gamblers -> Nat]
  PROVE  Divides([level \in PotLevels(a) |-> PotAt(a, strength, level)], a)
<1> DEFINE L == PotLevels(a)
           pots == [level \in L |-> PotAt(a, strength, level)]
           In(level) == {p \in Gamblers : a[p].bet >= level}
           part(p, level) == IF a[p].bet >= level THEN Gap(a)[level] ELSE 0
           F == [p \in Gamblers |-> [level \in L |-> part(p, level)]]
           G == [level \in L |-> [p \in Gamblers |-> part(p, level)]]
<1>1. IsFiniteSet(L) /\ L \subseteq Nat \ {0} /\ Gap(a) \in [L -> Nat]
  BY LevelsAreFinite
<1>2. IsFiniteSet(Gamblers) /\ \A p \in Gamblers : a[p].bet \in Nat
  BY DEF HoldemAssumption, Accounts, Account
<1>3. \A level \in L : /\ In(level) \in SUBSET Gamblers /\ In(level) # {}
                       /\ IsFiniteSet(In(level)) /\ Cardinality(In(level)) \in Nat
  <2> SUFFICES ASSUME NEW level \in L
               PROVE  /\ In(level) \in SUBSET Gamblers /\ In(level) # {}
                      /\ IsFiniteSet(In(level)) /\ Cardinality(In(level)) \in Nat
    OBVIOUS
  <2>1. In(level) \in SUBSET Gamblers
    OBVIOUS
  <2>2. \E p \in Gamblers : a[p].bet = level
    BY DEF PotLevels
  <2>3. In(level) # {}
    BY <1>2, <2>2
  <2>4. IsFiniteSet(In(level)) /\ Cardinality(In(level)) \in Nat
    BY <1>2, <2>1, FS_Subset, FS_CardinalityType
  <2> QED
    BY <2>1, <2>3, <2>4
<1>4. \A level \in L : pots[level].sum = Gap(a)[level] * Cardinality(In(level))
  BY DEF PotAt, Gap, Below
<1>5. \A level \in L : pots[level].sum \in Nat
  <2> HIDE DEF pots, In
  <2> QED
    BY <1>1, <1>3, <1>4, Product
<1>6. ASSUME NEW level \in L
      PROVE  pots[level].winners \in SUBSET Gamblers /\ pots[level].winners # {}
  <2> DEFINE rank == [p \in Gamblers |-> StrengthIn(a, strength, p)]
  <2>1. pots[level].winners = {p \in In(level) : \A q \in In(level) :
                                  StrengthIn(a, strength, q) <= StrengthIn(a, strength, p)}
    BY DEF PotAt
  <2>2. \A p \in Gamblers : rank[p] = StrengthIn(a, strength, p) /\ rank[p] \in Nat
    BY DEF StrengthIn
  <2> HIDE DEF rank
  <2>3. \E p \in In(level) : \A q \in In(level) : rank[q] <= rank[p]
    <3> HIDE DEF In
    <3> QED
      BY <1>3, <2>2, SomebodyIsBest
  <2>4. \E p \in In(level) : \A q \in In(level) :
           StrengthIn(a, strength, q) <= StrengthIn(a, strength, p)
    BY <2>2, <2>3
  <2> HIDE DEF pots
  <2> QED
    BY <2>1, <2>4
<1>7. /\ \A p \in Gamblers : F[p] \in [L -> Int]
      /\ \A level \in L : G[level] \in [Gamblers -> Int]
      /\ Transposed(F, G, Gamblers, L)
  BY <1>1 DEF Transposed
<1>8. ASSUME NEW p \in Gamblers
      PROVE  SumTo(F[p], L) = a[p].bet
  <2> DEFINE f == [level \in L |-> part(p, level)]
             n == a[p].bet
  <2>1. /\ f \in [L -> Int]
        /\ \A level \in L : f[level] = IF level <= n THEN Gap(a)[level] ELSE 0
    BY <1>1, <1>2
  <2>2. F[p] = f
    OBVIOUS
  <2>3. n \in Nat /\ (n = 0 \/ n \in L)
    BY <1>2 DEF PotLevels
  <2> HIDE DEF f, F, n, G, pots, In, part
  <2>4. SumTo(f, L) = n
    BY <2>1, <2>3, GapsOnly
  <2> QED
    BY <2>2, <2>4 DEF n
<1>9. ASSUME NEW level \in L
      PROVE  SumTo(G[level], Gamblers) = pots[level].sum
  <2> DEFINE g == [p \in Gamblers |-> part(p, level)]
             c == Gap(a)[level]
  <2>1. /\ g \in [Gamblers -> Int] /\ c \in Int
        /\ \A p \in Gamblers : g[p] = IF p \in In(level) THEN c ELSE 0
    BY <1>1
  <2>2. G[level] = g
    OBVIOUS
  <2> HIDE DEF g, c
  <2>3. SumTo(g, Gamblers) = c * Cardinality(In(level))
    <3> HIDE DEF In
    <3> QED
      BY <1>2, <1>3, <2>1, SumCounts
  <2> HIDE DEF G
  <2> QED
    BY <1>4, <2>2, <2>3 DEF c
<1>10. RowSums(BetOf(a), F, Gamblers, L)
  <2> HIDE DEF F
  <2> QED
    BY <1>2, <1>7, <1>8 DEF RowSums, BetOf
<1>11. RowSums([level \in L |-> pots[level].sum], G, L, Gamblers)
  <2> HIDE DEF G, pots
  <2> QED
    BY <1>5, <1>7, <1>9 DEF RowSums
<1>12. SumTo(BetOf(a), Gamblers) = SumTo([level \in L |-> pots[level].sum], L)
  <2> HIDE DEF F, G, L, pots
  <2> QED
    BY <1>1, <1>2, <1>7, <1>10, <1>11, SumsSwap
<1>13. DOMAIN pots = L
  OBVIOUS
<1> HIDE DEF F, G
<1>14. SumTo([l \in L |-> pots[l].sum], L) = Bets(a)
  <2> HIDE DEF pots
  <2> QED
    BY <1>12 DEF Bets
<1> HIDE DEF pots
<1>15. Divides(pots, a)
  BY <1>1, <1>5, <1>6, <1>13, <1>14 DEF Divides
<1> QED
  BY <1>15 DEF pots


\* The same when everything goes to the only one who is left.
LEMMA PotsDivide ==
  ASSUME HoldemAssumption, NEW a \in Accounts, NEW strength \in [Gamblers -> Nat]
  PROVE  Divides(Pots(a, strength), a)
<1> DEFINE in == {q \in Gamblers : ~a[q].fold}
<1>1. CASE Cardinality(in) = 1
  <2> DEFINE one == [sum |-> Total(BetOf(a)), winners |-> in]
             pots == [all \in {0} |-> one]
             f == [l \in {0} |-> pots[l].sum]
  <2>1. Pots(a, strength) = pots
    BY <1>1 DEF Pots
  <2>2. Total(BetOf(a)) = Bets(a) /\ Bets(a) \in Nat
    <3>1. BetOf(a) \in [Gamblers -> Nat] /\ DOMAIN BetOf(a) = Gamblers
      BY DEF BetOf, Accounts, Account
    <3>2. Gamblers \in SUBSET Gamblers /\ IsFiniteSet(Gamblers)
      BY DEF HoldemAssumption
    <3> QED
      BY <3>1, <3>2, TotalIsSum, SumIsNatural DEF Bets
  <2>3. in \in SUBSET Gamblers /\ in # {}
    <3>1. in \in SUBSET Gamblers
      OBVIOUS
    <3> HIDE DEF in
    <3>2. in # {}
      BY <1>1, FS_EmptySet
    <3> QED
      BY <3>1, <3>2
  <2>4. IsFiniteSet({0}) /\ DOMAIN f = {0} /\ f[0] = Bets(a)
    BY <2>2, FS_Singleton
  <2>5. SumTo(f, {0}) = Bets(a)
    <3> HIDE DEF f
    <3>1. /\ SumTo(f, {}) = 0
          /\ \A s \in SUBSET {0} : \A x \in {0} \ s : SumTo(f, s \cup {x}) = f[x] + SumTo(f, s)
      <4>1. IsFiniteSet(DOMAIN f) /\ \A x \in DOMAIN f : f[x] \in Int
        BY <2>2, <2>4
      <4> HIDE DEF pots, one, in
      <4> QED
        BY <2>4, <4>1, SumGrows
    <3>2. {} \in SUBSET {0} /\ 0 \in {0} \ {} /\ {} \cup {0} = {0}
      OBVIOUS
    <3>3. SumTo(f, {} \cup {0}) = f[0] + SumTo(f, {})
      BY <3>1, <3>2
    <3> QED
      BY <2>2, <2>4, <3>1, <3>2, <3>3
  <2>6. /\ DOMAIN pots = {0} /\ pots[0] = one
        /\ one.sum = Bets(a) /\ one.winners = in
    BY <2>2
  <2> HIDE DEF pots, in, one
  <2>7. Divides(pots, a)
    BY <2>2, <2>3, <2>4, <2>5, <2>6 DEF Divides
  <2> QED
    BY <2>1, <2>7
<1>2. CASE Cardinality(in) # 1
  <2>1. Pots(a, strength) = [level \in PotLevels(a) |-> PotAt(a, strength, level)]
    BY <1>2 DEF Pots
  <2> QED
    BY <2>1, LevelsDivide
<1> QED
  BY <1>1, <1>2

\* A sum divided among so many: what each gets, and what is left over.
LEMMA DividedAmong ==
  ASSUME NEW s \in Nat, NEW w \in Nat \ {0}
  PROVE  /\ s \div w \in Nat /\ s % w \in Nat
         /\ s = (s \div w) * w + (s % w)
OBVIOUS

LEMMA Multiples ==
  ASSUME NEW r \in Nat, NEW w \in Nat \ {0}, NEW n \in Nat, w <= n
  PROVE  w * r \in Nat /\ r <= w * r /\ w * r <= n * r
<1>1. PICK d \in Nat : n = w + d
  <2>1. n - w \in Nat /\ n = w + (n - w)
    OBVIOUS
  <2> QED
    BY <2>1
<1>2. PICK e \in Nat : w = 1 + e
  <2>1. w - 1 \in Nat /\ w = 1 + (w - 1)
    OBVIOUS
  <2> QED
    BY <2>1
<1>3. d * r \in Nat /\ e * r \in Nat /\ w * r \in Nat
  BY Product
<1>4. n * r = w * r + d * r /\ w * r = r + e * r
  BY <1>1, <1>2
<1> QED
  BY <1>3, <1>4

\* What is won is what was bet but for the remainders, and the loss that is announced is
\* at least as much, and none when nothing remains.
LEMMA PotsArePaid ==
  ASSUME HoldemAssumption, NEW a, NEW pots, Divides(pots, a)
  PROVE  /\ \A p \in Gamblers : Gain(pots, p) \in Nat
         /\ LostIn(pots) \in Nat
         /\ \E r \in Nat : /\ SumTo([p \in Gamblers |-> Gain(pots, p)], Gamblers) + r = Bets(a)
                           /\ r <= LostIn(pots)
                           /\ r = 0 => LostIn(pots) = 0
<1> DEFINE D == DOMAIN pots
           w(l) == Cardinality(pots[l].winners)
           cell(p, l) == IF p \in pots[l].winners THEN Share(pots[l]) ELSE 0
           F == [p \in Gamblers |-> [l \in D |-> cell(p, l)]]
           G == [l \in D |-> [p \in Gamblers |-> cell(p, l)]]
           gain == [p \in Gamblers |-> Gain(pots, p)]
           total == [l \in D |-> pots[l].sum]
           paid == [l \in D |-> Share(pots[l]) * w(l)]
           rest == [l \in D |-> pots[l].sum % w(l)]
           loss == [l \in D |-> w(l) * (pots[l].sum % w(l))]
           n == Cardinality(Gamblers)
<1>1. IsFiniteSet(D) /\ IsFiniteSet(Gamblers) /\ n \in Nat
  BY FS_CardinalityType DEF HoldemAssumption, Divides
<1>2. \A l \in D : /\ pots[l].sum \in Nat /\ w(l) \in Nat \ {0} /\ w(l) <= n
                   /\ pots[l].winners \in SUBSET Gamblers
  <2> SUFFICES ASSUME NEW l \in D
               PROVE  w(l) \in Nat \ {0} /\ w(l) <= n
    BY DEF Divides
  <2>1. pots[l].winners \in SUBSET Gamblers /\ pots[l].winners # {}
    BY DEF Divides
  <2>2. IsFiniteSet(pots[l].winners) /\ w(l) <= n
    BY <1>1, <2>1, FS_Subset
  <2> QED
    BY <2>1, <2>2, FS_CardinalityType, FS_EmptySet
<1>3. ASSUME NEW l \in D
      PROVE  /\ Share(pots[l]) \in Nat /\ rest[l] \in Nat /\ loss[l] \in Nat
             /\ total[l] = paid[l] + rest[l] /\ paid[l] \in Nat
             /\ rest[l] <= loss[l] /\ loss[l] <= n * rest[l]
  <2>1. PICK s \in Nat, v \in Nat \ {0} : s = pots[l].sum /\ v = w(l) /\ v <= n
    BY <1>2
  <2>2. /\ Share(pots[l]) = s \div v /\ rest[l] = s % v /\ loss[l] = v * (s % v)
        /\ paid[l] = (s \div v) * v /\ total[l] = s
    BY <2>1 DEF Share
  <2>3. PICK i \in Nat, r \in Nat : i = s \div v /\ r = s % v /\ s = i * v + r
    BY DividedAmong
  <2>4. i * v \in Nat /\ v * r \in Nat /\ r <= v * r /\ v * r <= n * r
    BY <1>1, <2>1, Product, Multiples
  <2> HIDE DEF total, rest, loss, paid, n
  <2> QED
    BY <2>2, <2>3, <2>4
<1>4. /\ total \in [D -> Int] /\ paid \in [D -> Int] /\ rest \in [D -> Nat] /\ loss \in [D -> Nat]
  <2>1. \A l \in D : total[l] \in Int /\ paid[l] \in Int /\ rest[l] \in Nat /\ loss[l] \in Nat
    <3> HIDE DEF total, paid, rest, loss
    <3> QED
      BY <1>3
  <2> QED
    BY <2>1
<1>5. ASSUME NEW p \in Gamblers
      PROVE  F[p] \in [D -> Nat] /\ gain[p] = SumTo(F[p], D) /\ gain[p] \in Nat
  <2> DEFINE f == [l \in D |-> cell(p, l)]
  <2>1. f \in [D -> Nat] /\ DOMAIN f = D
    BY <1>3
  <2>2. gain[p] = Total(f)
    BY DEF Gain
  <2>3. F[p] = f
    OBVIOUS
  <2> HIDE DEF f, gain, F
  <2>4. Total(f) = SumTo(f, D)
    BY <2>1, TotalIsSum
  <2>5. D \in SUBSET D
    OBVIOUS
  <2>6. SumTo(f, D) \in Nat
    <3> HIDE DEF D
    <3> QED
      BY <1>1, <2>1, <2>5, SumIsNatural
  <2> QED
    BY <2>1, <2>2, <2>3, <2>4, <2>6
<1>6. ASSUME NEW l \in D
      PROVE  G[l] \in [Gamblers -> Int] /\ paid[l] = SumTo(G[l], Gamblers)
  <2> DEFINE g == [p \in Gamblers |-> cell(p, l)]
             W == pots[l].winners
  <2>1. PICK c \in Int : c = Share(pots[l])
    BY <1>3
  <2>2. g \in [Gamblers -> Int] /\ \A p \in Gamblers : g[p] = IF p \in W THEN c ELSE 0
    BY <2>1
  <2>3. W \in SUBSET Gamblers
    BY <1>2
  <2>4. G[l] = g /\ paid[l] = c * Cardinality(W)
    BY <2>1
  <2> HIDE DEF g, W, G, paid
  <2>5. SumTo(g, Gamblers) = c * Cardinality(W)
    BY <1>1, <2>2, <2>3, SumCounts
  <2> QED
    BY <2>2, <2>4, <2>5
<1>7. Transposed(F, G, Gamblers, D)
  BY DEF Transposed
<1>8. RowSums(gain, F, Gamblers, D)
  <2>1. gain \in [Gamblers -> Int]
    <3>1. \A p \in Gamblers : gain[p] \in Int
      <4> HIDE DEF gain, F, D, cell
      <4> QED
        BY <1>5
    <3> QED
      BY <3>1
  <2> HIDE DEF F, gain
  <2> QED
    BY <1>5, <2>1 DEF RowSums
<1>9. RowSums(paid, G, D, Gamblers)
  <2> HIDE DEF G, paid
  <2> QED
    BY <1>4, <1>6 DEF RowSums
<1>10. LostIn(pots) = SumTo(loss, D)
  <2>1. LostIn(pots) = Total(loss)
    BY DEF LostIn
  <2> QED
    BY <2>1, TotalIsSum
<1>11. SumTo(total, D) = Bets(a)
  BY DEF Divides
<1> HIDE DEF D, F, G, gain, total, paid, rest, loss, n
<1>12. SumTo(gain, Gamblers) = SumTo(paid, D)
  BY <1>1, <1>7, <1>8, <1>9, SumsSwap
<1>13. rest \in [D -> Int] /\ loss \in [D -> Int]
  BY <1>4
<1>14. SumTo(total, D) = SumTo(paid, D) + SumTo(rest, D)
  BY <1>1, <1>3, <1>4, <1>13, SumAdds
<1>15. PICK r \in Nat, k \in Nat, i \in Int : r = SumTo(rest, D) /\ k = SumTo(loss, D) /\ i = SumTo(paid, D)
  <2>1. D \in SUBSET D
    OBVIOUS
  <2>2. SumTo(rest, D) \in Nat /\ SumTo(loss, D) \in Nat
    BY <1>1, <1>4, <2>1, SumIsNatural
  <2>3. SumTo(paid, D) \in Int
    BY <1>1, <1>4, <2>1, SumGrows
  <2> QED
    BY <2>2, <2>3
<1>16. r <= k
  BY <1>1, <1>3, <1>13, <1>15, SumBelow
<1>17. k <= n * r
  <2> DEFINE more == [l \in D |-> n * rest[l]]
  <2>1. more \in [D -> Int] /\ \A l \in D : more[l] = n * rest[l]
    <3>1. \A l \in D : n * rest[l] \in Nat
      BY <1>1, <1>4, Product
    <3> QED
      BY <3>1
  <2> HIDE DEF more
  <2>2. SumTo(more, D) = n * SumTo(rest, D)
    BY <1>1, <1>13, <2>1, SumScales
  <2>3. \A l \in D : loss[l] <= more[l]
    BY <1>3, <2>1
  <2>4. SumTo(loss, D) <= SumTo(more, D)
    BY <1>1, <1>13, <2>1, <2>3, SumBelow
  <2> QED
    BY <1>15, <2>2, <2>4
<1>18. r = 0 => k = 0
  BY <1>1, <1>15, <1>17
<1>19. i + r = Bets(a)
  BY <1>11, <1>14, <1>15
<1>20. \A p \in Gamblers : Gain(pots, p) \in Nat
  BY <1>5 DEF gain
<1> QED
  BY <1>10, <1>12, <1>15, <1>16, <1>18, <1>19, <1>20 DEF gain


\* All chips of the players.
Worth(a) == SumTo([p \in Gamblers |-> a[p].remain + a[p].bet], Gamblers)

LEMMA WorthIsANumber ==
  ASSUME HoldemAssumption, NEW a \in Accounts
  PROVE  Worth(a) \in Nat
<1>1. [p \in Gamblers |-> a[p].remain + a[p].bet] \in [Gamblers -> Nat]
  BY DEF Accounts, Account
<1>2. IsFiniteSet(Gamblers) /\ Gamblers \in SUBSET Gamblers
  BY DEF HoldemAssumption
<1> QED
  BY <1>1, <1>2, SumIsNatural DEF Worth

\* When the cards are opened the bets are paid out: what is missing afterwards is at most
\* what has been announced as lost, and nothing if nothing has.
LEMMA CardsAreOpened ==
  ASSUME HoldemAssumption, NEW a \in Accounts, lost \in Nat, prompt \in M!Masker, OpenCards(a)
  PROVE  /\ account' \in Accounts /\ \A p \in Gamblers : account'[p].bet = 0
         /\ table' = "round" /\ prompt' \in M!Masker /\ lost' \in Nat
         /\ \E r \in Nat : /\ Worth(account') + r = Worth(a)
                           /\ lost + r <= lost'
                           /\ r = 0 => lost' = lost
<1>1. PICK strength \in [Gamblers -> 1 .. 2] :
         /\ account' = PaidOut(a, Pots(a, strength))
         /\ lost' = lost + LostIn(Pots(a, strength))
         /\ prompt' = FoldSet(LAMBDA p, n : M!SetPermanentInactive(n, p), prompt,
                              {p \in Gamblers : account'[p].fold /\ a[p].bet > 0})
         /\ table' = "round"
  BY DEF OpenCards
<1> DEFINE pots == Pots(a, strength)
           gain == [p \in Gamblers |-> Gain(pots, p)]
           kept == [p \in Gamblers |-> a[p].remain]
           new == [p \in Gamblers |-> account'[p].remain + account'[p].bet]
           old == [p \in Gamblers |-> a[p].remain + a[p].bet]
<1>2. Divides(pots, a)
  <2>1. strength \in [Gamblers -> Nat]
    OBVIOUS
  <2> QED
    BY <2>1, PotsDivide
<1> HIDE DEF pots
<1>3. PICK r \in Nat : /\ SumTo(gain, Gamblers) + r = Bets(a)
                       /\ r <= LostIn(pots)
                       /\ r = 0 => LostIn(pots) = 0
  BY <1>2, PotsArePaid
<1>4. LostIn(pots) \in Nat /\ \A p \in Gamblers : Gain(pots, p) \in Nat
  BY <1>2, PotsArePaid
<1>5. \A p \in Gamblers : a[p].remain \in Nat /\ a[p].bet \in Nat
  BY DEF Accounts, Account
<1>6. account' = [p \in Gamblers |-> [remain |-> a[p].remain + Gain(pots, p), bet |-> 0,
                                      fold |-> a[p].remain + Gain(pots, p) = 0]]
  BY <1>1 DEF PaidOut, pots
<1>7. account' \in Accounts /\ \A p \in Gamblers : account'[p].bet = 0
  BY <1>4, <1>5, <1>6 DEF Accounts, Account
<1>8. /\ gain \in [Gamblers -> Int] /\ kept \in [Gamblers -> Int] /\ BetOf(a) \in [Gamblers -> Int]
      /\ new \in [Gamblers -> Int] /\ old \in [Gamblers -> Int]
      /\ \A p \in Gamblers : /\ new[p] = kept[p] + gain[p]
                             /\ old[p] = kept[p] + BetOf(a)[p]
  BY <1>4, <1>5, <1>6 DEF BetOf
<1>9. Worth(account') = SumTo(new, Gamblers) /\ Worth(a) = SumTo(old, Gamblers)
  BY DEF Worth
<1>10. prompt' \in M!Masker
  <2> DEFINE S == {p \in Gamblers : account'[p].fold /\ a[p].bet > 0}
  <2>1. S \in SUBSET Gamblers
    OBVIOUS
  <2> HIDE DEF S
  <2>2. IsFiniteSet(S)
    BY <2>1, FS_Subset DEF HoldemAssumption
  <2>3. FoldSet(LAMBDA p, n : M!SetPermanentInactive(n, p), prompt, S) = Retired(prompt, S)
    BY <2>1, <2>2, AllRetire
  <2>4. prompt' = Retired(prompt, S)
    BY <1>1, <2>3 DEF S
  <2>5. Retired(prompt, S) \in M!Masker
    BY <2>1 DEF Retired, OutOf, Gone, M!Masker, M!ActiveState
  <2> QED
    BY <2>4, <2>5
<1> HIDE DEF gain, kept, new, old
<1>11. IsFiniteSet(Gamblers)
  BY DEF HoldemAssumption
<1>12. /\ SumTo(new, Gamblers) = SumTo(kept, Gamblers) + SumTo(gain, Gamblers)
       /\ SumTo(old, Gamblers) = SumTo(kept, Gamblers) + Bets(a)
  <2>1. PICK bet \in [Gamblers -> Int] : bet = BetOf(a)
    BY <1>8
  <2>2. \A p \in Gamblers : old[p] = kept[p] + bet[p]
    BY <1>8, <2>1
  <2>3. SumTo(old, Gamblers) = SumTo(kept, Gamblers) + SumTo(bet, Gamblers)
    BY <1>8, <1>11, <2>2, SumAdds
  <2>4. SumTo(new, Gamblers) = SumTo(kept, Gamblers) + SumTo(gain, Gamblers)
    BY <1>8, <1>11, SumAdds
  <2> QED
    BY <2>1, <2>3, <2>4 DEF Bets
<1>13. PICK i \in Int, j \in Int : i = SumTo(kept, Gamblers) /\ j = SumTo(gain, Gamblers)
  BY <1>8, <1>11, SumGrows
<1>14. Worth(account') + r = Worth(a)
  BY <1>3, <1>9, <1>12, <1>13
<1>15. lost' = lost + LostIn(pots)
  BY <1>1 DEF pots
<1>16. lost' \in Nat /\ lost + r <= lost' /\ (r = 0 => lost' = lost)
  BY <1>3, <1>4, <1>15
<1> QED
  BY <1>1, <1>7, <1>10, <1>14, <1>16


-----------------------------------------------------------------------------
(* The stakes.                                                              *)

Playing == {"begin", "wait", "over", "next"}

\* Between the deals nothing is bet; in a deal somebody is in with the highest bet; in a
\* stage who still has to act is in, and behind if he has to follow; and while nobody has
\* bet more, whoever has acted is level.
StakesInv ==
    /\ table \notin Playing => \A p \in Gamblers : account[p].bet = 0
    /\ table \in Playing =>
         /\ \E p \in Gamblers : ~account[p].fold /\ account[p].bet = top + most
         /\ \A p \in Gamblers : account[p].bet <= top + most
    /\ table = "begin" =>
         /\ most = 0
         /\ ~raising => \A p \in Gamblers : AchievesMax(account[p], top)
    /\ table \in {"wait", "over"} =>
         /\ \A p \in Gamblers : ~prompt.ready[p] =>
               /\ ~account[p].fold
               /\ IF raising THEN account[p].bet < top
                             ELSE account[p].bet = top /\ account[p].remain > 0
         /\ most = 0 => \A p \in Gamblers : \/ AchievesMax(account[p], top)
                                            \/ raising /\ ~prompt.ready[p]
    /\ table = "next" /\ most = 0 => \A p \in Gamblers : AchievesMax(account[p], top)

\* What is won and lost.
Missing(a) == Chips * Cardinality(Gamblers) - Worth(a)
ChipsInv == Missing(account) \in 0 .. lost /\ (lost > 0 => Missing(account) > 0)

TableInv == TableShape /\ StakesInv /\ ChipsInv

\* TableInv holds at first, and every action keeps it.
LEMMA InitTable == HoldemAssumption /\ HoldemInit => TableInv
<1> SUFFICES ASSUME HoldemAssumption, HoldemInit
             PROVE  TableInv
  OBVIOUS
<1>1. account \in Accounts /\ \A p \in Gamblers : account[p] = [remain |-> Chips, bet |-> 0, fold |-> FALSE]
  BY DEF HoldemInit, Accounts, Account, HoldemAssumption
<1>2. prompt \in M!Masker
  BY DEF HoldemInit, M!NewMasker, M!Masker, M!ActiveState
<1>3. TableShape
  <2>1. Deals \in Nat \ {0}
    BY DEF HoldemAssumption
  <2>2. deal \in 1 .. Deals
    BY <2>1 DEF HoldemInit
  <2>3. table \in Phases /\ raising \in BOOLEAN /\ shown \in {0, 3, 4, 5}
    BY DEF HoldemInit, Phases
  <2>4. top \in Nat /\ least \in Nat /\ most \in Nat /\ lost \in Nat
    BY DEF HoldemInit
  <2> QED
    BY <1>1, <1>2, <2>2, <2>3, <2>4 DEF TableShape
<1>4. StakesInv
  BY <1>1 DEF HoldemInit, StakesInv, Playing
<1>5. Worth(account) = Chips * Cardinality(Gamblers)
  <2> DEFINE f == [p \in Gamblers |-> account[p].remain + account[p].bet]
  <2>1. f \in [Gamblers -> Int] /\ \A p \in Gamblers : f[p] = IF p \in Gamblers THEN Chips ELSE 0
    BY <1>1 DEF HoldemAssumption
  <2>2. Chips \in Int /\ IsFiniteSet(Gamblers) /\ Gamblers \in SUBSET Gamblers
    BY DEF HoldemAssumption
  <2> HIDE DEF f
  <2>3. SumTo(f, Gamblers) = Chips * Cardinality(Gamblers)
    BY <2>1, <2>2, SumCounts
  <2> QED
    BY <2>3 DEF Worth, f
<1>6. Worth(account) \in Nat
  BY <1>1, WorthIsANumber
<1>7. ChipsInv
  BY <1>5, <1>6 DEF ChipsInv, Missing, HoldemInit
<1> QED
  BY <1>3, <1>4, <1>7 DEF TableInv

\* Chips that are only moved are all there.
LEMMA ChipsAreMoved ==
  ASSUME HoldemAssumption, account \in Accounts, account' \in Accounts, lost' = lost, ChipsInv,
         \A p \in Gamblers : account'[p].remain + account'[p].bet = account[p].remain + account[p].bet
  PROVE  ChipsInv'
<1>1. [p \in Gamblers |-> account'[p].remain + account'[p].bet]
         = [p \in Gamblers |-> account[p].remain + account[p].bet]
  OBVIOUS
<1>2. Worth(account') = Worth(account)
  BY <1>1 DEF Worth
<1> QED
  BY <1>2 DEF ChipsInv, Missing

\* A player of his stage: the request he has acted with is taken down for him alone.
LEMMA TakenDown ==
  ASSUME NEW p \in Gamblers, prompt \in M!Masker, Acted(p)
  PROVE  /\ prompt' \in M!Masker /\ prompt'.ready = [prompt.ready EXCEPT ![p] = TRUE]
         /\ table' \in {"wait", "over"}
         /\ UNCHANGED <<raising, deal, shown, top, least, lost>>
<1>1. /\ M!SilentlySetReady(prompt, p) \in M!Masker
      /\ M!SilentlySetReady(prompt, p).ready = [prompt.ready EXCEPT ![p] = TRUE]
      /\ M!SetReady(M!SetActive(prompt, p), p) \in M!Masker
      /\ M!SetReady(M!SetActive(prompt, p), p).ready = [prompt.ready EXCEPT ![p] = TRUE]
  BY MaskerStays
<1> QED
  BY <1>1 DEF Acted, Settle

\* Whatever a player does: he moves his chips, is level or the highest if he raises, and
\* was not the highest if he does not.
LEMMA PlayerActs ==
  ASSUME HoldemAssumption, TableInv, NEW p \in Gamblers, MayAct(p), Acted(p),
         NEW c \in Account, account' = [account EXCEPT ![p] = c],
         c.remain + c.bet = account[p].remain + account[p].bet,
         most' \in Nat, most <= most', c.bet <= top + most',
         most < most' => ~c.fold /\ c.bet = top + most',
         most' = 0 => AchievesMax(c, top),
         most' = most /\ account[p].bet = top + most => c = account[p]
  PROVE  TableInv'
<1>1. /\ prompt' \in M!Masker /\ prompt'.ready = [prompt.ready EXCEPT ![p] = TRUE]
      /\ table' \in {"wait", "over"}
      /\ UNCHANGED <<raising, deal, shown, top, least, lost>>
  BY TakenDown DEF TableInv, TableShape
<1>2. /\ table = "wait" /\ ~prompt.ready[p]
      /\ account \in Accounts /\ top \in Nat /\ most \in Nat
      /\ prompt.ready \in [Gamblers -> BOOLEAN]
  BY DEF MayAct, TableInv, TableShape, M!Masker
<1>3. /\ account' \in Accounts /\ account'[p] = c
      /\ \A q \in Gamblers \ {p} : account'[q] = account[q]
  BY <1>2 DEF Accounts
<1>4. TableShape'
  BY <1>1, <1>3 DEF TableInv, TableShape, Phases
<1>5. ChipsInv'
  <2>1. \A q \in Gamblers : account'[q].remain + account'[q].bet = account[q].remain + account[q].bet
    BY <1>3
  <2> QED
    BY <1>1, <1>2, <1>3, <2>1, ChipsAreMoved DEF TableInv
<1>6. \A q \in Gamblers : account[q].bet \in Nat /\ account[q].bet <= top + most
  BY <1>2 DEF TableInv, StakesInv, Playing, Accounts, Account
<1>7. \A q \in Gamblers : account'[q].bet <= top + most'
  <2> TAKE q \in Gamblers
  <2>1. CASE q = p
    BY <1>3, <2>1
  <2>2. CASE q # p
    BY <1>2, <1>3, <1>6, <2>2
  <2> QED
    BY <2>1, <2>2
<1>8. \E q \in Gamblers : ~account'[q].fold /\ account'[q].bet = top + most'
  <2>1. CASE most < most'
    BY <1>3, <2>1
  <2>2. CASE most' = most
    <3>1. PICK q \in Gamblers : ~account[q].fold /\ account[q].bet = top + most
      BY <1>2 DEF TableInv, StakesInv, Playing
    <3>2. account'[q] = account[q]
      BY <1>3, <2>2, <3>1
    <3> QED
      BY <2>2, <3>1, <3>2
  <2> QED
    BY <1>2, <2>1, <2>2
<1>9. ASSUME NEW q \in Gamblers, ~prompt'.ready[q]
      PROVE  /\ q # p /\ account'[q] = account[q] /\ ~prompt.ready[q]
  BY <1>1, <1>2, <1>3, <1>9
<1>10. ASSUME most' = 0, NEW q \in Gamblers
       PROVE  AchievesMax(account'[q], top) \/ (raising /\ ~prompt'.ready[q])
  <2>1. CASE q = p
    BY <1>3, <1>10, <2>1
  <2>2. CASE q # p
    <3>1. most = 0
      BY <1>2, <1>10
    <3>2. AchievesMax(account[q], top) \/ (raising /\ ~prompt.ready[q])
      BY <1>2, <3>1 DEF TableInv, StakesInv
    <3> QED
      BY <1>1, <1>2, <1>3, <2>2, <3>2
  <2> QED
    BY <2>1, <2>2
<1>11. \A q \in Gamblers : ~prompt'.ready[q] =>
          /\ ~account'[q].fold
          /\ IF raising THEN account'[q].bet < top
                        ELSE account'[q].bet = top /\ account'[q].remain > 0
  BY <1>2, <1>9 DEF TableInv, StakesInv
<1>12. StakesInv'
  BY <1>1, <1>7, <1>8, <1>10, <1>11 DEF StakesInv, Playing
<1> QED
  BY <1>4, <1>5, <1>12 DEF TableInv


\* Who may act is in, and level or behind.
LEMMA WhoMayAct ==
  ASSUME TableInv, NEW p \in Gamblers, MayAct(p)
  PROVE  /\ account[p] \in Account /\ ~account[p].fold
         /\ account[p].remain \in Nat /\ account[p].bet \in Nat
         /\ top \in Nat /\ most \in Nat /\ least \in Nat /\ raising \in BOOLEAN
         /\ raising => account[p].bet < top
         /\ ~raising => account[p].bet = top /\ account[p].remain > 0
BY DEF TableInv, TableShape, StakesInv, MayAct, Accounts, Account

\* Chips that are bet are moved.
LEMMA ChipsAreBet ==
  ASSUME NEW c \in Account, NEW n \in 0 .. c.remain
  PROVE  /\ Consumed(c, n) \in Account
         /\ Consumed(c, n).remain = c.remain - n /\ Consumed(c, n).bet = c.bet + n
         /\ Consumed(c, n).fold = c.fold
         /\ Consumed(c, n).remain + Consumed(c, n).bet = c.remain + c.bet
<1>1. c.remain \in Nat /\ c.bet \in Nat /\ c.fold \in BOOLEAN
  BY DEF Account
<1>2. PICK b \in Nat, r \in Nat : b = c.bet + n /\ r = c.remain - n /\ r + b = c.remain + c.bet
  <2>1. c.bet + n \in Nat /\ c.remain - n \in Nat /\ (c.remain - n) + (c.bet + n) = c.remain + c.bet
    BY <1>1
  <2> QED
    BY <2>1
<1>3. Consumed(c, n) = [[c EXCEPT !.bet = b] EXCEPT !.remain = r]
  BY <1>2, Zenon DEF Consumed
<1>4. /\ Consumed(c, n) \in Account /\ Consumed(c, n).remain = r /\ Consumed(c, n).bet = b
      /\ Consumed(c, n).fold = c.fold
  BY <1>3 DEF Account
<1> QED
  BY <1>2, <1>4

\* Who bets all he has.
LEMMA AllInKeepsTable ==
  ASSUME HoldemAssumption, TableInv, NEW p \in Gamblers, AllIn(p)
  PROVE  TableInv'
<1> DEFINE c == Consumed(account[p], account[p].remain)
           x == account[p].remain + account[p].bet - top
<1>1. MayAct(p) /\ Acted(p)
  BY DEF AllIn
<1>2. /\ account[p] \in Account /\ ~account[p].fold
      /\ account[p].remain \in Nat /\ account[p].bet \in Nat
      /\ top \in Nat /\ most \in Nat /\ raising \in BOOLEAN
      /\ raising => account[p].bet < top
      /\ ~raising => account[p].bet = top /\ account[p].remain > 0
  BY <1>1, WhoMayAct
<1>3. /\ c \in Account /\ c.remain = 0 /\ c.bet = account[p].bet + account[p].remain /\ ~c.fold
      /\ c.remain + c.bet = account[p].remain + account[p].bet
  <2>1. PICK n \in 0 .. account[p].remain : n = account[p].remain
    BY <1>2
  <2> QED
    BY <1>2, <2>1, ChipsAreBet
<1>4. account' = [account EXCEPT ![p] = c]
  BY DEF AllIn, Consumed, TableInv, TableShape, Accounts
<1>5. account[p].remain + (IF raising THEN account[p].bet - top ELSE 0) = x
  BY <1>2
<1>6. most' = IF most <= x THEN x ELSE most
  <2>1. most' = Max({most, x})
    BY <1>5 DEF AllIn
  <2>2. most \in Int /\ x \in Int
    BY <1>2
  <2> QED
    BY <2>1, <2>2, OfTwo
<1> HIDE DEF c
<1>7. c.bet = top + x
  BY <1>2, <1>3
<1>8. /\ most' \in Nat /\ most <= most' /\ c.bet <= top + most'
      /\ most < most' => ~c.fold /\ c.bet = top + most'
  BY <1>2, <1>3, <1>6, <1>7
<1>9. AchievesMax(c, top)
  BY <1>3 DEF AchievesMax
<1>10. ~(most' = most /\ account[p].bet = top + most)
  BY <1>2, <1>6
<1> QED
  BY <1>1, <1>3, <1>4, <1>8, <1>9, <1>10, PlayerActs

\* Who raises.
LEMMA RaiseKeepsTable ==
  ASSUME HoldemAssumption, TableInv, NEW p \in Gamblers, NEW n \in Nat \ {0}, Raise(p, n)
  PROVE  TableInv'
<1> DEFINE offset == top + n - account[p].bet
           c == Consumed(account[p], offset)
<1>1. MayAct(p) /\ Acted(p) /\ raising /\ offset <= account[p].remain
  BY DEF Raise, Offset
<1>2. /\ account[p] \in Account /\ ~account[p].fold
      /\ account[p].remain \in Nat /\ account[p].bet \in Nat
      /\ top \in Nat /\ most \in Nat /\ account[p].bet < top
  BY <1>1, WhoMayAct
<1>3. /\ c \in Account /\ c.bet = account[p].bet + offset /\ ~c.fold
      /\ c.remain + c.bet = account[p].remain + account[p].bet
  <2>1. offset \in 0 .. account[p].remain
    BY <1>1, <1>2
  <2> HIDE DEF offset
  <2> QED
    BY <1>2, <2>1, ChipsAreBet
<1>4. account' = [account EXCEPT ![p] = c]
  BY DEF Raise, Offset, Consumed, TableInv, TableShape, Accounts
<1>5. most' = IF most <= n THEN n ELSE most
  <2>1. most' = Max({most, n})
    BY DEF Raise
  <2>2. most \in Int /\ n \in Int
    BY <1>2
  <2> QED
    BY <2>1, <2>2, OfTwo
<1> HIDE DEF c
<1>6. c.bet = top + n
  BY <1>2, <1>3
<1>7. /\ most' \in Nat /\ most <= most' /\ most' # 0 /\ c.bet <= top + most'
      /\ most < most' => ~c.fold /\ c.bet = top + most'
      /\ account[p].bet # top + most
  BY <1>2, <1>3, <1>5, <1>6
<1> QED
  BY <1>1, <1>3, <1>4, <1>7, PlayerActs

\* Who calls.
LEMMA CallKeepsTable ==
  ASSUME HoldemAssumption, TableInv, NEW p \in Gamblers, Call(p)
  PROVE  TableInv'
<1> DEFINE n == Min({account[p].remain, top - account[p].bet})
           c == Consumed(account[p], n)
<1>1. MayAct(p) /\ Acted(p) /\ raising /\ most' = most
  BY DEF Call
<1>2. /\ account[p] \in Account /\ ~account[p].fold
      /\ account[p].remain \in Nat /\ account[p].bet \in Nat
      /\ top \in Nat /\ most \in Nat /\ account[p].bet < top
  BY <1>1, WhoMayAct
<1>3. n = IF account[p].remain <= top - account[p].bet THEN account[p].remain
                                                        ELSE top - account[p].bet
  <2> DEFINE i == account[p].remain
             j == top - account[p].bet
  <2>1. i \in Int /\ j \in Int
    BY <1>2
  <2>2. n = Min({i, j})
    OBVIOUS
  <2> HIDE DEF n, i, j
  <2>3. n = IF i <= j THEN i ELSE j
    BY <2>1, <2>2, OfTwo
  <2> QED
    BY <2>3 DEF i, j
<1>4. /\ c \in Account /\ ~c.fold
      /\ c.remain = account[p].remain - n /\ c.bet = account[p].bet + n
      /\ c.remain + c.bet = account[p].remain + account[p].bet
  <2>1. n \in 0 .. account[p].remain
    BY <1>2, <1>3
  <2> HIDE DEF n
  <2> QED
    BY <1>2, <2>1, ChipsAreBet
<1>5. account' = [account EXCEPT ![p] = c]
  BY DEF Call, Consumed, TableInv, TableShape, Accounts
<1> HIDE DEF n, c
<1>6. c.bet <= top + most' /\ (c.remain = 0 \/ c.bet = top)
  BY <1>1, <1>2, <1>3, <1>4
<1>7. AchievesMax(c, top)
  BY <1>6 DEF AchievesMax
<1>8. most' \in Nat /\ most <= most' /\ ~(most < most') /\ account[p].bet # top + most
  BY <1>1, <1>2
<1> QED
  BY <1>1, <1>4, <1>5, <1>6, <1>7, <1>8, PlayerActs

\* Who folds.
LEMMA FoldKeepsTable ==
  ASSUME HoldemAssumption, TableInv, NEW p \in Gamblers, Fold(p)
  PROVE  TableInv'
<1> DEFINE c == [account[p] EXCEPT !.fold = TRUE]
<1>1. MayAct(p) /\ Acted(p) /\ raising /\ most' = most
  BY DEF Fold
<1>2. /\ account[p] \in Account
      /\ account[p].remain \in Nat /\ account[p].bet \in Nat
      /\ top \in Nat /\ most \in Nat /\ account[p].bet < top
  BY <1>1, WhoMayAct
<1>3. account' = [account EXCEPT ![p] = c]
  BY DEF Fold, TableInv, TableShape, Accounts
<1>4. c \in Account /\ c.fold /\ c.bet = account[p].bet /\ c.remain = account[p].remain
  BY <1>2 DEF Account
<1> HIDE DEF c
<1>5. AchievesMax(c, top)
  BY <1>4 DEF AchievesMax
<1>6. /\ most' \in Nat /\ most <= most' /\ ~(most < most') /\ account[p].bet # top + most
      /\ c.bet <= top + most' /\ c.remain + c.bet = account[p].remain + account[p].bet
  BY <1>1, <1>2, <1>4
<1> QED
  BY <1>1, <1>3, <1>4, <1>5, <1>6, PlayerActs

\* A bet, whatever it is.
LEMMA BetKeepsTable ==
  ASSUME HoldemAssumption, TableInv, NEW p \in Gamblers, NEW n \in Nat \ {0}, Bet(p, n)
  PROVE  TableInv'
<1> DEFINE c == Consumed(account[p], n)
<1>1. MayAct(p) /\ Acted(p) /\ ~raising /\ n <= account[p].remain
  BY DEF Bet
<1>2. /\ account[p] \in Account /\ ~account[p].fold
      /\ account[p].remain \in Nat /\ account[p].bet \in Nat
      /\ top \in Nat /\ most \in Nat /\ account[p].bet = top
  BY <1>1, WhoMayAct
<1>3. /\ c \in Account /\ c.bet = top + n /\ ~c.fold
      /\ c.remain + c.bet = account[p].remain + account[p].bet
  <2>1. n \in 0 .. account[p].remain
    BY <1>1, <1>2
  <2> QED
    BY <1>2, <2>1, ChipsAreBet
<1>4. account' = [account EXCEPT ![p] = c]
  BY DEF Bet, Consumed, TableInv, TableShape, Accounts
<1>5. most' = IF most <= n THEN n ELSE most
  <2>1. most' = Max({most, n})
    BY DEF Bet
  <2>2. most \in Int /\ n \in Int
    BY <1>2
  <2> QED
    BY <2>1, <2>2, OfTwo
<1> HIDE DEF c
<1>6. /\ most' \in Nat /\ most <= most' /\ most' # 0 /\ c.bet <= top + most'
      /\ most < most' => ~c.fold /\ c.bet = top + most'
      /\ ~(most' = most /\ account[p].bet = top + most)
  BY <1>2, <1>3, <1>5
<1> QED
  BY <1>1, <1>3, <1>4, <1>6, PlayerActs

\* Who checks.
LEMMA CheckKeepsTable ==
  ASSUME HoldemAssumption, TableInv, NEW p \in Gamblers, Check(p)
  PROVE  TableInv'
<1>1. MayAct(p) /\ Acted(p) /\ ~raising /\ most' = most /\ account' = account
  BY DEF Check
<1>2. /\ account[p] \in Account
      /\ account[p].remain \in Nat /\ account[p].bet \in Nat
      /\ top \in Nat /\ most \in Nat /\ account[p].bet = top
  BY <1>1, WhoMayAct
<1>3. account' = [account EXCEPT ![p] = account[p]]
  BY <1>1 DEF TableInv, TableShape, Accounts
<1>4. /\ most' \in Nat /\ most <= most' /\ ~(most < most') /\ account[p].bet <= top + most'
      /\ AchievesMax(account[p], top)
  BY <1>1, <1>2 DEF AchievesMax
<1> QED
  BY <1>1, <1>2, <1>3, <1>4, PlayerActs


\* Only the masker changes, and nobody gets unready.
LEMMA LeaveKeepsTable ==
  ASSUME HoldemAssumption, TableInv, NEW p \in Gamblers, GamblerLeaves(p)
  PROVE  TableInv'
<1>1. /\ prompt' \in M!Masker /\ prompt'.ready = prompt.ready
      /\ table = "wait" /\ table' \in {"wait", "over"}
      /\ UNCHANGED <<raising, deal, shown, account, top, least, most, lost>>
  <2>1. prompt \in M!Masker
    BY DEF TableInv, TableShape
  <2> QED
    BY <2>1, MaskerStays DEF GamblerLeaves, Settle
<1>2. TableShape'
  BY <1>1 DEF TableInv, TableShape, Phases
<1>3. StakesInv'
  BY <1>1 DEF TableInv, StakesInv, Playing
<1>4. ChipsInv'
  BY <1>1 DEF TableInv, ChipsInv
<1> QED
  BY <1>2, <1>3, <1>4 DEF TableInv

\* When a stage begins those are ready who cannot act, or are level.
LEMMA BeginStageKeepsTable ==
  ASSUME HoldemAssumption, TableInv, BeginStage
  PROVE  TableInv'
<1> DEFINE idle == {p \in Gamblers : IF raising THEN AchievesMax(account[p], top)
                                     ELSE account[p].remain = 0 \/ account[p].fold}
           m == M!ClearReady(prompt)
<1>1. /\ table = "begin" /\ most = 0 /\ most' = 0
      /\ UNCHANGED <<raising, deal, shown, account, top, least, lost>>
      /\ Settle(FoldSet(LAMBDA p, n : M!SetReady(n, p), m, idle))
  BY DEF BeginStage, TableInv, StakesInv
<1>2. /\ account \in Accounts /\ top \in Nat /\ prompt \in M!Masker
      /\ \A p \in Gamblers : account[p] \in Account /\ account[p].bet <= top
      /\ \E p \in Gamblers : ~account[p].fold /\ account[p].bet = top
      /\ ~raising => \A p \in Gamblers : AchievesMax(account[p], top)
  <2>1. /\ account \in Accounts /\ top \in Nat /\ prompt \in M!Masker
        /\ \A p \in Gamblers : account[p] \in Account
    BY DEF TableInv, TableShape, Accounts
  <2>2. most = 0 /\ table = "begin"
    BY <1>1
  <2>3. top + most = top
    BY <2>1, <2>2
  <2>4. /\ \E p \in Gamblers : ~account[p].fold /\ account[p].bet = top + most
        /\ \A p \in Gamblers : account[p].bet <= top + most
        /\ ~raising => \A p \in Gamblers : AchievesMax(account[p], top)
    BY <2>2 DEF TableInv, StakesInv, Playing
  <2> QED
    BY <2>1, <2>3, <2>4
<1>3. /\ m \in M!Masker /\ \A q \in Gamblers : ~m.ready[q]
  BY <1>2 DEF M!ClearReady, M!Masker
<1>4. idle \in SUBSET Gamblers /\ IsFiniteSet(idle)
  <2>1. idle \in SUBSET Gamblers
    OBVIOUS
  <2> HIDE DEF idle
  <2> QED
    BY <2>1, FS_Subset DEF HoldemAssumption
<1>5. /\ prompt' \in M!Masker /\ table' \in {"wait", "over"}
      /\ \A q \in Gamblers : prompt'.ready[q] <=> q \in idle
  <2> HIDE DEF idle, m
  <2>1. FoldSet(LAMBDA p, n : M!SetReady(n, p), m, idle) = Readied(Gamblers, m, idle)
    BY <1>3, <1>4, GamblersGetReady
  <2>2. prompt' = Readied(Gamblers, m, idle) /\ table' \in {"wait", "over"}
    BY <1>1, <2>1 DEF Settle
  <2>3. Readied(Gamblers, m, idle) \in M!Masker
    BY <1>3, <1>4 DEF Readied, M!Masker
  <2>4. \A q \in Gamblers : Readied(Gamblers, m, idle).ready[q] = (q \in idle \/ m.ready[q])
    BY <1>3 DEF Readied, M!Masker
  <2> QED
    BY <1>3, <2>2, <2>3, <2>4
<1>6. \A q \in Gamblers : ~prompt'.ready[q] =>
         /\ ~account[q].fold
         /\ IF raising THEN account[q].bet < top
                       ELSE account[q].bet = top /\ account[q].remain > 0
  <2> SUFFICES ASSUME NEW q \in Gamblers, q \notin idle
               PROVE  /\ ~account[q].fold
                      /\ IF raising THEN account[q].bet < top
                                    ELSE account[q].bet = top /\ account[q].remain > 0
    BY <1>5
  <2>1. account[q].bet \in Nat /\ account[q].remain \in Nat /\ account[q].bet <= top
    BY <1>2 DEF Account
  <2> QED
    BY <1>2, <2>1 DEF AchievesMax
<1>7. \A q \in Gamblers : AchievesMax(account[q], top) \/ (raising /\ ~prompt'.ready[q])
  BY <1>2, <1>5
<1> HIDE DEF idle, m
<1>8. TableShape'
  BY <1>1, <1>5 DEF TableInv, TableShape, Phases
<1>9. StakesInv'
  <2>1. top + 0 = top
    BY <1>2
  <2> QED
    BY <1>1, <1>2, <1>5, <1>6, <1>7, <2>1 DEF StakesInv, Playing
<1>10. ChipsInv'
  BY <1>1 DEF TableInv, ChipsInv
<1> QED
  BY <1>8, <1>9, <1>10 DEF TableInv

\* Who has not acted when the stage is over was behind if he is made to fold.
LEMMA CloseStageKeepsTable ==
  ASSUME HoldemAssumption, TableInv, CloseStage
  PROVE  TableInv'
<1> DEFINE late == {p \in Gamblers : ~prompt.ready[p]}
<1>1. /\ table \in {"wait", "over"} /\ table' = "next"
      /\ UNCHANGED <<raising, deal, shown, top, least, most, lost>>
      /\ account' = [p \in Gamblers |-> IF raising /\ p \in late THEN [account[p] EXCEPT !.fold = TRUE]
                                                                  ELSE account[p]]
      /\ prompt' = M!SetTemporaryInactive(prompt, late)
  BY DEF CloseStage
<1>2. /\ account \in Accounts /\ top \in Nat /\ most \in Nat /\ prompt \in M!Masker
      /\ \A p \in Gamblers : account[p] \in Account
  BY DEF TableInv, TableShape, Accounts
<1>3. prompt' \in M!Masker
  <2>1. late \in SUBSET Gamblers
    OBVIOUS
  <2> HIDE DEF late
  <2> QED
    BY <1>1, <1>2, <2>1 DEF M!SetTemporaryInactive, M!Inactivate, M!Masker, M!ActiveState
<1>4. \A p \in Gamblers :
         /\ account'[p] \in Account
         /\ account'[p].remain = account[p].remain /\ account'[p].bet = account[p].bet
         /\ account'[p].fold = (account[p].fold \/ (raising /\ ~prompt.ready[p]))
  <2> TAKE p \in Gamblers
  <2>1. CASE raising /\ p \in late
    <3>1. account'[p] = [account[p] EXCEPT !.fold = TRUE]
      BY <1>1, <2>1
    <3> HIDE DEF late
    <3>2. /\ account'[p] \in Account /\ account'[p].fold
          /\ account'[p].remain = account[p].remain /\ account'[p].bet = account[p].bet
      BY <1>2, <3>1 DEF Account
    <3> QED
      BY <2>1, <3>2 DEF late, Account
  <2>2. CASE ~(raising /\ p \in late)
    <3>1. account'[p] = account[p]
      BY <1>1, <2>2
    <3>2. account[p].fold \in BOOLEAN
      BY <1>2 DEF Account
    <3> QED
      BY <1>2, <2>2, <3>1, <3>2
  <2> QED
    BY <2>1, <2>2
<1>5. account' \in Accounts
  BY <1>1, <1>4 DEF Accounts
<1> HIDE DEF late
<1>6. TableShape'
  BY <1>1, <1>3, <1>5 DEF TableInv, TableShape, Phases
<1>7. ChipsInv'
  BY <1>1, <1>2, <1>4, <1>5, ChipsAreMoved DEF TableInv
<1>8. \A p \in Gamblers : ~prompt.ready[p] /\ raising => account[p].bet < top
  BY <1>1 DEF TableInv, StakesInv
<1>9. \E p \in Gamblers : ~account'[p].fold /\ account'[p].bet = top + most
  <2>1. PICK p \in Gamblers : ~account[p].fold /\ account[p].bet = top + most
    BY <1>1 DEF TableInv, StakesInv, Playing
  <2>2. ~(account[p].bet < top)
    BY <1>2, <2>1
  <2> QED
    BY <1>4, <1>8, <2>1, <2>2
<1>10. \A p \in Gamblers : account'[p].bet <= top + most
  BY <1>1, <1>4 DEF TableInv, StakesInv, Playing
<1>11. ASSUME most = 0, NEW p \in Gamblers
       PROVE  AchievesMax(account'[p], top)
  <2>1. AchievesMax(account[p], top) \/ (raising /\ ~prompt.ready[p])
    BY <1>1, <1>11 DEF TableInv, StakesInv
  <2> QED
    BY <1>4, <2>1 DEF AchievesMax
<1>12. StakesInv'
  BY <1>1, <1>9, <1>10, <1>11 DEF StakesInv, Playing
<1> QED
  BY <1>6, <1>7, <1>12 DEF TableInv


\* Nobody has bet anything, and nothing is missing but what is lost, when the cards have
\* been opened.
LEMMA OpeningKeepsTable ==
  ASSUME HoldemAssumption, TableInv, NEW a \in Accounts, Worth(a) = Worth(account), OpenCards(a),
         deal' = deal, raising' \in BOOLEAN, shown' \in {0, 3, 4, 5},
         top' \in Nat, least' \in Nat, most' \in Nat
  PROVE  TableInv'
<1>1. /\ lost \in Nat /\ prompt \in M!Masker /\ deal \in 1 .. Deals /\ account \in Accounts
      /\ ChipsInv
  BY DEF TableInv, TableShape
<1>2. PICK r \in Nat : /\ account' \in Accounts /\ \A p \in Gamblers : account'[p].bet = 0
                       /\ table' = "round" /\ prompt' \in M!Masker /\ lost' \in Nat
                       /\ Worth(account') + r = Worth(a)
                       /\ lost + r <= lost'
                       /\ r = 0 => lost' = lost
  BY <1>1, CardsAreOpened
<1>3. TableShape'
  BY <1>1, <1>2 DEF TableShape, Phases
<1>4. StakesInv'
  BY <1>2 DEF StakesInv, Playing
<1>5. PICK n \in Nat : n = Chips * Cardinality(Gamblers)
  <2>1. Chips \in Nat /\ Cardinality(Gamblers) \in Nat
    BY FS_CardinalityType DEF HoldemAssumption
  <2> QED
    BY <2>1, Product
<1>6. PICK v \in Nat, w \in Nat : v = Worth(account) /\ w = Worth(account') /\ w + r = v
  BY <1>1, <1>2, WorthIsANumber
<1>7. n - v \in 0 .. lost /\ (lost > 0 => n - v > 0)
  BY <1>1, <1>5, <1>6 DEF ChipsInv, Missing
<1>8. n - w \in 0 .. lost' /\ (lost' > 0 => n - w > 0)
  BY <1>1, <1>2, <1>6, <1>7
<1>9. ChipsInv'
  BY <1>5, <1>6, <1>8 DEF ChipsInv, Missing
<1> QED
  BY <1>3, <1>4, <1>9 DEF TableInv

\* Raising goes on while somebody is behind; else the next cards come, or all are opened.
LEMMA NextStageKeepsTable ==
  ASSUME HoldemAssumption, TableInv, NextStage
  PROVE  TableInv'
<1>1. /\ table = "next" /\ top' = top + most /\ least' = Max({least, most}) /\ most' = 0
      /\ deal' = deal
  BY DEF NextStage
<1>2. /\ account \in Accounts /\ top \in Nat /\ most \in Nat /\ least \in Nat
      /\ raising \in BOOLEAN /\ shown \in {0, 3, 4, 5} /\ prompt \in M!Masker
      /\ deal \in 1 .. Deals /\ lost \in Nat
  BY DEF TableInv, TableShape
<1>3. top' \in Nat /\ least' \in Nat /\ most' \in Nat
  <2>1. least \in Int /\ most \in Int
    BY <1>2
  <2>2. Max({least, most}) = IF least <= most THEN most ELSE least
    BY <2>1, OfTwo
  <2> QED
    BY <1>1, <1>2, <2>2
<1>4. /\ \E p \in Gamblers : ~account[p].fold /\ account[p].bet = top' + most'
      /\ \A p \in Gamblers : account[p].bet <= top' + most'
  <2>1. top' + most' = top + most
    BY <1>1, <1>2
  <2> QED
    BY <1>1, <2>1 DEF TableInv, StakesInv, Playing
<1>5. ASSUME UNCHANGED <<account, lost, prompt>>, table' = "begin", raising' \in BOOLEAN,
             shown' \in {0, 3, 4, 5},
             ~raising' => \A p \in Gamblers : AchievesMax(account[p], top')
      PROVE  TableInv'
  <2>1. TableShape'
    BY <1>1, <1>2, <1>3, <1>5 DEF TableShape, Phases
  <2>2. StakesInv'
    BY <1>1, <1>4, <1>5 DEF StakesInv, Playing
  <2>3. ChipsInv'
    BY <1>5 DEF TableInv, ChipsInv
  <2> QED
    BY <2>1, <2>2, <2>3 DEF TableInv
<1>6. CASE most > 0 /\ \E p \in Gamblers : ~AchievesMax(account[p], top + most)
  <2>1. raising' = TRUE /\ table' = "begin" /\ UNCHANGED <<shown, account, lost, prompt>>
    BY <1>6 DEF NextStage
  <2> QED
    BY <1>2, <1>5, <2>1
<1>7. CASE ~(most > 0 /\ \E p \in Gamblers : ~AchievesMax(account[p], top + most))
  <2>1. CASE Opens(account, shown)
    <3>1. OpenCards(account) /\ UNCHANGED <<shown, raising>>
      BY <1>7, <2>1 DEF NextStage
    <3> QED
      BY <1>1, <1>2, <1>3, <3>1, OpeningKeepsTable
  <2>2. CASE ~Opens(account, shown)
    <3>1. /\ raising' = FALSE /\ table' = "begin"
          /\ shown' = IF shown = 0 THEN 3 ELSE shown + 1
          /\ UNCHANGED <<account, lost, prompt>>
      BY <1>7, <2>2 DEF NextStage
    <3>2. shown' \in {0, 3, 4, 5}
      <4>1. ~(shown >= 5)
        BY <2>2 DEF Opens
      <4> QED
        BY <1>2, <3>1, <4>1
    <3>3. \A p \in Gamblers : AchievesMax(account[p], top')
      <4>1. CASE most > 0
        BY <1>1, <1>7, <4>1
      <4>2. CASE most = 0
        <5>1. top' = top
          BY <1>1, <1>2, <4>2
        <5> QED
          BY <1>1, <4>2, <5>1 DEF TableInv, StakesInv
      <4> QED
        BY <1>2, <4>1, <4>2
    <3> QED
      BY <1>5, <3>1, <3>2, <3>3
  <2> QED
    BY <2>1, <2>2
<1> QED
  BY <1>6, <1>7

\* The next deal comes, or none.
LEMMA NextDealKeepsTable ==
  ASSUME HoldemAssumption, TableInv, NextDeal
  PROVE  TableInv'
<1>1. /\ table = "round" /\ table' \in {"deal", "done"}
      /\ deal' = deal \/ (deal # Deals /\ deal' = deal + 1)
      /\ UNCHANGED <<raising, shown, account, top, least, most, lost, prompt>>
  BY DEF NextDeal
<1>2. deal' \in 1 .. Deals
  <2>1. deal \in 1 .. Deals /\ Deals \in Nat
    BY DEF TableInv, TableShape, HoldemAssumption
  <2> QED
    BY <1>1, <2>1
<1>3. TableShape'
  BY <1>1, <1>2 DEF TableInv, TableShape, Phases
<1>4. StakesInv'
  BY <1>1 DEF TableInv, StakesInv, Playing
<1>5. ChipsInv'
  BY <1>1 DEF TableInv, ChipsInv
<1> QED
  BY <1>3, <1>4, <1>5 DEF TableInv


\* Everybody bets the base bet, or all he has: nobody is behind, and somebody has more
\* unless the cards are opened at once.
LEMMA BeginDealKeepsTable ==
  ASSUME HoldemAssumption, TableInv, BeginDeal
  PROVE  TableInv'
<1> DEFINE a == [p \in Gamblers |-> Consumed(account[p], Min({Base, account[p].remain}))]
<1>1. /\ table = "deal" /\ top' = Base /\ least' = Base /\ most' = 0
      /\ shown' = 0 /\ raising' = FALSE /\ deal' = deal
  BY DEF BeginDeal
<1>2. \/ Opens(a, 0) /\ OpenCards(a)
      \/ ~Opens(a, 0) /\ account' = a /\ table' = "begin" /\ UNCHANGED <<lost, prompt>>
  BY DEF BeginDeal
<1>3. /\ account \in Accounts /\ prompt \in M!Masker /\ deal \in 1 .. Deals /\ lost \in Nat
      /\ ChipsInv
  BY DEF TableInv, TableShape
<1>4. Base \in Nat \ {0}
  <2>1. deal \in Nat \ {0}
    BY <1>3 DEF HoldemAssumption
  <2> QED
    BY <2>1, BaseIsThere
<1>5. \A p \in Gamblers : account[p] \in Account /\ account[p].remain \in Nat /\ account[p].bet = 0
  BY <1>1, <1>3 DEF TableInv, StakesInv, Playing, Accounts, Account
<1>6. ASSUME NEW p \in Gamblers
      PROVE  /\ a[p] \in Account /\ a[p].remain + a[p].bet = account[p].remain + account[p].bet
             /\ a[p].bet <= Base
             /\ a[p].remain = 0 \/ a[p].bet = Base
             /\ a[p].fold = account[p].fold
  <2> DEFINE n == Min({Base, account[p].remain})
  <2>1. Base \in Int /\ account[p].remain \in Int
    BY <1>4, <1>5
  <2>2. n = IF Base <= account[p].remain THEN Base ELSE account[p].remain
    BY <2>1, OfTwo
  <2>3. n \in 0 .. account[p].remain
    BY <1>4, <1>5, <2>2
  <2>4. a[p] = Consumed(account[p], n)
    OBVIOUS
  <2> HIDE DEF a, n
  <2>5. /\ a[p] \in Account
        /\ a[p].remain = account[p].remain - n /\ a[p].bet = account[p].bet + n
        /\ a[p].fold = account[p].fold
        /\ a[p].remain + a[p].bet = account[p].remain + account[p].bet
    BY <1>5, <2>3, <2>4, ChipsAreBet
  <2> QED
    BY <1>4, <1>5, <2>2, <2>5
<1>7. a \in Accounts
  <2>1. \A p \in Gamblers : a[p] \in Account
    BY <1>6
  <2> QED
    BY <2>1 DEF Accounts
<1>8. DOMAIN a = Gamblers
  OBVIOUS
<1> HIDE DEF a
<1>9. Worth(a) = Worth(account)
  <2>1. [p \in Gamblers |-> a[p].remain + a[p].bet] = [p \in Gamblers |-> account[p].remain + account[p].bet]
    BY <1>6
  <2> QED
    BY <2>1 DEF Worth
<1>10. CASE OpenCards(a)
  <2>1. /\ raising' \in BOOLEAN /\ shown' \in {0, 3, 4, 5}
        /\ top' \in Nat /\ least' \in Nat /\ most' \in Nat
    BY <1>1, <1>4
  <2> QED
    BY <1>1, <1>7, <1>9, <1>10, <2>1, OpeningKeepsTable
<1>11. CASE ~Opens(a, 0) /\ account' = a /\ table' = "begin" /\ UNCHANGED <<lost, prompt>>
  <2> DEFINE out == {p \in Gamblers : a[p].fold \/ a[p].remain = 0}
  <2>1. PICK p \in Gamblers : ~a[p].fold /\ a[p].remain # 0
    <3>1. out # Gamblers
      <4>1. ~(Cardinality(out) >= Cardinality(Gamblers) - 1)
        BY <1>11 DEF Opens
      <4>2. Cardinality(Gamblers) \in Nat
        BY FS_CardinalityType DEF HoldemAssumption
      <4> HIDE DEF out
      <4> QED
        BY <4>1, <4>2
    <3> QED
      BY <3>1
  <2>2. top' + most' = Base /\ top' \in Nat /\ least' \in Nat /\ most' \in Nat
    BY <1>1, <1>4
  <2>3. TableShape'
    BY <1>1, <1>3, <1>7, <1>11, <2>2 DEF TableShape, Phases
  <2>4. ~account'[p].fold /\ account'[p].bet = top' + most'
    BY <1>6, <1>11, <2>1, <2>2
  <2>5. \A q \in Gamblers : account'[q].bet <= top' + most' /\ AchievesMax(account'[q], top')
    BY <1>1, <1>6, <1>11, <2>2 DEF AchievesMax
  <2>6. StakesInv'
    BY <1>1, <1>11, <2>4, <2>5 DEF StakesInv, Playing
  <2>7. ChipsInv'
    BY <1>3, <1>6, <1>7, <1>11, ChipsAreMoved
  <2> QED
    BY <2>3, <2>6, <2>7 DEF TableInv
<1> QED
  BY <1>2, <1>10, <1>11

-----------------------------------------------------------------------------
(* What holds at every table.                                               *)

\* Every step keeps it, unless a raise overflows.
LEMMA StepKeepsTable ==
  ASSUME HoldemAssumption, TableInv, [HoldemNext]_holdemVars, table' # "spoilt"
  PROVE  TableInv'
<1>1. CASE BeginDeal
  BY <1>1, BeginDealKeepsTable
<1>2. CASE BeginStage
  BY <1>2, BeginStageKeepsTable
<1>3. CASE CloseStage
  BY <1>3, CloseStageKeepsTable
<1>4. CASE NextStage
  BY <1>4, NextStageKeepsTable
<1>5. CASE NextDeal
  BY <1>5, NextDealKeepsTable
<1>6. ASSUME NEW p \in Gamblers, NEW n \in 1 .. IntMax,
             Raise(p, n) \/ RaiseOverflows(p, n) \/ Bet(p, n)
      PROVE  TableInv'
  <2>1. n \in Nat \ {0}
    BY DEF HoldemAssumption
  <2>2. ~RaiseOverflows(p, n)
    BY DEF RaiseOverflows
  <2> QED
    BY <1>6, <2>1, <2>2, RaiseKeepsTable, BetKeepsTable
<1>7. ASSUME NEW p \in Gamblers,
             AllIn(p) \/ Call(p) \/ Fold(p) \/ Check(p) \/ GamblerLeaves(p)
      PROVE  TableInv'
  BY <1>7, AllInKeepsTable, CallKeepsTable, FoldKeepsTable, CheckKeepsTable, LeaveKeepsTable
<1>8. CASE UNCHANGED holdemVars
  BY <1>8 DEF holdemVars, TableInv, TableShape, StakesInv, ChipsInv, Playing, Missing, Worth
<1> QED
  BY <1>1, <1>2, <1>3, <1>4, <1>5, <1>6, <1>7, <1>8 DEF HoldemNext, HoldemInternal

\* Nobody has more than all chips there are.
LEMMA NobodyHasMore ==
  ASSUME HoldemAssumption, TableShape, ChipsInv, NEW p \in Gamblers
  PROVE  /\ account[p].remain \in 0 .. Chips * Cardinality(Gamblers)
         /\ account[p].bet \in 0 .. Chips * Cardinality(Gamblers)
<1> DEFINE f == [q \in Gamblers |-> account[q].remain + account[q].bet]
           rest == Gamblers \ {p}
           all == Chips * Cardinality(Gamblers)
<1>1. account \in Accounts /\ account[p].remain \in Nat /\ account[p].bet \in Nat /\ lost \in Nat
  BY DEF TableShape, Accounts, Account
<1>2. f \in [Gamblers -> Nat] /\ f[p] = account[p].remain + account[p].bet
  BY <1>1 DEF Accounts, Account
<1>3. IsFiniteSet(Gamblers) /\ rest \in SUBSET Gamblers /\ rest \cup {p} = Gamblers
  BY DEF HoldemAssumption
<1>4. Worth(account) = SumTo(f, Gamblers)
  BY DEF Worth
<1> HIDE DEF f, rest
<1>5. SumTo(f, rest) \in Nat
  BY <1>2, <1>3, SumIsNatural
<1>6. SumTo(f, Gamblers) = f[p] + SumTo(f, rest)
  <2>1. DOMAIN f = Gamblers /\ \A x \in Gamblers : f[x] \in Int
    BY <1>2
  <2>2. p \in Gamblers \ rest
    BY DEF rest
  <2>3. SumTo(f, rest \cup {p}) = f[p] + SumTo(f, rest)
    BY <1>3, <2>1, <2>2, SumGrows
  <2> QED
    BY <1>3, <2>3
<1>7. Worth(account) <= all
  <2>1. PICK i \in Nat : i = all
    <3>1. Chips \in Nat /\ Cardinality(Gamblers) \in Nat
      BY FS_CardinalityType DEF HoldemAssumption
    <3> QED
      BY <3>1, Product
  <2>2. Worth(account) \in Nat
    BY <1>1, WorthIsANumber
  <2>3. i - Worth(account) \in 0 .. lost
    BY <2>1 DEF ChipsInv, Missing
  <2> QED
    BY <1>1, <2>1, <2>2, <2>3
<1> HIDE DEF all
<1>8. all \in Int
  BY FS_CardinalityType, Product DEF HoldemAssumption, all
<1>9. account[p].remain + account[p].bet <= all
  BY <1>1, <1>2, <1>4, <1>5, <1>6, <1>7, <1>8
<1> QED
  BY <1>1, <1>8, <1>9 DEF all

\* What has been raised in a deal is within reach of an int32_t.
Raised == top + most <= IntMax /\ least <= IntMax

\* Every step keeps that too: the highest bet is one that somebody has made.
LEMMA StepKeepsRaised ==
  ASSUME HoldemAssumption, TableInv, TableInv', Raised, [HoldemNext]_holdemVars
  PROVE  Raised'
<1>1. /\ top \in Nat /\ most \in Nat /\ least \in Nat /\ IntMax \in Nat
      /\ top' \in Nat /\ most' \in Nat /\ least' \in Nat
  BY DEF TableInv, TableShape, HoldemAssumption
<1>2. CASE UNCHANGED <<top, least, most>>
  BY <1>2 DEF Raised
<1>3. CASE least' = least /\ table' \in Playing
  <2>1. PICK p \in Gamblers : account'[p].bet = top' + most'
    BY <1>3 DEF TableInv, StakesInv
  <2>2. account'[p].bet \in 0 .. Chips * Cardinality(Gamblers)
    <3>1. (TableShape /\ ChipsInv => account[p].bet \in 0 .. Chips * Cardinality(Gamblers))'
      BY NobodyHasMore, PTL
    <3> QED
      BY <3>1 DEF TableInv
  <2>3. Chips * Cardinality(Gamblers) <= IntMax
    <3>1. Len(BaseBets) \in Nat \ {0} /\ 1 \in DOMAIN BaseBets /\ BaseBets[1] \in Nat
      BY DEF HoldemAssumption
    <3>2. PICK i \in Int : i = Chips * Cardinality(Gamblers)
      BY FS_CardinalityType, Product DEF HoldemAssumption
    <3>3. BaseBets[1] + i <= IntMax
      BY <3>1, <3>2 DEF HoldemAssumption
    <3> QED
      BY <1>1, <3>1, <3>2, <3>3
  <2>4. PICK i \in Int : i = Chips * Cardinality(Gamblers)
    BY FS_CardinalityType, Product DEF HoldemAssumption
  <2>5. top' + most' <= IntMax
    <3>1. PICK b : b = account'[p].bet
      OBVIOUS
    <3>2. b \in 0 .. i /\ i <= IntMax
      BY <2>2, <2>3, <2>4, <3>1
    <3>3. b = top' + most'
      BY <2>1, <3>1
    <3>4. b <= IntMax
      BY <1>1, <3>2
    <3> QED
      BY <3>3, <3>4
  <2> QED
    BY <1>3, <2>5 DEF Raised
<1>4. CASE BeginDeal
  <2>1. top' = Base /\ least' = Base /\ most' = 0
    BY <1>4 DEF BeginDeal
  <2>2. Base \in Nat /\ Base <= IntMax
    <3>1. deal \in Nat \ {0}
      BY DEF TableInv, TableShape, HoldemAssumption
    <3>2. Base \in Nat \ {0}
      BY <3>1, BaseIsThere
    <3>3. \E i \in DOMAIN BaseBets : Base = BaseBets[i]
      <4> DEFINE at == (deal - 1) \div BaseEvery + 1
      <4>1. at \in Nat \ {0}
        BY <3>1 DEF HoldemAssumption
      <4>2. Len(BaseBets) \in Nat \ {0} /\ DOMAIN BaseBets = 1 .. Len(BaseBets)
        BY DEF HoldemAssumption
      <4>3. Base = IF at > Len(BaseBets) THEN BaseBets[Len(BaseBets)] ELSE BaseBets[at]
        BY DEF Base
      <4> HIDE DEF at
      <4> QED
        BY <4>1, <4>2, <4>3
    <3>4. PICK i \in Nat : i = Chips * Cardinality(Gamblers)
      BY FS_CardinalityType, Product DEF HoldemAssumption
    <3>5. Base + i <= IntMax
      BY <3>3, <3>4 DEF HoldemAssumption
    <3> QED
      BY <1>1, <3>2, <3>4, <3>5
  <2> QED
    BY <1>1, <2>1, <2>2 DEF Raised
<1>5. CASE NextStage
  <2>1. top' = top + most /\ most' = 0 /\ least' = Max({least, most})
    BY <1>5 DEF NextStage
  <2>2. least' = IF least <= most THEN most ELSE least
    <3>1. least \in Int /\ most \in Int
      BY <1>1
    <3> QED
      BY <2>1, <3>1, OfTwo
  <2> QED
    BY <1>1, <2>1, <2>2 DEF Raised
<1>6. CASE BeginStage
  BY <1>3, <1>6 DEF BeginStage, Settle, Playing
<1>7. CASE CloseStage \/ NextDeal
  BY <1>2, <1>7 DEF CloseStage, NextDeal
<1>8. ASSUME NEW p \in Gamblers, Acted(p)
      PROVE  Raised'
  BY <1>3, <1>8 DEF Acted, Settle, Playing
<1>9. ASSUME NEW p \in Gamblers, NEW n \in 1 .. IntMax,
             Raise(p, n) \/ RaiseOverflows(p, n) \/ Bet(p, n)
      PROVE  Raised'
  <2>1. CASE RaiseOverflows(p, n)
    BY <2>1 DEF RaiseOverflows, TableInv, TableShape, Phases
  <2> QED
    BY <1>8, <1>9, <2>1 DEF Raise, Bet
<1>10. ASSUME NEW p \in Gamblers,
              AllIn(p) \/ Call(p) \/ Fold(p) \/ Check(p) \/ GamblerLeaves(p)
       PROVE  Raised'
  <2>1. CASE GamblerLeaves(p)
    BY <1>2, <2>1 DEF GamblerLeaves
  <2> QED
    BY <1>8, <1>10, <2>1 DEF AllIn, Call, Fold, Check
<1>11. CASE UNCHANGED holdemVars
  BY <1>2, <1>11 DEF holdemVars
<1> QED
  BY <1>4, <1>5, <1>6, <1>7, <1>9, <1>10, <1>11 DEF HoldemNext, HoldemInternal

\* What is left of the types when a raise has overflowed.
Spoilt ==
    /\ table = "spoilt" /\ raising \in BOOLEAN
    /\ deal \in 1 .. Deals /\ shown \in {0, 3, 4, 5}
    /\ \A p \in Gamblers : account[p].remain \in Int /\ account[p].bet \in Int
    /\ top \in Nat /\ least \in Nat /\ most \in Nat
    /\ prompt \in M!Masker

\* A raise that overflows; and nothing follows it.
LEMMA OverflowSpoils ==
  ASSUME HoldemAssumption, TableInv, [HoldemNext]_holdemVars, table' = "spoilt"
  PROVE  Spoilt'
<1>1. PICK p \in Gamblers, n \in 1 .. IntMax : RaiseOverflows(p, n)
  <2>1. table # "spoilt"
    BY DEF TableInv, TableShape, Phases
  <2>2. \A p \in Gamblers : ~Acted(p)
    BY DEF Acted, Settle
  <2>3. ~HoldemInternal
    BY <2>1 DEF HoldemInternal, BeginDeal, BeginStage, CloseStage, NextStage, NextDeal, OpenCards,
                Settle
  <2>4. \A p \in Gamblers : ~GamblerLeaves(p)
    BY DEF GamblerLeaves, Settle
  <2>5. \A p \in Gamblers : ~(AllIn(p) \/ Call(p) \/ Fold(p) \/ Check(p))
    BY <2>2 DEF AllIn, Call, Fold, Check
  <2>6. \A p \in Gamblers, n \in 1 .. IntMax : ~(Raise(p, n) \/ Bet(p, n))
    BY <2>2 DEF Raise, Bet
  <2>7. ~UNCHANGED holdemVars
    BY <2>1 DEF holdemVars
  <2> QED
    BY <2>3, <2>4, <2>5, <2>6, <2>7 DEF HoldemNext
<1>2. /\ account \in Accounts /\ top \in Nat /\ most \in Nat /\ least \in Nat
      /\ n \in Int /\ IntMax \in Nat
      /\ \A q \in Gamblers : account[q] \in Account /\ account[q].remain \in Int /\ account[q].bet \in Int
  BY DEF TableInv, TableShape, HoldemAssumption, Accounts, Account
<1>3. \A i \in Int : Int32(i) \in Int
  BY <1>2 DEF Int32
<1> DEFINE d == Int32(Offset(p, n))
           c == Consumed(account[p], d)
           e == [c EXCEPT !.remain = Int32(@), !.bet = Int32(@)]
<1>4. d \in Int
  BY <1>2, <1>3 DEF Offset
<1>5. account' = [account EXCEPT ![p] = e]
  BY <1>1 DEF RaiseOverflows
<1> HIDE DEF d
<1>6. c \in [remain : Int, bet : Int, fold : BOOLEAN]
  <2>1. PICK a \in Account : a = account[p] /\ a.remain \in Int /\ a.bet \in Int
    BY <1>2
  <2>2. PICK i \in Int, j \in Int : i = a.remain - d /\ j = a.bet + d
    BY <1>4, <2>1
  <2>3. Consumed(a, d) = [[a EXCEPT !.bet = j] EXCEPT !.remain = i]
    BY <2>2, Zenon DEF Consumed
  <2>4. Consumed(a, d) \in [remain : Int, bet : Int, fold : BOOLEAN]
    BY <2>1, <2>2, <2>3 DEF Account
  <2> QED
    BY <2>1, <2>4
<1> HIDE DEF c
<1>7. e.remain \in Int /\ e.bet \in Int
  BY <1>3, <1>6
<1> HIDE DEF e
<1>8. \A q \in Gamblers : account'[q].remain \in Int /\ account'[q].bet \in Int
  BY <1>2, <1>5, <1>7 DEF Accounts
<1>9. most' \in Nat
  <2>1. most' = Max({most, n}) /\ most \in Int /\ n \in Int
    BY <1>1, <1>2 DEF RaiseOverflows
  <2>2. most' = IF most <= n THEN n ELSE most
    BY <2>1, OfTwo
  <2>3. n \in Nat
    BY <1>2
  <2> QED
    BY <1>2, <2>2, <2>3
<1>10. UNCHANGED <<raising, deal, shown, top, least, lost, prompt>>
  BY <1>1 DEF RaiseOverflows
<1> QED
  BY <1>8, <1>9, <1>10 DEF Spoilt, TableInv, TableShape

LEMMA SpoiltStays ==
  ASSUME Spoilt, [HoldemNext]_holdemVars
  PROVE  Spoilt'
<1>1. \A p \in Gamblers : ~MayAct(p)
  BY DEF Spoilt, MayAct
<1>2. UNCHANGED holdemVars
  BY <1>1 DEF Spoilt, HoldemNext, HoldemInternal, BeginDeal, BeginStage, CloseStage, NextStage,
              NextDeal, AllIn, Raise, RaiseOverflows, Call, Fold, Bet, Check, GamblerLeaves
<1> QED
  BY <1>2 DEF Spoilt, holdemVars

\* Every step.
Kept == IF table = "spoilt" THEN Spoilt ELSE TableInv /\ Raised

LEMMA TableIsKept ==
  ASSUME HoldemAssumption
  PROVE  HoldemSpec => []Kept
<1>1. HoldemInit => Kept
  <2> SUFFICES ASSUME HoldemInit
               PROVE  Kept
    OBVIOUS
  <2>1. TableInv /\ table # "spoilt"
    BY InitTable DEF HoldemInit
  <2>2. Raised
    BY DEF HoldemInit, Raised, HoldemAssumption
  <2> QED
    BY <2>1, <2>2 DEF Kept
<1>2. Kept /\ [HoldemNext]_holdemVars => Kept'
  <2> SUFFICES ASSUME Kept, [HoldemNext]_holdemVars
               PROVE  Kept'
    OBVIOUS
  <2>1. CASE table = "spoilt"
    <3>1. Spoilt'
      BY <2>1, SpoiltStays DEF Kept
    <3> QED
      BY <3>1 DEF Kept, Spoilt
  <2>2. CASE table # "spoilt" /\ table' = "spoilt"
    BY <2>2, OverflowSpoils DEF Kept
  <2>3. CASE table # "spoilt" /\ table' # "spoilt"
    <3>1. TableInv /\ Raised
      BY <2>3 DEF Kept
    <3>2. TableInv'
      BY <2>3, <3>1, StepKeepsTable
    <3>3. Raised'
      BY <3>1, <3>2, StepKeepsRaised
    <3> QED
      BY <2>3, <3>2, <3>3 DEF Kept
  <2> QED
    BY <2>1, <2>2, <2>3
<1> QED
  BY <1>1, <1>2, PTL DEF HoldemSpec

\* The variables have their types, for every number of players and every options.
THEOREM TableTypes ==
  ASSUME HoldemAssumption
  PROVE  HoldemSpec => []HoldemTypeOK
<1>1. Kept => HoldemTypeOK
  BY DEF Kept, Spoilt, TableInv, TableShape, Phases, Accounts, Account, HoldemTypeOK
<1> QED
  BY <1>1, TableIsKept, PTL

\* The raise that overflows is the first sum that does: until then every number of chips
\* is in the range of an int32_t, in whatever rounds the players have bet, won and lost.
THEOREM ChipsStayInRange ==
  ASSUME HoldemAssumption
  PROVE  HoldemSpec => []ChipsFit
<1>1. ASSUME Kept
      PROVE  ChipsFit
  <2> SUFFICES ASSUME table # "spoilt"
               PROVE  /\ \A p \in Gamblers : account[p].remain \in 0 .. IntMax
                                             /\ account[p].bet \in 0 .. IntMax
                      /\ top + most <= IntMax /\ least <= IntMax
    BY DEF ChipsFit
  <2>1. TableInv /\ Raised
    BY <1>1 DEF Kept
  <2>2. PICK i \in Int : i = Chips * Cardinality(Gamblers)
    BY FS_CardinalityType, Product DEF HoldemAssumption
  <2>3. i <= IntMax
    <3>1. Len(BaseBets) \in Nat \ {0} /\ 1 \in DOMAIN BaseBets /\ BaseBets[1] \in Nat
      BY DEF HoldemAssumption
    <3>2. BaseBets[1] + i <= IntMax /\ IntMax \in Nat
      BY <2>2, <3>1 DEF HoldemAssumption
    <3> QED
      BY <3>1, <3>2
  <2>4. \A p \in Gamblers : account[p].remain \in 0 .. i /\ account[p].bet \in 0 .. i
    BY <2>1, <2>2, NobodyHasMore DEF TableInv
  <2>5. IntMax \in Nat
    BY DEF HoldemAssumption
  <2> QED
    BY <2>1, <2>3, <2>4, <2>5 DEF Raised
<1> QED
  BY <1>1, TableIsKept, PTL

\* Until a raise overflows no chip is made when the pots are divided (CallBetPool), and
\* none vanishes but the remainders announced as lost, whatever cards are opened and
\* whoever has won how often.
THEOREM ChipsArePaid ==
  ASSUME HoldemAssumption
  PROVE  HoldemSpec => []ChipsArePaidOut
<1>1. ASSUME Kept
      PROVE  ChipsArePaidOut
  <2> DEFINE f == [p \in Gamblers |-> account[p].remain + account[p].bet]
             missing == Chips * Cardinality(Gamblers) - Total(f)
  <2>1. Total(f) = Worth(account)
    <3>1. Total(f) = SumTo(f, DOMAIN f)
      BY TotalIsSum
    <3>2. DOMAIN f = Gamblers
      OBVIOUS
    <3> QED
      BY <3>1, <3>2 DEF Worth
  <2>2. table # "spoilt" => missing >= 0 /\ missing <= lost /\ (lost > 0 => missing > 0)
    <3> HAVE table # "spoilt"
    <3>1. missing = Missing(account) /\ lost \in Nat
      BY <1>1, <2>1 DEF Kept, Missing, TableInv, TableShape
    <3> HIDE DEF f, missing
    <3>2. missing \in 0 .. lost /\ (lost > 0 => missing > 0)
      BY <1>1, <3>1 DEF Kept, TableInv, ChipsInv
    <3> QED
      BY <3>1, <3>2
  <2> QED
    BY <2>2 DEF ChipsArePaidOut
<1> QED
  BY <1>1, TableIsKept, PTL

\* Somebody is in with the highest bet whenever there is a stage, nobody is behind when a
\* stage of betting begins, and only who is behind has to follow or fold.
THEOREM StakesStayLevel ==
  ASSUME HoldemAssumption
  PROVE  HoldemSpec => []StakesAreLevel
<1>1. Kept => StakesAreLevel
  BY DEF Kept, Spoilt, TableInv, StakesInv, StakesAreLevel, Playing
<1> QED
  BY <1>1, TableIsKept, PTL

-----------------------------------------------------------------------------
(* Love letter: sequences of cards.                                         *)

\* Sequences of cards in which no card occurs twice.
Stacks == {s \in Seq(LetterCards) : IsInjective(s)}

\* What is in a stack.
LEMMA StackShape ==
  ASSUME NEW s \in Stacks
  PROVE  /\ s \in Seq(LetterCards) /\ Len(s) \in Nat /\ DOMAIN s = 1 .. Len(s)
         /\ \A i \in 1 .. Len(s) : s[i] \in LetterCards /\ s[i] \in ToSet(s)
         /\ \A i, j \in 1 .. Len(s) : s[i] = s[j] => i = j
         /\ \A c \in ToSet(s) : \E i \in 1 .. Len(s) : s[i] = c
         /\ ToSet(s) \subseteq LetterCards
BY DEF Stacks, IsInjective, ToSet

\* A sequence without its element i.
LEMMA Removed ==
  ASSUME NEW s \in Seq(LetterCards), NEW i \in 1 .. Len(s)
  PROVE  /\ RemoveAt(s, i) \in Seq(LetterCards)
         /\ Len(RemoveAt(s, i)) = Len(s) - 1
         /\ \A j \in 1 .. Len(s) - 1 : RemoveAt(s, i)[j] = IF j < i THEN s[j] ELSE s[j + 1]
<1> DEFINE n == Len(s)
           a == SubSeq(s, 1, i - 1)
           b == SubSeq(s, i + 1, n)
<1>0. n \in Nat /\ i \in 1 .. n
  OBVIOUS
<1>1. /\ a \in Seq(LetterCards) /\ Len(a) = i - 1
      /\ \A j \in 1 .. i - 1 : a[j] = s[j]
  OBVIOUS
<1>2. /\ b \in Seq(LetterCards) /\ Len(b) = n - i
      /\ \A j \in 1 .. n - i : b[j] = s[i + j]
  OBVIOUS
<1>6. RemoveAt(s, i) = a \o b
  BY DEF RemoveAt
<1> HIDE DEF a, b, n
<1>5. Len(a) + Len(b) = n - 1
  BY <1>0, <1>1, <1>2
<1>3. /\ a \o b \in Seq(LetterCards) /\ Len(a \o b) = n - 1
      /\ \A j \in 1 .. n - 1 : (a \o b)[j] = IF j < i THEN a[j] ELSE b[j - (i - 1)]
  <2>1. /\ a \o b \in Seq(LetterCards) /\ Len(a \o b) = Len(a) + Len(b)
        /\ \A j \in 1 .. Len(a) + Len(b) : (a \o b)[j] = IF j <= Len(a) THEN a[j] ELSE b[j - Len(a)]
    BY <1>1, <1>2, ConcatProperties
  <2>2. /\ Len(a \o b) = n - 1
        /\ \A j \in 1 .. n - 1 : (a \o b)[j] = IF j <= i - 1 THEN a[j] ELSE b[j - (i - 1)]
    BY <1>1, <1>5, <2>1
  <2>3. \A j \in 1 .. n - 1 : (j <= i - 1) = (j < i)
    BY <1>0
  <2> QED
    BY <2>1, <2>2, <2>3
<1>4. \A j \in 1 .. n - 1 : (a \o b)[j] = IF j < i THEN s[j] ELSE s[j + 1]
  <2> SUFFICES ASSUME NEW j \in 1 .. n - 1
               PROVE  (a \o b)[j] = IF j < i THEN s[j] ELSE s[j + 1]
    OBVIOUS
  <2>1. CASE j < i
    BY <2>1, <1>0, <1>1, <1>3
  <2>2. CASE ~(j < i)
    <3>1. j - (i - 1) \in 1 .. n - i /\ i + (j - (i - 1)) = j + 1
      BY <1>0, <2>2
    <3> QED
      BY <2>2, <3>1, <1>2, <1>3
  <2> QED
    BY <2>1, <2>2
<1> QED
  BY <1>3, <1>4, <1>6 DEF n

\* A stack without its element i is a stack, and that card is no longer in it.
LEMMA StackRemoved ==
  ASSUME NEW s \in Stacks, NEW i \in 1 .. Len(s)
  PROVE  /\ RemoveAt(s, i) \in Stacks
         /\ Len(RemoveAt(s, i)) = Len(s) - 1
         /\ ToSet(RemoveAt(s, i)) = ToSet(s) \ {s[i]}
<1> DEFINE t == RemoveAt(s, i)
           at(j) == IF j < i THEN j ELSE j + 1
<1>1. t \in Seq(LetterCards) /\ Len(t) = Len(s) - 1 /\ DOMAIN t = 1 .. Len(s) - 1
  BY Removed DEF Stacks
<1>2. \A j \in 1 .. Len(s) - 1 : t[j] = s[at(j)] /\ at(j) \in 1 .. Len(s) /\ at(j) # i
  BY Removed, StackShape
<1>3. \A j, k \in 1 .. Len(s) - 1 : at(j) = at(k) => j = k
  BY StackShape
<1>4. \A k \in 1 .. Len(s) : k # i => \E j \in 1 .. Len(s) - 1 : at(j) = k
  <2> SUFFICES ASSUME NEW k \in 1 .. Len(s), k # i
               PROVE  \E j \in 1 .. Len(s) - 1 : at(j) = k
    OBVIOUS
  <2>1. CASE k < i
    <3>1. k \in 1 .. Len(s) - 1 /\ at(k) = k
      BY <2>1
    <3> QED
      BY <3>1
  <2>2. CASE k > i
    <3>1. k - 1 \in 1 .. Len(s) - 1 /\ at(k - 1) = k
      BY <2>2
    <3> QED
      BY <3>1
  <2> QED
    BY <2>1, <2>2
<1> HIDE DEF at, t
<1>5. ASSUME NEW j \in 1 .. Len(s) - 1, NEW k \in 1 .. Len(s) - 1, t[j] = t[k]
      PROVE  j = k
  <2>1. s[at(j)] = s[at(k)] /\ at(j) \in 1 .. Len(s) /\ at(k) \in 1 .. Len(s)
    BY <1>2, <1>5
  <2>2. at(j) = at(k)
    BY <2>1, StackShape
  <2> QED
    BY <1>3, <2>2
<1>6. t \in Stacks
  BY <1>1, <1>5 DEF Stacks, IsInjective
<1>7. ToSet(t) \subseteq ToSet(s) \ {s[i]}
  <2>1. \A j \in 1 .. Len(s) - 1 : s[at(j)] \in ToSet(s) /\ s[at(j)] # s[i]
    BY <1>2, StackShape
  <2>2. \A j \in 1 .. Len(s) - 1 : t[j] \in ToSet(s) \ {s[i]}
    BY <1>2, <2>1
  <2> QED
    BY <1>1, <2>2 DEF ToSet
<1>8. ToSet(s) \ {s[i]} \subseteq ToSet(t)
  <2> SUFFICES ASSUME NEW k \in 1 .. Len(s), s[k] # s[i]
               PROVE  s[k] \in ToSet(t)
    BY StackShape
  <2>1. PICK j \in 1 .. Len(s) - 1 : at(j) = k
    BY <1>4
  <2> QED
    BY <1>1, <1>2, <2>1 DEF ToSet
<1> QED
  BY <1>1, <1>6, <1>7, <1>8 DEF t

\* A card that is not in a stack may be laid on it.
LEMMA StackAppended ==
  ASSUME NEW s \in Stacks, NEW c \in LetterCards, c \notin ToSet(s)
  PROVE  /\ Append(s, c) \in Stacks /\ Len(Append(s, c)) = Len(s) + 1
         /\ ToSet(Append(s, c)) = ToSet(s) \cup {c}
<1> DEFINE t == Append(s, c)
<1>1. /\ t \in Seq(LetterCards) /\ Len(t) = Len(s) + 1 /\ DOMAIN t = 1 .. Len(s) + 1
      /\ \A i \in 1 .. Len(s) : t[i] = s[i]
      /\ t[Len(s) + 1] = c
  BY DEF Stacks
<1> HIDE DEF t
<1>2. \A i, j \in 1 .. Len(s) + 1 : t[i] = t[j] => i = j
  BY <1>1, StackShape
<1>3. ToSet(t) = ToSet(s) \cup {c}
  <2>1. \A i \in 1 .. Len(s) + 1 : t[i] \in ToSet(s) \cup {c}
    BY <1>1, StackShape
  <2>2. \A x \in ToSet(s) \cup {c} : \E i \in 1 .. Len(s) + 1 : t[i] = x
    <3>1. \A i \in 1 .. Len(s) : i \in 1 .. Len(s) + 1
      BY StackShape
    <3>2. Len(s) + 1 \in 1 .. Len(s) + 1
      BY StackShape
    <3> QED
      BY <1>1, <3>1, <3>2, StackShape
  <2> QED
    BY <1>1, <2>1, <2>2 DEF ToSet
<1> QED
  BY <1>1, <1>2, <1>3 DEF t, Stacks, IsInjective

\* A stack without its last card is a stack, and that card is no longer in it.
LEMMA StackFront ==
  ASSUME NEW s \in Stacks, s # <<>>
  PROVE  /\ Front(s) \in Stacks /\ Len(Front(s)) = Len(s) - 1
         /\ Last(s) \in ToSet(s) /\ Len(s) \in Nat \ {0}
         /\ ToSet(Front(s)) = ToSet(s) \ {Last(s)}
<1> DEFINE t == Front(s)
<1>0. Len(s) \in Nat \ {0} /\ s \in Seq(LetterCards)
  BY DEF Stacks
<1>1. /\ t \in Seq(LetterCards) /\ Len(t) = Len(s) - 1 /\ DOMAIN t = 1 .. Len(s) - 1
      /\ \A i \in 1 .. Len(s) - 1 : t[i] = s[i]
  <2>0. 1 \in Int /\ Len(s) - 1 \in Int /\ \A i \in 1 .. Len(s) - 1 : s[i] \in LetterCards
    BY <1>0
  <2> DEFINE n == Len(s) - 1
  <2> HIDE DEF n
  <2>1. /\ SubSeq(s, 1, n) \in Seq(LetterCards)
        /\ Len(SubSeq(s, 1, n)) = IF 1 <= n THEN n - 1 + 1 ELSE 0
        /\ \A i \in 1 .. n - 1 + 1 : SubSeq(s, 1, n)[i] = s[1 + i - 1]
    BY <2>0, SubSeqProperties DEF n
  <2>2. n \in Nat /\ t = SubSeq(s, 1, n)
    BY <1>0 DEF n, Front
  <2> HIDE DEF t
  <2>3. Len(t) = IF 1 <= n THEN n - 1 + 1 ELSE 0
    BY <2>1, <2>2
  <2>4. \A i \in 1 .. n - 1 + 1 : t[i] = s[1 + i - 1]
    BY <2>1, <2>2
  <2>5. Len(t) = n
    BY <2>2, <2>3
  <2>6. \A i \in 1 .. n : t[i] = s[i]
    BY <2>2, <2>4
  <2>7. t \in Seq(LetterCards)
    BY <2>1, <2>2
  <2> QED
    BY <2>5, <2>6, <2>7 DEF n
<1> HIDE DEF t
<1>2. \A i, j \in 1 .. Len(s) - 1 : t[i] = t[j] => i = j
  <2>1. \A i \in 1 .. Len(s) - 1 : i \in 1 .. Len(s)
    BY <1>0
  <2> QED
    BY <1>1, <2>1, StackShape
<1>3. ToSet(t) = ToSet(s) \ {s[Len(s)]}
  <2>1. \A i \in 1 .. Len(s) - 1 : t[i] \in ToSet(s) \ {s[Len(s)]}
    BY <1>0, <1>1, StackShape
  <2>2. ASSUME NEW x \in ToSet(s), x # s[Len(s)]
        PROVE  \E i \in 1 .. Len(s) - 1 : t[i] = x
    <3>1. PICK i \in 1 .. Len(s) : s[i] = x
      BY StackShape
    <3>2. i \in 1 .. Len(s) - 1
      BY <2>2, <3>1, <1>0
    <3> QED
      BY <1>1, <3>1, <3>2
  <2> QED
    BY <1>1, <2>1, <2>2 DEF ToSet
<1>4. s[Len(s)] \in ToSet(s)
  BY <1>0, StackShape
<1> QED
  BY <1>0, <1>1, <1>2, <1>3, <1>4 DEF t, Stacks, IsInjective, Last

\* Two stacks that share no card make a stack.
LEMMA StackJoined ==
  ASSUME NEW s \in Stacks, NEW t \in Stacks, ToSet(s) \cap ToSet(t) = {}
  PROVE  /\ s \o t \in Stacks
         /\ ToSet(s \o t) = ToSet(s) \cup ToSet(t)
<1> DEFINE u == s \o t
<1>1. /\ u \in Seq(LetterCards) /\ Len(u) = Len(s) + Len(t) /\ DOMAIN u = 1 .. Len(s) + Len(t)
      /\ \A i \in 1 .. Len(s) : u[i] = s[i] /\ i \in 1 .. Len(u)
      /\ \A i \in 1 .. Len(t) : u[Len(s) + i] = t[i] /\ Len(s) + i \in 1 .. Len(u)
      /\ \A i \in 1 .. Len(u) : i \in 1 .. Len(s) \/ \E j \in 1 .. Len(t) : i = Len(s) + j
  <2>1. Len(s) \in Nat /\ Len(t) \in Nat
    BY StackShape
  <2>2. \A i \in 1 .. Len(s) + Len(t) : i \in 1 .. Len(s) \/ (i - Len(s) \in 1 .. Len(t) /\ i = Len(s) + (i - Len(s)))
    BY <2>1
  <2>3. s \in Seq(LetterCards) /\ t \in Seq(LetterCards)
    BY DEF Stacks
  <2>4. /\ u \in Seq(LetterCards) /\ Len(u) = Len(s) + Len(t)
        /\ \A i \in 1 .. Len(s) + Len(t) : u[i] = IF i <= Len(s) THEN s[i] ELSE t[i - Len(s)]
    BY <2>3, ConcatProperties
  <2> HIDE DEF u
  <2>5. \A i \in 1 .. Len(s) : u[i] = s[i] /\ i \in 1 .. Len(u)
    BY <2>1, <2>4
  <2>6. ASSUME NEW i \in 1 .. Len(t)
        PROVE  u[Len(s) + i] = t[i] /\ Len(s) + i \in 1 .. Len(u)
    <3>1. Len(s) + i \in 1 .. Len(s) + Len(t) /\ ~(Len(s) + i <= Len(s)) /\ (Len(s) + i) - Len(s) = i
      BY <2>1
    <3> QED
      BY <2>4, <3>1
  <2>7. \A i \in 1 .. Len(u) : i \in 1 .. Len(s) \/ \E j \in 1 .. Len(t) : i = Len(s) + j
    BY <2>2, <2>4
  <2>8. DOMAIN u = 1 .. Len(s) + Len(t)
    BY <2>4
  <2> QED
    BY <2>4, <2>5, <2>6, <2>7, <2>8
<1> HIDE DEF u
<1>6. \A i \in 1 .. Len(s) : u[i] \in ToSet(s)
  BY <1>1, StackShape
<1>7. \A i \in 1 .. Len(t) : u[Len(s) + i] \in ToSet(t)
  BY <1>1, StackShape
<1>2. ASSUME NEW i \in 1 .. Len(u), NEW j \in 1 .. Len(u), u[i] = u[j]
      PROVE  i = j
  <2>1. CASE i \in 1 .. Len(s) /\ j \in 1 .. Len(s)
    <3>1. s[i] = s[j]
      BY <1>1, <1>2, <2>1
    <3> QED
      BY <2>1, <3>1, StackShape
  <2>2. CASE i \notin 1 .. Len(s) /\ j \notin 1 .. Len(s)
    <3>1. PICK k \in 1 .. Len(t) : i = Len(s) + k
      BY <1>1, <2>2
    <3>2. PICK l \in 1 .. Len(t) : j = Len(s) + l
      BY <1>1, <2>2
    <3>3. t[k] = t[l]
      BY <1>1, <1>2, <3>1, <3>2
    <3>4. k = l
      BY <3>3, StackShape
    <3> QED
      BY <3>1, <3>2, <3>4
  <2>3. CASE i \in 1 .. Len(s) /\ j \notin 1 .. Len(s)
    BY <1>1, <1>2, <1>6, <1>7, <2>3
  <2>4. CASE i \notin 1 .. Len(s) /\ j \in 1 .. Len(s)
    BY <1>1, <1>2, <1>6, <1>7, <2>4
  <2> QED
    BY <2>1, <2>2, <2>3, <2>4
<1>3. \A i \in 1 .. Len(u) : u[i] \in ToSet(s) \cup ToSet(t)
  BY <1>1, <1>6, <1>7
<1>4. ASSUME NEW x \in ToSet(s) \cup ToSet(t)
      PROVE  \E i \in 1 .. Len(u) : u[i] = x
  <2>1. CASE x \in ToSet(s)
    <3>1. PICK i \in 1 .. Len(s) : s[i] = x
      BY <2>1, StackShape
    <3> QED
      BY <1>1, <3>1
  <2>2. CASE x \in ToSet(t)
    <3>1. PICK i \in 1 .. Len(t) : t[i] = x
      BY <2>2, StackShape
    <3> QED
      BY <1>1, <3>1
  <2> QED
    BY <2>1, <2>2
<1>8. DOMAIN u = 1 .. Len(u)
  BY <1>1
<1>5. ToSet(u) = ToSet(s) \cup ToSet(t)
  <2>1. ToSet(u) \subseteq ToSet(s) \cup ToSet(t)
    BY <1>3, <1>8 DEF ToSet
  <2>2. ToSet(s) \cup ToSet(t) \subseteq ToSet(u)
    <3> SUFFICES ASSUME NEW x \in ToSet(s) \cup ToSet(t)
                 PROVE  x \in ToSet(u)
      OBVIOUS
    <3>1. PICK i \in 1 .. Len(u) : u[i] = x
      BY <1>4
    <3> QED
      BY <1>8, <3>1 DEF ToSet
  <2> QED
    BY <2>1, <2>2
<1> QED
  BY <1>1, <1>2, <1>5 DEF u, Stacks, IsInjective

\* Nothing, and one card.
LEMMA StackSmall ==
  /\ <<>> \in Stacks /\ ToSet(<<>>) = {}
  /\ \A c \in LetterCards : <<c>> \in Stacks /\ ToSet(<<c>>) = {c} /\ Len(<<c>>) = 1
BY DEF Stacks, IsInjective, ToSet
-----------------------------------------------------------------------------
(* The piles.                                                               *)

Seat == [alive : BOOLEAN, protect : BOOLEAN, left : BOOLEAN, scores : Nat,
         hand : Seq(LetterCards), discards : Seq(LetterCards), bet : Ladies \cup {Nobody}]
Seats == [Ladies -> Seat]

\* The states of a round, as the operators of LoveLetter take and give them.
Rounds == [deck : Seq(LetterCards), burn : LetterCards, info : Seats,
           current : Ladies, first : Ladies, sycophant : Ladies \cup {Nobody},
           bishop : Ladies \cup {Nobody}, m : Mask!Masker]

OnDeck == <<"deck", Nobody>>
PutAway == <<"removed", Nobody>>
OnBurn == <<"burn", Nobody>>
InHand(p) == <<"hand", p>>
Before(p) == <<"discards", p>>

Dealt(g, away, C) == EachOnce(g, away, C) /\ NoCard \notin C /\ away \in Seq(LetterCards)

\* Where each card was in one place, it still is.
Keeps(g, h) == \A away, C : Dealt(g, away, C) => Dealt(h, away, C)

\* The piles, one by one.
LEMMA PilesAre ==
  /\ OnDeck \in Piles /\ PutAway \in Piles /\ OnBurn \in Piles
  /\ \A p \in Ladies : InHand(p) \in Piles /\ Before(p) \in Piles
  /\ \A x \in Piles : \/ x \in {OnDeck, PutAway, OnBurn}
                      \/ \E p \in Ladies : x = InHand(p) \/ x = Before(p)
BY DEF Piles, OnDeck, PutAway, OnBurn, InHand, Before

\* No two of them are the same.
LEMMA PilesDiffer ==
  /\ OnDeck # PutAway /\ OnDeck # OnBurn /\ PutAway # OnBurn
  /\ \A p : /\ InHand(p) \notin {OnDeck, PutAway, OnBurn}
            /\ Before(p) \notin {OnDeck, PutAway, OnBurn}
  /\ \A p, q : /\ InHand(p) # Before(q)
               /\ InHand(p) = InHand(q) => p = q
               /\ Before(p) = Before(q) => p = q
BY DEF OnDeck, PutAway, OnBurn, InHand, Before

\* What lies on the deck, is put away and is the burn card.
LEMMA PileOf ==
  ASSUME NEW g, NEW away
  PROVE  /\ Pile(g, away, OnDeck) = g.deck
         /\ Pile(g, away, PutAway) = away
         /\ Pile(g, away, OnBurn) = IF g.burn = NoCard THEN <<>> ELSE <<g.burn>>
BY DEF Pile, OnDeck, PutAway, OnBurn

\* What lies before a player.
LEMMA PileOfLady ==
  ASSUME NEW g, NEW away, NEW p
  PROVE  /\ Pile(g, away, InHand(p)) = g.info[p].hand
         /\ Pile(g, away, Before(p)) = g.info[p].discards
BY DEF Pile, InHand, Before

\* Where each card is in one place, every pile is a stack of some of those cards.
LEMMA PilesAreStacks ==
  ASSUME NEW g \in Rounds, NEW away, NEW C, Dealt(g, away, C)
  PROVE  \A x \in Piles : Pile(g, away, x) \in Stacks /\ ToSet(Pile(g, away, x)) \subseteq C
<1>1. ASSUME NEW x \in Piles
      PROVE  Pile(g, away, x) \in Seq(LetterCards)
  <2>1. CASE x \in {OnDeck, PutAway, OnBurn}
    <3>1. g.deck \in Seq(LetterCards) /\ away \in Seq(LetterCards) /\ g.burn \in LetterCards
      BY DEF Rounds, Dealt
    <3>2. (IF g.burn = NoCard THEN <<>> ELSE <<g.burn>>) \in Seq(LetterCards)
      BY <3>1
    <3>3. /\ Pile(g, away, OnDeck) \in Seq(LetterCards)
          /\ Pile(g, away, PutAway) \in Seq(LetterCards)
          /\ Pile(g, away, OnBurn) \in Seq(LetterCards)
      BY <3>1, <3>2, PileOf
    <3> QED
      BY <2>1, <3>3
  <2>2. ASSUME NEW p \in Ladies, x = InHand(p) \/ x = Before(p)
        PROVE  Pile(g, away, x) \in Seq(LetterCards)
    <3>1. g.info[p].hand \in Seq(LetterCards) /\ g.info[p].discards \in Seq(LetterCards)
      BY DEF Rounds, Seats, Seat
    <3>2. Pile(g, away, InHand(p)) = g.info[p].hand /\ Pile(g, away, Before(p)) = g.info[p].discards
      BY PileOfLady
    <3>3. CASE x = InHand(p)
      BY <3>1, <3>2, <3>3
    <3>4. CASE x = Before(p)
      BY <3>1, <3>2, <3>4
    <3> QED
      BY <2>2, <3>3, <3>4
  <2> QED
    BY <2>1, <2>2, PilesAre
<1> QED
  BY <1>1 DEF Dealt, EachOnce, Stacks

\* The cards of two piles may change places among them.
LEMMA Exchange ==
  ASSUME NEW g, NEW h, NEW away, NEW C, Dealt(g, away, C),
         NEW x \in Piles, NEW y \in Piles, x # y,
         \A z \in Piles \ {x, y} : Pile(h, away, z) = Pile(g, away, z),
         Pile(h, away, x) \in Stacks, Pile(h, away, y) \in Stacks,
         ToSet(Pile(h, away, x)) \cap ToSet(Pile(h, away, y)) = {},
         ToSet(Pile(h, away, x)) \cup ToSet(Pile(h, away, y))
            = ToSet(Pile(g, away, x)) \cup ToSet(Pile(g, away, y))
  PROVE  Dealt(h, away, C)
<1> DEFINE a(z) == Pile(g, away, z)
           b(z) == Pile(h, away, z)
           A(z) == ToSet(Pile(g, away, z))
           B(z) == ToSet(Pile(h, away, z))
<1>1. /\ \A z \in Piles : IsInjective(a(z))
      /\ \A u, v \in Piles : A(u) \cap A(v) # {} => u = v
      /\ UNION {A(z) : z \in Piles} = C
  BY DEF Dealt, EachOnce
<1>2. \A z \in Piles \ {x, y} : b(z) = a(z) /\ B(z) = A(z)
  OBVIOUS
<1>3. IsInjective(b(x)) /\ IsInjective(b(y))
  BY DEF Stacks
<1>4. B(x) \cap B(y) = {} /\ B(x) \cup B(y) = A(x) \cup A(y)
  OBVIOUS
<1> SUFFICES /\ \A z \in Piles : IsInjective(b(z))
             /\ \A u, v \in Piles : B(u) \cap B(v) # {} => u = v
             /\ UNION {B(z) : z \in Piles} = C
  BY DEF Dealt, EachOnce
<1> HIDE DEF a, b, A, B
<1>5. \A z \in Piles : IsInjective(b(z))
  BY <1>1, <1>2, <1>3
<1>6. ASSUME NEW u \in Piles, NEW v \in Piles, B(u) \cap B(v) # {}
      PROVE  u = v
  <2>1. PICK c : c \in B(u) /\ c \in B(v)
    BY <1>6
  <2>2. \E w \in Piles : c \in A(w) /\ (u \notin {x, y} => w = u) /\ (u \in {x, y} => w \in {x, y})
    BY <1>2, <1>4, <2>1
  <2>3. \E w \in Piles : c \in A(w) /\ (v \notin {x, y} => w = v) /\ (v \in {x, y} => w \in {x, y})
    BY <1>2, <1>4, <2>1
  <2>4. u \in {x, y} <=> v \in {x, y}
    BY <1>1, <2>2, <2>3
  <2>5. CASE u \in {x, y}
    BY <1>4, <2>1, <2>4, <2>5
  <2>6. CASE u \notin {x, y}
    BY <1>1, <2>2, <2>3, <2>4, <2>6
  <2> QED
    BY <2>5, <2>6
<1>7. UNION {B(z) : z \in Piles} \subseteq C
  <2> SUFFICES ASSUME NEW z \in Piles, NEW c \in B(z)
               PROVE  c \in C
    OBVIOUS
  <2>1. \E w \in Piles : c \in A(w)
    BY <1>2, <1>4
  <2> QED
    BY <1>1, <2>1
<1>8. C \subseteq UNION {B(z) : z \in Piles}
  <2> SUFFICES ASSUME NEW c \in C
               PROVE  \E z \in Piles : c \in B(z)
    OBVIOUS
  <2>1. PICK w \in Piles : c \in A(w)
    BY <1>1
  <2> QED
    BY <1>2, <1>4, <2>1
<1> QED
  BY <1>5, <1>6, <1>7, <1>8

\* A round after a step that touches nothing but these piles of p.
OnlyOf(g, h, p) ==
    /\ h.deck = g.deck /\ h.burn = g.burn
    /\ \A q \in Ladies \ {p} : /\ h.info[q].hand = g.info[q].hand
                               /\ h.info[q].discards = g.info[q].discards

\* The piles that are not of p are the same.
LEMMA OtherPilesStay ==
  ASSUME NEW g, NEW h, NEW away, NEW p \in Ladies, OnlyOf(g, h, p),
         NEW z \in Piles \ {InHand(p), Before(p)}
  PROVE  Pile(h, away, z) = Pile(g, away, z)
<1>1. CASE z \in {OnDeck, PutAway, OnBurn}
  BY <1>1, PileOf DEF OnlyOf
<1>2. ASSUME NEW q \in Ladies, z = InHand(q) \/ z = Before(q)
      PROVE  Pile(h, away, z) = Pile(g, away, z)
  <2>1. q # p
    BY <1>2
  <2>2. h.info[q].hand = g.info[q].hand /\ h.info[q].discards = g.info[q].discards
    BY <2>1 DEF OnlyOf
  <2>3. CASE z = InHand(q)
    BY <2>2, <2>3, PileOfLady
  <2>4. CASE z = Before(q)
    BY <2>2, <2>4, PileOfLady
  <2> QED
    BY <1>2, <2>3, <2>4
<1> QED
  BY <1>1, <1>2, PilesAre

\* A card of the hand is laid down.
LEMMA LaidDown ==
  ASSUME NEW g \in Rounds, NEW h, NEW p \in Ladies, OnlyOf(g, h, p),
         NEW i \in 1 .. Len(g.info[p].hand),
         h.info[p].hand = RemoveAt(g.info[p].hand, i),
         h.info[p].discards = Append(g.info[p].discards, g.info[p].hand[i])
  PROVE  Keeps(g, h)
<1> SUFFICES ASSUME NEW away, NEW C, Dealt(g, away, C)
             PROVE  Dealt(h, away, C)
  BY DEF Keeps
<1> DEFINE s == g.info[p].hand
           t == g.info[p].discards
           u == RemoveAt(s, i)
           v == Append(t, s[i])
<1>1. /\ Pile(g, away, InHand(p)) = s /\ Pile(g, away, Before(p)) = t
      /\ Pile(h, away, InHand(p)) = u /\ Pile(h, away, Before(p)) = v
  BY PileOfLady
<1>2. /\ InHand(p) \in Piles /\ Before(p) \in Piles /\ InHand(p) # Before(p)
  BY PilesAre, PilesDiffer
<1>3. s \in Stacks /\ t \in Stacks /\ ToSet(s) \cap ToSet(t) = {}
  BY <1>1, <1>2, PilesAreStacks DEF Dealt, EachOnce
<1> HIDE DEF s, t
<1>4. s[i] \in ToSet(s) /\ s[i] \in LetterCards
  BY <1>3, StackShape DEF s
<1>5. u \in Stacks /\ ToSet(u) = ToSet(s) \ {s[i]}
  BY <1>3, StackRemoved DEF s
<1>6. v \in Stacks /\ ToSet(v) = ToSet(t) \cup {s[i]}
  BY <1>3, <1>4, StackAppended
<1> HIDE DEF u, v
<1>7. \A z \in Piles \ {InHand(p), Before(p)} : Pile(h, away, z) = Pile(g, away, z)
  BY OtherPilesStay
<1>8. ToSet(u) \cap ToSet(v) = {} /\ ToSet(u) \cup ToSet(v) = ToSet(s) \cup ToSet(t)
  BY <1>3, <1>4, <1>5, <1>6
<1> QED
  BY <1>1, <1>2, <1>5, <1>6, <1>7, <1>8, Exchange

\* The whole hand is laid down.
LEMMA AllLaidDown ==
  ASSUME NEW g \in Rounds, NEW h, NEW p \in Ladies, OnlyOf(g, h, p),
         h.info[p].hand = <<>>,
         h.info[p].discards = g.info[p].discards \o g.info[p].hand
  PROVE  Keeps(g, h)
<1> SUFFICES ASSUME NEW away, NEW C, Dealt(g, away, C)
             PROVE  Dealt(h, away, C)
  BY DEF Keeps
<1> DEFINE s == g.info[p].hand
           t == g.info[p].discards
           v == t \o s
<1>1. /\ Pile(g, away, InHand(p)) = s /\ Pile(g, away, Before(p)) = t
      /\ Pile(h, away, InHand(p)) = <<>> /\ Pile(h, away, Before(p)) = v
  BY PileOfLady
<1>2. /\ InHand(p) \in Piles /\ Before(p) \in Piles /\ InHand(p) # Before(p)
  BY PilesAre, PilesDiffer
<1>3. s \in Stacks /\ t \in Stacks /\ ToSet(s) \cap ToSet(t) = {}
  BY <1>1, <1>2, PilesAreStacks DEF Dealt, EachOnce
<1> HIDE DEF s, t
<1>6. v \in Stacks /\ ToSet(v) = ToSet(t) \cup ToSet(s)
  BY <1>3, StackJoined
<1> HIDE DEF v
<1>7. \A z \in Piles \ {InHand(p), Before(p)} : Pile(h, away, z) = Pile(g, away, z)
  BY OtherPilesStay
<1>8. ToSet(<<>>) \cap ToSet(v) = {} /\ ToSet(<<>>) \cup ToSet(v) = ToSet(s) \cup ToSet(t)
  BY <1>6, StackSmall
<1> QED
  BY <1>1, <1>2, <1>6, <1>7, <1>8, StackSmall, Exchange

\* A card of the hand goes to its end.
LEMMA TakenBack ==
  ASSUME NEW g \in Rounds, NEW h, NEW p \in Ladies, OnlyOf(g, h, p),
         NEW i \in 1 .. Len(g.info[p].hand),
         h.info[p].hand = Append(RemoveAt(g.info[p].hand, i), g.info[p].hand[i]),
         h.info[p].discards = g.info[p].discards
  PROVE  Keeps(g, h)
<1> SUFFICES ASSUME NEW away, NEW C, Dealt(g, away, C)
             PROVE  Dealt(h, away, C)
  BY DEF Keeps
<1> DEFINE s == g.info[p].hand
           t == g.info[p].discards
           u == RemoveAt(s, i)
           v == Append(u, s[i])
<1>1. /\ Pile(g, away, InHand(p)) = s /\ Pile(g, away, Before(p)) = t
      /\ Pile(h, away, InHand(p)) = v /\ Pile(h, away, Before(p)) = t
  BY PileOfLady
<1>2. /\ InHand(p) \in Piles /\ Before(p) \in Piles /\ InHand(p) # Before(p)
  BY PilesAre, PilesDiffer
<1>3. s \in Stacks /\ t \in Stacks /\ ToSet(s) \cap ToSet(t) = {}
  BY <1>1, <1>2, PilesAreStacks DEF Dealt, EachOnce
<1> HIDE DEF s, t
<1>4. s[i] \in ToSet(s) /\ s[i] \in LetterCards
  BY <1>3, StackShape DEF s
<1>5. u \in Stacks /\ ToSet(u) = ToSet(s) \ {s[i]}
  BY <1>3, StackRemoved DEF s
<1> HIDE DEF u
<1>6. v \in Stacks /\ ToSet(v) = ToSet(u) \cup {s[i]}
  BY <1>4, <1>5, StackAppended
<1> HIDE DEF v
<1>7. \A z \in Piles \ {InHand(p), Before(p)} : Pile(h, away, z) = Pile(g, away, z)
  BY OtherPilesStay
<1>8. ToSet(v) = ToSet(s)
  BY <1>4, <1>5, <1>6
<1> QED
  BY <1>1, <1>2, <1>3, <1>6, <1>7, <1>8, Exchange

\* The last card of the deck comes to a hand.
LEMMA DealtOut ==
  ASSUME NEW g \in Rounds, NEW h, NEW p \in Ladies,
         g.deck # <<>>, h.deck = Front(g.deck), h.burn = g.burn,
         \A q \in Ladies : /\ q # p => h.info[q].hand = g.info[q].hand
                           /\ h.info[q].discards = g.info[q].discards,
         h.info[p].hand = Append(g.info[p].hand, Last(g.deck))
  PROVE  Keeps(g, h)
<1> SUFFICES ASSUME NEW away, NEW C, Dealt(g, away, C)
             PROVE  Dealt(h, away, C)
  BY DEF Keeps
<1> DEFINE d == g.deck
           s == g.info[p].hand
           u == Front(d)
           v == Append(s, Last(d))
<1>1. /\ Pile(g, away, InHand(p)) = s /\ Pile(g, away, OnDeck) = d
      /\ Pile(h, away, InHand(p)) = v /\ Pile(h, away, OnDeck) = u
  BY PileOfLady, PileOf
<1>2. InHand(p) \in Piles /\ OnDeck \in Piles /\ InHand(p) # OnDeck
  BY PilesAre, PilesDiffer
<1>3. s \in Stacks /\ d \in Stacks /\ d # <<>> /\ ToSet(s) \cap ToSet(d) = {}
  BY <1>1, <1>2, PilesAreStacks DEF Dealt, EachOnce
<1>7. ASSUME NEW z \in Piles \ {OnDeck, InHand(p)}
      PROVE  Pile(h, away, z) = Pile(g, away, z)
  <2>1. CASE z \in {PutAway, OnBurn}
    BY <2>1, PileOf
  <2>2. ASSUME NEW q \in Ladies, z = InHand(q)
        PROVE  Pile(h, away, z) = Pile(g, away, z)
    BY <2>2, PileOfLady
  <2>3. ASSUME NEW q \in Ladies, z = Before(q)
        PROVE  Pile(h, away, z) = Pile(g, away, z)
    BY <2>3, PileOfLady
  <2> QED
    BY <2>1, <2>2, <2>3, PilesAre
<1> HIDE DEF s, d
<1>4. u \in Stacks /\ Last(d) \in ToSet(d) /\ Last(d) \in LetterCards /\ ToSet(u) = ToSet(d) \ {Last(d)}
  BY <1>3, StackFront, StackShape
<1>6. v \in Stacks /\ ToSet(v) = ToSet(s) \cup {Last(d)}
  BY <1>3, <1>4, StackAppended
<1> HIDE DEF u, v
<1>8. ToSet(u) \cap ToSet(v) = {} /\ ToSet(u) \cup ToSet(v) = ToSet(d) \cup ToSet(s)
  BY <1>3, <1>4, <1>6
<1> QED
  BY <1>1, <1>2, <1>4, <1>6, <1>7, <1>8, Exchange

\* The card that was put away comes to a hand.
LEMMA BurnDealt ==
  ASSUME NEW g \in Rounds, NEW h, NEW p \in Ladies,
         g.burn # NoCard, h.deck = g.deck, h.burn = NoCard,
         \A q \in Ladies : /\ q # p => h.info[q].hand = g.info[q].hand
                           /\ h.info[q].discards = g.info[q].discards,
         h.info[p].hand = Append(g.info[p].hand, g.burn)
  PROVE  Keeps(g, h)
<1> SUFFICES ASSUME NEW away, NEW C, Dealt(g, away, C)
             PROVE  Dealt(h, away, C)
  BY DEF Keeps
<1> DEFINE c == g.burn
           s == g.info[p].hand
           v == Append(s, c)
<1>1. /\ Pile(g, away, InHand(p)) = s /\ Pile(g, away, OnBurn) = <<c>>
      /\ Pile(h, away, InHand(p)) = v /\ Pile(h, away, OnBurn) = <<>>
  BY PileOfLady, PileOf
<1>2. InHand(p) \in Piles /\ OnBurn \in Piles /\ InHand(p) # OnBurn
  BY PilesAre, PilesDiffer
<1>9. c \in LetterCards
  BY DEF Rounds
<1>3. s \in Stacks /\ c \in LetterCards /\ ToSet(s) \cap ToSet(<<c>>) = {}
  BY <1>1, <1>2, <1>9, PilesAreStacks DEF Dealt, EachOnce
<1>7. ASSUME NEW z \in Piles \ {OnBurn, InHand(p)}
      PROVE  Pile(h, away, z) = Pile(g, away, z)
  <2>1. CASE z \in {PutAway, OnDeck}
    BY <2>1, PileOf
  <2>2. ASSUME NEW q \in Ladies, z = InHand(q)
        PROVE  Pile(h, away, z) = Pile(g, away, z)
    BY <2>2, PileOfLady
  <2>3. ASSUME NEW q \in Ladies, z = Before(q)
        PROVE  Pile(h, away, z) = Pile(g, away, z)
    BY <2>3, PileOfLady
  <2> QED
    BY <2>1, <2>2, <2>3, PilesAre
<1> HIDE DEF s, c
<1>4. ToSet(<<c>>) = {c} /\ ToSet(<<>>) = {} /\ <<>> \in Stacks
  BY <1>3, StackSmall
<1>6. v \in Stacks /\ ToSet(v) = ToSet(s) \cup {c}
  BY <1>3, <1>4, StackAppended
<1> HIDE DEF v
<1>8. ToSet(<<>>) \cap ToSet(v) = {} /\ ToSet(<<>>) \cup ToSet(v) = ToSet(<<c>>) \cup ToSet(s)
  BY <1>3, <1>4, <1>6
<1> QED
  BY <1>1, <1>2, <1>4, <1>6, <1>7, <1>8, Exchange

\* Two hands are swapped.
LEMMA HandsSwapped ==
  ASSUME NEW g \in Rounds, NEW h, NEW p \in Ladies, NEW q \in Ladies, p # q,
         h.deck = g.deck, h.burn = g.burn,
         \A r \in Ladies : /\ r \notin {p, q} => h.info[r].hand = g.info[r].hand
                           /\ h.info[r].discards = g.info[r].discards,
         h.info[p].hand = g.info[q].hand, h.info[q].hand = g.info[p].hand
  PROVE  Keeps(g, h)
<1> SUFFICES ASSUME NEW away, NEW C, Dealt(g, away, C)
             PROVE  Dealt(h, away, C)
  BY DEF Keeps
<1> DEFINE s == g.info[p].hand
           t == g.info[q].hand
<1>1. /\ Pile(g, away, InHand(p)) = s /\ Pile(g, away, InHand(q)) = t
      /\ Pile(h, away, InHand(p)) = t /\ Pile(h, away, InHand(q)) = s
  BY PileOfLady
<1>2. InHand(p) \in Piles /\ InHand(q) \in Piles /\ InHand(p) # InHand(q)
  BY PilesAre, PilesDiffer
<1>3. s \in Stacks /\ t \in Stacks /\ ToSet(s) \cap ToSet(t) = {}
  BY <1>1, <1>2, PilesAreStacks DEF Dealt, EachOnce
<1>7. ASSUME NEW z \in Piles \ {InHand(p), InHand(q)}
      PROVE  Pile(h, away, z) = Pile(g, away, z)
  <2>1. CASE z \in {PutAway, OnDeck, OnBurn}
    BY <2>1, PileOf
  <2>2. ASSUME NEW r \in Ladies, z = InHand(r)
        PROVE  Pile(h, away, z) = Pile(g, away, z)
    BY <2>2, PileOfLady
  <2>3. ASSUME NEW r \in Ladies, z = Before(r)
        PROVE  Pile(h, away, z) = Pile(g, away, z)
    BY <2>3, PileOfLady
  <2> QED
    BY <2>1, <2>2, <2>3, PilesAre
<1> HIDE DEF s, t
<1> QED
  BY <1>1, <1>2, <1>3, <1>7, Exchange

-----------------------------------------------------------------------------
(* What the functions of a turn do to the cards.                            *)

\* Who plays, who is awaited and who is where is left alone.
Calm(g, h) ==
    /\ h.current = g.current /\ h.first = g.first /\ h.sycophant = g.sycophant
    /\ h.bishop = g.bishop /\ h.m = g.m
    /\ \A q \in Ladies : h.info[q].left = g.info[q].left

\* What a round and a seat are made of.
LEMMA SeatShape ==
  ASSUME NEW g \in Rounds, NEW p \in Ladies
  PROVE  /\ g.info \in Seats /\ g.info[p] \in Seat /\ g.deck \in Seq(LetterCards) /\ g.burn \in LetterCards
         /\ g.info[p].hand \in Seq(LetterCards) /\ g.info[p].discards \in Seq(LetterCards)
         /\ g.info[p].alive \in BOOLEAN /\ g.info[p].protect \in BOOLEAN
         /\ g.info[p].scores \in Nat
BY DEF Rounds, Seats, Seat


\* A null card is a value like the others.
LEMMA NoCardIsOne == NoCard \in LetterCards
BY DEF NoCard, LetterCards, Kinds

\* A round in which one seat, and maybe the deck and the card put away, are changed.
Reseated(g, p, r, d, b) ==
    [g EXCEPT !.info = [g.info EXCEPT ![p] = r], !.deck = d, !.burn = b]

\* Reseated is a round, and only the seat of p, the deck and the burn card are others.
LEMMA SeatChanged ==
  ASSUME NEW g \in Rounds, NEW p \in Ladies, NEW r \in Seat, NEW d \in Seq(LetterCards),
         NEW b \in LetterCards, NEW h, h = Reseated(g, p, r, d, b)
  PROVE  /\ h \in Rounds /\ h.info[p] = r /\ h.deck = d /\ h.burn = b
         /\ \A q \in Ladies : q # p => h.info[q] = g.info[q]
         /\ h.current = g.current /\ h.first = g.first /\ h.sycophant = g.sycophant
         /\ h.bishop = g.bishop /\ h.m = g.m
<1> DEFINE i == [g.info EXCEPT ![p] = r]
<1>1. i \in Seats /\ i[p] = r /\ \A q \in Ladies : q # p => i[q] = g.info[q]
  BY SeatShape DEF Seats
<1>2. h = [g EXCEPT !.info = i, !.deck = d, !.burn = b]
  BY DEF Reseated
<1> HIDE DEF i
<1>3. h \in Rounds /\ h.info = i /\ h.deck = d /\ h.burn = b
      /\ h.current = g.current /\ h.first = g.first /\ h.sycophant = g.sycophant
      /\ h.bishop = g.bishop /\ h.m = g.m
  BY <1>1, <1>2 DEF Rounds
<1> QED
  BY <1>1, <1>3

\* One that is another's but for the hand.
LEMMA HandChanged ==
  ASSUME NEW r \in Seat, NEW t \in Seq(LetterCards), NEW n, n = [r EXCEPT !.hand = t]
  PROVE  /\ n \in Seat /\ n.hand = t /\ n.discards = r.discards /\ n.alive = r.alive
         /\ n.protect = r.protect /\ n.left = r.left /\ n.scores = r.scores /\ n.bet = r.bet
BY DEF Seat

\* A hand with a card more.
LEMMA CardAdded ==
  ASSUME NEW s \in Seq(LetterCards), NEW c \in LetterCards
  PROVE  Append(s, c) \in Seq(LetterCards) /\ Len(Append(s, c)) = Len(s) + 1
OBVIOUS

\* A deck that is not empty has a last card, and has one less without it.
LEMMA LastOfDeck ==
  ASSUME NEW d \in Seq(LetterCards), d # <<>>
  PROVE  /\ Front(d) \in Seq(LetterCards) /\ Last(d) \in LetterCards
         /\ Len(Front(d)) = Len(d) - 1 /\ Len(d) \in Nat \ {0}
<1>1. Len(d) \in Nat \ {0}
  OBVIOUS
<1>2. Last(d) \in LetterCards
  BY <1>1 DEF Last
<1> DEFINE n == Len(d) - 1
<1>3. n \in Nat /\ n \in Int /\ \A i \in 1 .. n : d[i] \in LetterCards
  BY <1>1
<1> HIDE DEF n
<1>4. /\ SubSeq(d, 1, n) \in Seq(LetterCards)
      /\ Len(SubSeq(d, 1, n)) = IF 1 <= n THEN n - 1 + 1 ELSE 0
  BY <1>3, SubSeqProperties
<1>5. Len(SubSeq(d, 1, n)) = n
  BY <1>3, <1>4
<1> QED
  BY <1>1, <1>2, <1>4, <1>5 DEF Front, n

\* p has drawn a card.
Drew(g, h, p) ==
    /\ h \in Rounds /\ Keeps(g, h) /\ Calm(g, h)
    /\ \A q \in Ladies : /\ h.info[q].alive = g.info[q].alive
                         /\ h.info[q].protect = g.info[q].protect
                         /\ h.info[q].scores = g.info[q].scores
                         /\ q # p => h.info[q] = g.info[q]
    /\ Len(h.info[p].hand) = Len(g.info[p].hand) + 1
    /\ g.deck # <<>> \/ h.deck # <<>> => h.burn = g.burn

\* DrawCard_: p has a card more, and each card is in one place still.
LEMMA DrawIsDone ==
  ASSUME NEW g \in Rounds, NEW p \in Ladies, g.deck # <<>> \/ g.burn # NoCard
  PROVE  Drew(g, Draw(g, p), p)
<1> DEFINE h == Draw(g, p)
<1>0. h = Draw(g, p)
  OBVIOUS
<1> HIDE DEF h
<1> DEFINE s == g.info[p].hand
           c == IF g.deck # <<>> THEN Last(g.deck) ELSE g.burn
           d == IF g.deck # <<>> THEN Front(g.deck) ELSE g.deck
           b == IF g.deck # <<>> THEN g.burn ELSE NoCard
           t == Append(s, c)
           r == [g.info[p] EXCEPT !.hand = t]
<1>1. d \in Seq(LetterCards) /\ b \in LetterCards /\ c \in LetterCards /\ s \in Seq(LetterCards)
  BY SeatShape, LastOfDeck, NoCardIsOne
<1>2. t \in Seq(LetterCards) /\ Len(t) = Len(s) + 1
  BY <1>1, CardAdded
<1>3. h = Reseated(g, p, r, d, b)
  <2>1. CASE g.deck # <<>>
    <3>1. h = [g EXCEPT !.info = [g.info EXCEPT ![p] = r], !.deck = d]
      BY <1>0, <2>1 DEF Draw
    <3>2. b = g.burn
      BY <2>1
    <3> HIDE DEF r, d, b
    <3> QED
      BY <3>1, <3>2 DEF Rounds, Reseated
  <2>2. CASE g.deck = <<>>
    <3>1. h = [g EXCEPT !.info = [g.info EXCEPT ![p] = r], !.burn = b]
      BY <1>0, <2>2 DEF Draw
    <3>2. d = g.deck
      BY <2>2
    <3> HIDE DEF r, d, b
    <3> QED
      BY <3>1, <3>2 DEF Rounds, Reseated
  <2> QED
    BY <2>1, <2>2
<1> HIDE DEF t
<1>4. r \in Seat /\ r.hand = t /\ r.discards = g.info[p].discards /\ r.alive = g.info[p].alive
      /\ r.protect = g.info[p].protect /\ r.left = g.info[p].left /\ r.scores = g.info[p].scores
  BY <1>2, SeatShape, HandChanged
<1> HIDE DEF r, d, b
<1>5. /\ h \in Rounds /\ h.info[p] = r /\ h.deck = d /\ h.burn = b
      /\ \A q \in Ladies : q # p => h.info[q] = g.info[q]
      /\ h.current = g.current /\ h.first = g.first /\ h.sycophant = g.sycophant
      /\ h.bishop = g.bishop /\ h.m = g.m
  BY <1>1, <1>3, <1>4, SeatChanged
<1>6. Calm(g, h)
  BY <1>4, <1>5 DEF Calm
<1>7. Keeps(g, h)
  <2>1. h.info[p].hand = Append(g.info[p].hand, c)
    BY <1>4, <1>5 DEF t
  <2>2. \A q \in Ladies : /\ q # p => h.info[q].hand = g.info[q].hand
                          /\ h.info[q].discards = g.info[q].discards
    BY <1>4, <1>5
  <2>3. CASE g.deck # <<>>
    <3>1. h.deck = Front(g.deck) /\ h.burn = g.burn
      BY <1>5, <2>3 DEF d, b
    <3>2. h.info[p].hand = Append(g.info[p].hand, Last(g.deck))
      BY <2>1, <2>3
    <3> QED
      BY <2>2, <2>3, <3>1, <3>2, DealtOut
  <2>4. CASE g.deck = <<>>
    <3>1. h.deck = g.deck /\ h.burn = NoCard /\ g.burn # NoCard
      BY <1>5, <2>4 DEF d, b
    <3>2. h.info[p].hand = Append(g.info[p].hand, g.burn)
      BY <2>1, <2>4
    <3> QED
      BY <2>2, <3>1, <3>2, BurnDealt
  <2> QED
    BY <2>3, <2>4
<1>8. g.deck # <<>> \/ h.deck # <<>> => h.burn = g.burn
  BY <1>5 DEF d, b
<1>9. Len(h.info[p].hand) = Len(g.info[p].hand) + 1
  BY <1>2, <1>4, <1>5
<1> QED
  BY <1>4, <1>5, <1>6, <1>7, <1>8, <1>9 DEF Drew, h

\* Nothing but marks and points: every card stays where it is.
LEMMA MarksOnly ==
  ASSUME NEW g, NEW h, h.deck = g.deck, h.burn = g.burn,
         \A q \in Ladies : h.info[q].hand = g.info[q].hand /\ h.info[q].discards = g.info[q].discards
  PROVE  Keeps(g, h)
<1>1. ASSUME NEW away, NEW z \in Piles
      PROVE  Pile(h, away, z) = Pile(g, away, z)
  <2>1. CASE z \in {OnDeck, PutAway, OnBurn}
    BY <2>1, PileOf
  <2>2. ASSUME NEW q \in Ladies, z = InHand(q)
        PROVE  Pile(h, away, z) = Pile(g, away, z)
    BY <2>2, PileOfLady
  <2>3. ASSUME NEW q \in Ladies, z = Before(q)
        PROVE  Pile(h, away, z) = Pile(g, away, z)
    BY <2>3, PileOfLady
  <2> QED
    BY <2>1, <2>2, <2>3, PilesAre
<1>2. ASSUME NEW away, NEW C, EachOnce(g, away, C)
      PROVE  EachOnce(h, away, C)
  <2>1. \A x \in Piles : IsInjective(Pile(h, away, x))
    BY <1>1, <1>2 DEF EachOnce
  <2>2. \A x, y \in Piles :
           ToSet(Pile(h, away, x)) \cap ToSet(Pile(h, away, y)) # {} => x = y
    BY <1>1, <1>2 DEF EachOnce
  <2>3. UNION {ToSet(Pile(h, away, x)) : x \in Piles} = UNION {ToSet(Pile(g, away, x)) : x \in Piles}
    BY <1>1
  <2> QED
    BY <1>2, <2>1, <2>2, <2>3 DEF EachOnce
<1> QED
  BY <1>2 DEF Keeps, Dealt

\* Keeps is transitive.
LEMMA KeepsOn ==
  ASSUME NEW f, NEW g, NEW h, Keeps(f, g), Keeps(g, h)
  PROVE  Keeps(f, h)
BY DEF Keeps

\* Only the seat of p is another.
Apart(g, h, p) ==
    /\ h.deck = g.deck /\ h.burn = g.burn
    /\ \A q \in Ladies \ {p} : h.info[q] = g.info[q]

\* As Reseated, with the deck left alone.
Sat(g, p, r) == [g EXCEPT !.info = [g.info EXCEPT ![p] = r]]

\* Sat is a round, and only the seat of p is another.
LEMMA SeatOnly ==
  ASSUME NEW g \in Rounds, NEW p \in Ladies, NEW r \in Seat,
         NEW h, h = Sat(g, p, r)
  PROVE  /\ h \in Rounds /\ h.info[p] = r /\ Apart(g, h, p) /\ OnlyOf(g, h, p)
         /\ r.left = g.info[p].left => Calm(g, h)
<1>1. h = Reseated(g, p, r, g.deck, g.burn)
  BY DEF Rounds, Reseated, Sat
<1>2. g.deck \in Seq(LetterCards) /\ g.burn \in LetterCards
  BY DEF Rounds
<1>3. /\ h \in Rounds /\ h.info[p] = r /\ h.deck = g.deck /\ h.burn = g.burn
      /\ \A q \in Ladies : q # p => h.info[q] = g.info[q]
      /\ h.current = g.current /\ h.first = g.first /\ h.sycophant = g.sycophant
      /\ h.bishop = g.bishop /\ h.m = g.m
  BY <1>1, <1>2, SeatChanged
<1> QED
  BY <1>3 DEF Apart, OnlyOf, Calm

\* p has laid down a card.
Threw(g, h, p) ==
    /\ h \in Rounds /\ Keeps(g, h) /\ Calm(g, h) /\ Apart(g, h, p)
    /\ h.info[p].alive = g.info[p].alive /\ h.info[p].protect = g.info[p].protect
    /\ h.info[p].scores = g.info[p].scores
    /\ Len(h.info[p].hand) = Len(g.info[p].hand) - 1

\* A card that p lays down is still in one place.
LEMMA ThrownAway ==
  ASSUME NEW g \in Rounds, NEW p \in Ladies, NEW at \in 1 .. Len(g.info[p].hand)
  PROVE  /\ Threw(g, Thrown(g, p, at), p)
         /\ Thrown(g, p, at).info[p].hand = RemoveAt(g.info[p].hand, at)
<1> DEFINE h == Thrown(g, p, at)
<1>0. h = Thrown(g, p, at)
  OBVIOUS
<1> HIDE DEF h
<1> DEFINE s == g.info[p].hand
           t == RemoveAt(s, at)
           u == Append(g.info[p].discards, s[at])
           r == [g.info[p] EXCEPT !.hand = t, !.discards = u]
<1>1. s \in Seq(LetterCards) /\ g.info[p].discards \in Seq(LetterCards) /\ g.info[p] \in Seat
  BY SeatShape
<1>2. t \in Seq(LetterCards) /\ Len(t) = Len(s) - 1
  BY <1>1, Removed
<1>3. s[at] \in LetterCards
  BY <1>1
<1>4. u \in Seq(LetterCards)
  BY <1>1, <1>3, CardAdded
<1>5. h = Sat(g, p, r)
  <2>1. g.info \in Seats
    BY SeatShape
  <2> QED
    BY <1>0, <2>1 DEF Thrown, Rounds, Seats, Sat
<1>8. t = RemoveAt(g.info[p].hand, at) /\ u = Append(g.info[p].discards, g.info[p].hand[at])
  OBVIOUS
<1> HIDE DEF t, u, s
<1>6. r \in Seat /\ r.hand = t /\ r.discards = u /\ r.alive = g.info[p].alive
      /\ r.protect = g.info[p].protect /\ r.left = g.info[p].left /\ r.scores = g.info[p].scores
  BY <1>1, <1>2, <1>4 DEF Seat
<1> HIDE DEF r
<1>7. h \in Rounds /\ h.info[p] = r /\ Apart(g, h, p) /\ OnlyOf(g, h, p) /\ Calm(g, h)
  BY <1>5, <1>6, SeatOnly
<1>9. Keeps(g, h)
  BY <1>6, <1>7, <1>8, LaidDown
<1> QED
  BY <1>2, <1>6, <1>7, <1>8, <1>9 DEF s, h, Threw

\* p is out.
Fell(g, h, p) ==
    /\ h \in Rounds /\ Keeps(g, h) /\ Calm(g, h) /\ Apart(g, h, p)
    /\ h.info[p].alive = FALSE /\ h.info[p].hand = <<>>
    /\ h.info[p].protect = g.info[p].protect

\* Eliminate_: who is out has no cards, and each card is in one place still.
LEMMA EliminatedIsOut ==
  ASSUME NEW g \in Rounds, NEW p \in Ladies,
         ~g.info[p].alive => g.info[p].hand = <<>>
  PROVE  Fell(g, Eliminated(g, p), p)
<1> DEFINE h == Eliminated(g, p)
<1>0. h = Eliminated(g, p)
  OBVIOUS
<1> HIDE DEF h
<1>1. CASE ~g.info[p].alive
  <2>1. h = g
    BY <1>0, <1>1 DEF Eliminated
  <2>2. g.info[p].alive = FALSE
    BY <1>1, SeatShape
  <2>3. Keeps(g, g) /\ Calm(g, g) /\ Apart(g, g, p)
    BY DEF Keeps, Calm, Apart
  <2>4. Fell(g, g, p)
    BY <1>1, <2>2, <2>3 DEF Fell
  <2> QED
    BY <2>1, <2>4, <1>0
<1>2. CASE g.info[p].alive
  <2> DEFINE all == g.info[p].discards \o g.info[p].hand
             gain == IF ~g.info[p].left /\ "constable" \in KindsOf(all) THEN 1 ELSE 0
             n == g.info[p].scores + gain
             r == [g.info[p] EXCEPT !.discards = all, !.hand = <<>>, !.alive = FALSE, !.scores = n]
  <2>1. all \in Seq(LetterCards) /\ g.info[p] \in Seat
    BY SeatShape, ConcatProperties
  <2>2. n \in Nat
    <3>1. gain \in {0, 1}
      OBVIOUS
    <3> HIDE DEF gain
    <3> QED
      BY <3>1, SeatShape
  <2>3. h = Sat(g, p, r)
    BY <1>0, <1>2 DEF Eliminated, Sat
  <2>4. all = g.info[p].discards \o g.info[p].hand
    OBVIOUS
  <2>5. <<>> \in Seq(LetterCards)
    OBVIOUS
  <2> HIDE DEF all, n
  <2>6. r \in Seat /\ r.hand = <<>> /\ r.discards = all /\ r.alive = FALSE
        /\ r.protect = g.info[p].protect /\ r.left = g.info[p].left
    BY <2>1, <2>2, <2>5 DEF Seat
  <2> HIDE DEF r
  <2>7. h \in Rounds /\ h.info[p] = r /\ Apart(g, h, p) /\ OnlyOf(g, h, p) /\ Calm(g, h)
    BY <2>3, <2>6, SeatOnly
  <2>9. Keeps(g, h)
    BY <2>4, <2>6, <2>7, AllLaidDown
  <2>10. Fell(g, h, p)
    BY <2>6, <2>7, <2>9 DEF Fell
  <2> QED
    BY <2>10, <1>0
<1> QED
  BY <1>1, <1>2

-----------------------------------------------------------------------------
(* What each card does.                                                     *)

\* Whoever plays has one card.
OneEach(g) == \A q \in Ladies : Len(g.info[q].hand) = IF g.info[q].alive THEN 1 ELSE 0

\* There is a card to draw.
SomeLeft(g) == g.deck # <<>> \/ g.burn # NoCard

\* What a card leaves behind that changes nothing but hands, discards and points.
Turned(g, h) ==
    /\ h \in Rounds /\ Keeps(g, h) /\ Calm(g, h) /\ OneEach(h)
    /\ h.deck # <<>> => h.burn = g.burn
    /\ \A q \in Ladies : h.info[q].protect = g.info[q].protect

\* A hand of no cards is the empty one.
LEMMA NoneInHand ==
  ASSUME NEW s \in Seq(LetterCards)
  PROVE  Len(s) = 0 <=> s = <<>>
OBVIOUS

\* The place of the first card that is looked for.
LEMMA PlaceIsThere ==
  ASSUME NEW s \in Seq(LetterCards), NEW kind
  PROVE  /\ PlaceIn(s, kind) \in 0 .. Len(s)
         /\ (\E i \in 1 .. Len(s) : s[i].kind = kind) => PlaceIn(s, kind) # 0
<1> DEFINE I == {i \in 1 .. Len(s) : s[i].kind = kind}
<1>1. CASE I = {}
  <2>1. PlaceIn(s, kind) = 0
    BY <1>1 DEF SelectInSeq, PlaceIn
  <2> QED
    BY <1>1, <2>1
<1>2. CASE I # {}
  <2>1. PlaceIn(s, kind) = Min(I)
    BY <1>2 DEF SelectInSeq, PlaceIn
  <2>2. I \subseteq Nat
    OBVIOUS
  <2>3. \E x \in I : \A y \in I : x <= y
    <3> HIDE DEF I
    <3> QED
      BY <1>2, <2>2, LeastNumber
  <2>4. Min(I) \in I
    BY <2>3 DEF Min
  <2>5. Min(I) \in 0 .. Len(s) /\ Min(I) # 0
    BY <2>4
  <2> QED
    BY <2>1, <2>5
<1> QED
  BY <1>1, <1>2

\* Who is out has none, who has one is in.
LEMMA OneOrNone ==
  ASSUME NEW g \in Rounds, OneEach(g), NEW p \in Ladies
  PROVE  /\ g.info[p].alive = FALSE => g.info[p].hand = <<>>
         /\ g.info[p].alive = TRUE => Len(g.info[p].hand) = 1
         /\ Len(g.info[p].hand) = 1 => g.info[p].alive = TRUE
<1> DEFINE a == g.info[p].alive
           s == g.info[p].hand
<1>1. a \in BOOLEAN /\ s \in Seq(LetterCards) /\ Len(s) = IF a THEN 1 ELSE 0
  BY SeatShape DEF OneEach
<1> HIDE DEF a, s
<1>2. /\ a = FALSE => s = <<>>
      /\ a = TRUE => Len(s) = 1
      /\ Len(s) = 1 => a = TRUE
  BY <1>1, NoneInHand
<1> QED
  BY <1>2 DEF a, s

\* A seat that has one card if it is in, and else none.
Fits(q) == Len(q.hand) = IF q.alive THEN 1 ELSE 0

\* If only the seat of p changed, only that has to be looked at.
LEMMA FitsAll ==
  ASSUME NEW g, NEW h, NEW p \in Ladies, OneEach(g), Fits(h.info[p]),
         \A q \in Ladies : q # p => h.info[q] = g.info[q]
  PROVE  OneEach(h)
<1>1. \A q \in Ladies : Fits(g.info[q])
  BY DEF OneEach, Fits
<1>2. \A q \in Ladies : Fits(h.info[q])
  BY <1>1
<1> QED
  BY <1>2 DEF OneEach, Fits

\* Who is out has no card, so that everybody still has what he should have.
LEMMA OutTurned ==
  ASSUME NEW g \in Rounds, OneEach(g), NEW p \in Ladies
  PROVE  Turned(g, Eliminated(g, p)) /\ Fell(g, Eliminated(g, p), p)
<1> DEFINE h == Eliminated(g, p)
<1>1. ~g.info[p].alive => g.info[p].hand = <<>>
  <2>1. g.info[p].alive \in BOOLEAN /\ (g.info[p].alive = FALSE => g.info[p].hand = <<>>)
    BY SeatShape, OneOrNone
  <2> QED
    BY <2>1
<1>2. Fell(g, h, p)
  BY <1>1, EliminatedIsOut
<1> HIDE DEF h
<1>3. OneEach(h)
  <2>1. Fits(h.info[p])
    BY <1>2 DEF Fell, Fits
  <2>2. \A q \in Ladies : q # p => h.info[q] = g.info[q]
    BY <1>2 DEF Fell, Apart
  <2> QED
    BY <2>1, <2>2, FitsAll
<1>4. \A q \in Ladies : h.info[q].protect = g.info[q].protect
  BY <1>2 DEF Fell, Apart
<1>5. Turned(g, h)
  BY <1>2, <1>3, <1>4 DEF Turned, Apart, Fell
<1> QED
  BY <1>2, <1>5 DEF h

\* Two changes of hands, one after the other, if the first took no burn card.
LEMMA TurnedOn ==
  ASSUME NEW f, NEW g, NEW h, Turned(f, g), Turned(g, h), g.burn = f.burn
  PROVE  Turned(f, h)
<1>1. Keeps(f, h)
  BY KeepsOn DEF Turned
<1> QED
  BY <1>1 DEF Turned, Calm

\* The only card of a hand is laid down and another one drawn, unless it was the princess.
LEMMA Replaced ==
  ASSUME NEW g \in Rounds, OneEach(g), SomeLeft(g), NEW p \in Ladies, Len(g.info[p].hand) = 1,
         NEW at \in 1 .. Len(g.info[p].hand)
  PROVE  /\ Turned(g, Draw(Thrown(g, p, at), p))
         /\ Turned(g, Eliminated(Thrown(g, p, at), p))
<1> DEFINE k == Thrown(g, p, at)
<1>1. Threw(g, k, p)
  BY ThrownAway
<1>0. g.info[p].alive = TRUE
  BY OneOrNone
<1> HIDE DEF k
<1>2. k \in Rounds /\ Keeps(g, k) /\ Calm(g, k) /\ Apart(g, k, p) /\ Len(k.info[p].hand) = 0
      /\ k.info[p].alive = TRUE /\ k.info[p].protect = g.info[p].protect
  BY <1>0, <1>1 DEF Threw
<1> DEFINE h == Draw(k, p)
           e == Eliminated(k, p)
<1>3. Turned(g, h)
  <2>1. k.deck # <<>> \/ k.burn # NoCard
    BY <1>2 DEF Apart, SomeLeft
  <2>2. Drew(k, h, p)
    BY <1>2, <2>1, DrawIsDone
  <2> HIDE DEF h
  <2>3. Len(h.info[p].hand) = 1 /\ h.info[p].alive = TRUE
    BY <1>2, <2>2 DEF Drew
  <2>4. \A q \in Ladies : q # p => h.info[q] = g.info[q]
    BY <1>2, <2>2 DEF Drew, Apart
  <2>5. OneEach(h)
    BY <2>3, <2>4, FitsAll DEF Fits
  <2>6. Keeps(g, h)
    BY <1>2, <2>2, KeepsOn DEF Drew
  <2>7. Calm(g, h)
    BY <1>2, <2>2 DEF Calm, Drew
  <2>8. h.info[p].protect = g.info[p].protect
    BY <1>2, <2>2 DEF Drew
  <2>9. h \in Rounds /\ (h.deck # <<>> => h.burn = g.burn)
    BY <1>2, <2>2 DEF Apart, Drew
  <2> QED
    BY <2>4, <2>5, <2>6, <2>7, <2>8, <2>9 DEF Turned
<1>4. Turned(g, e)
  <2>1. Fell(k, e, p)
    BY <1>2, EliminatedIsOut
  <2> HIDE DEF e
  <2>2. e.info[p].hand = <<>> /\ e.info[p].alive = FALSE
    BY <2>1 DEF Fell
  <2>3. \A q \in Ladies : q # p => e.info[q] = g.info[q]
    BY <1>2, <2>1 DEF Fell, Apart
  <2>4. OneEach(e)
    BY <2>2, <2>3, FitsAll DEF Fits
  <2>5. Keeps(g, e)
    BY <1>2, <2>1, KeepsOn DEF Fell
  <2>6. Calm(g, e)
    BY <1>2, <2>1 DEF Calm, Fell
  <2>7. e.info[p].protect = g.info[p].protect
    BY <1>2, <2>1 DEF Fell
  <2>8. e \in Rounds /\ e.burn = g.burn
    BY <1>2, <2>1 DEF Apart, Fell
  <2> QED
    BY <2>3, <2>4, <2>5, <2>6, <2>7, <2>8 DEF Turned
<1> QED
  BY <1>3, <1>4 DEF k

\* Nothing at all.
LEMMA NothingTurned ==
  ASSUME NEW g \in Rounds, OneEach(g)
  PROVE  Turned(g, g)
BY DEF Turned, Calm, Keeps

\* Guard: who guessed is out, or the target, or nobody.
LEMMA GuardIsPlayed ==
  ASSUME NEW g \in Rounds, OneEach(g), SomeLeft(g), NEW p \in Ladies, NEW t \in Ladies,
         p # t, Len(g.info[t].hand) = 1, NEW guess
  PROVE  Turned(g, Guard(g, p, t, guess))
<1> DEFINE hand == g.info[t].hand
           at == PlaceIn(hand, "assassin")
           e == Eliminated(g, p)
           k == [e EXCEPT !.info[t].hand = RemoveAt(hand, at),
                          !.info[t].discards = Append(@, hand[at])]
           rest == IF hand # <<>> /\ Point(hand[1]) = guess THEN Eliminated(g, t) ELSE g
<1>1. Guard(g, p, t, guess) = IF at > 0 THEN Draw(k, t) ELSE rest
  BY DEF Guard
<1>2. at \in 0 .. 1
  <2>1. hand \in Seq(LetterCards) /\ Len(hand) = 1
    BY SeatShape
  <2> QED
    BY <2>1, PlaceIsThere
<1>3. Turned(g, rest)
  <2>1. Turned(g, Eliminated(g, t)) /\ Turned(g, g)
    BY OutTurned, NothingTurned
  <2> HIDE DEF hand
  <2> QED
    BY <2>1
<1>4. /\ Turned(g, e) /\ Fell(g, e, p)
  BY OutTurned
<1> HIDE DEF e, at, rest
<1>5. CASE at > 0
  <2>1. at \in 1 .. Len(g.info[t].hand)
    BY <1>2, <1>5
  <2>2. e.info[t] = g.info[t] /\ e \in Rounds /\ Len(e.info[t].hand) = 1 /\ OneEach(e)
        /\ e.burn = g.burn /\ e.deck = g.deck
    BY <1>4 DEF Apart, Turned, Fell
  <2>3. k = Thrown(e, t, at)
    <3>1. e.info \in Seats
      BY <2>2, SeatShape
    <3> QED
      BY <2>2, <3>1 DEF Thrown, Seats, Rounds
  <2>4. SomeLeft(e)
    BY <2>2 DEF SomeLeft
  <2>6. at \in 1 .. Len(e.info[t].hand)
    BY <2>1, <2>2
  <2> HIDE DEF k
  <2>5. Turned(e, Draw(k, t))
    BY <2>2, <2>3, <2>4, <2>6, Replaced
  <2> QED
    BY <1>1, <1>4, <1>5, <2>2, <2>5, TurnedOn
<1>6. CASE ~(at > 0)
  BY <1>1, <1>3, <1>6
<1> QED
  BY <1>5, <1>6

\* Baron and dowager: one of the two is out, or nobody.
LEMMA DuelIsFought ==
  ASSUME NEW g \in Rounds, OneEach(g), NEW p \in Ladies, NEW t \in Ladies, NEW lower
  PROVE  Turned(g, Duel(g, p, t, lower))
<1>1. Turned(g, Eliminated(g, p)) /\ Turned(g, Eliminated(g, t)) /\ Turned(g, g)
  BY OutTurned, NothingTurned
<1>3. Duel(g, p, t, lower) \in {g, Eliminated(g, p), Eliminated(g, t)}
  BY DEF Duel
<1> QED
  BY <1>1, <1>3

\* The first of one card is its last, and nothing is before it.
LEMMA OnlyCard ==
  ASSUME NEW s \in Seq(LetterCards), Len(s) = 1
  PROVE  s # <<>> /\ Last(s) = s[1] /\ Front(s) = <<>> /\ RemoveAt(s, 1) = <<>>
<1>0. s # <<>>
  <2>1. Len(s) # 0
    OBVIOUS
  <2> QED
    BY <2>1, NoneInHand
<1>1. Last(s) = s[1]
  BY DEF Last
<1>2. Front(s) \in Seq(LetterCards) /\ Len(Front(s)) = 0
  BY <1>0, LastOfDeck
<1>3. RemoveAt(s, 1) \in Seq(LetterCards) /\ Len(RemoveAt(s, 1)) = 0
  <2>1. 1 \in 1 .. Len(s) /\ Len(s) - 1 = 0
    OBVIOUS
  <2>2. RemoveAt(s, 1) \in Seq(LetterCards) /\ Len(RemoveAt(s, 1)) = Len(s) - 1
    BY <2>1, Removed
  <2> QED
    BY <2>1, <2>2
<1> QED
  BY <1>0, <1>1, <1>2, <1>3, NoneInHand

\* Prince: the target has another card, or is out.
LEMMA PrinceIsPlayed ==
  ASSUME NEW g \in Rounds, OneEach(g), SomeLeft(g), NEW t \in Ladies, Len(g.info[t].hand) = 1
  PROVE  Turned(g, Prince(g, t))
<1> DEFINE hand == g.info[t].hand
           h == [g EXCEPT !.info[t].hand = Front(@), !.info[t].discards = Append(@, Last(hand))]
<1>1. Prince(g, t) = IF hand = <<>> THEN Draw(g, t)
                     ELSE IF Last(hand).kind = "princess" THEN Eliminated(h, t) ELSE Draw(h, t)
  BY DEF Prince
<1>2. hand # <<>> /\ Last(hand) = hand[1] /\ Front(hand) = <<>> /\ RemoveAt(hand, 1) = <<>>
  BY SeatShape, OnlyCard
<1>4. h = Thrown(g, t, 1)
  BY <1>2 DEF Thrown
<1>5. Turned(g, Draw(h, t)) /\ Turned(g, Eliminated(h, t))
  <2>1. 1 \in 1 .. Len(g.info[t].hand)
    OBVIOUS
  <2> QED
    BY <1>4, <2>1, Replaced
<1> HIDE DEF h, hand
<1> QED
  BY <1>1, <1>2, <1>5

\* King and cardinal: two who are in have swapped their cards.
LEMMA SwappedTurned ==
  ASSUME NEW g \in Rounds, OneEach(g), NEW p \in Ladies, NEW q \in Ladies, p # q,
         Len(g.info[p].hand) = 1, Len(g.info[q].hand) = 1
  PROVE  Turned(g, Swapped(g, p, q))
<1> DEFINE a == g.info[p].hand
           b == g.info[q].hand
           r == [g.info[p] EXCEPT !.hand = b]
           n == [g.info[q] EXCEPT !.hand = a]
           k == Sat(g, p, r)
           h == Sat(k, q, n)
<1>1. a \in Seq(LetterCards) /\ b \in Seq(LetterCards) /\ g.info[p] \in Seat /\ g.info[q] \in Seat
      /\ g.info \in Seats
  BY SeatShape
<1>2. Swapped(g, p, q) = h
  BY <1>1 DEF Swapped, Sat, Rounds, Seats
<1> HIDE DEF a, b
<1>3. r \in Seat /\ r.hand = b /\ r.discards = g.info[p].discards /\ r.alive = g.info[p].alive
      /\ r.protect = g.info[p].protect /\ r.left = g.info[p].left
  BY <1>1, HandChanged
<1>4. n \in Seat /\ n.hand = a /\ n.discards = g.info[q].discards /\ n.alive = g.info[q].alive
      /\ n.protect = g.info[q].protect /\ n.left = g.info[q].left
  BY <1>1, HandChanged
<1> HIDE DEF r, n
<1>5. k \in Rounds /\ k.info[p] = r /\ Apart(g, k, p) /\ Calm(g, k)
  BY <1>3, SeatOnly
<1>6. k.info[q] = g.info[q]
  BY <1>5 DEF Apart
<1>7. h \in Rounds /\ h.info[q] = n /\ Apart(k, h, q) /\ Calm(k, h)
  <2>1. h = Sat(k, q, n)
    OBVIOUS
  <2> HIDE DEF h, k
  <2>2. n.left = k.info[q].left
    BY <1>4, <1>6
  <2>3. k \in Rounds /\ n \in Seat
    BY <1>4, <1>5
  <2> QED
    BY <2>1, <2>2, <2>3, SeatOnly
<1> HIDE DEF h, k
<1>8. /\ h.deck = g.deck /\ h.burn = g.burn /\ h.info[p] = r /\ h.info[q] = n
      /\ \A i \in Ladies : i \notin {p, q} => h.info[i] = g.info[i]
  BY <1>5, <1>7 DEF Apart
<1>9. Keeps(g, h)
  <2>1. \A i \in Ladies : /\ i \notin {p, q} => h.info[i].hand = g.info[i].hand
                          /\ h.info[i].discards = g.info[i].discards
    BY <1>3, <1>4, <1>8
  <2> QED
    BY <1>3, <1>4, <1>8, <2>1, HandsSwapped DEF a, b
<1>10. OneEach(h)
  <2>1. g.info[p].alive = TRUE /\ g.info[q].alive = TRUE
    BY OneOrNone
  <2>2. Fits(r) /\ Fits(n)
    BY <1>3, <1>4, <2>1 DEF Fits, a, b
  <2>3. \A i \in Ladies : Fits(g.info[i])
    BY DEF OneEach, Fits
  <2>4. \A i \in Ladies : Fits(h.info[i])
    BY <1>8, <2>2, <2>3
  <2> QED
    BY <2>4 DEF OneEach, Fits
<1>11. Calm(g, h)
  BY <1>5, <1>7 DEF Calm
<1>12. \A i \in Ladies : h.info[i].protect = g.info[i].protect
  BY <1>3, <1>4, <1>8
<1>13. Turned(g, h)
  BY <1>7, <1>8, <1>9, <1>10, <1>11, <1>12 DEF Turned
<1> QED
  BY <1>2, <1>13

\* What p leaves behind who has thrown a card in g: somebody may be to choose then.
Played(g, h, p) ==
    /\ h \in Rounds /\ Keeps(g, h) /\ OneEach(h)
    /\ h.deck # <<>> => h.burn = g.burn
    /\ h.current = g.current /\ \A q \in Ladies : h.info[q].left = g.info[q].left
    /\ \/ h.bishop = g.bishop /\ h.m = g.m
       \/ /\ h.bishop \in Ladies \ {p} /\ Len(h.info[h.bishop].hand) = 1 /\ h.burn = g.burn
          /\ h.m = Mask!UnsetReady(Mask!SetReady(g.m, p), h.bishop)

\* The flatterer's target can be reached.
Flattered(g) == g.sycophant # Nobody => Reachable(g, g.sycophant)

\* A card that only changes hands is played.
LEMMA TurnedPlayed ==
  ASSUME NEW g, NEW h, NEW p, Turned(g, h)
  PROVE  Played(g, h, p)
BY DEF Turned, Played, Calm

\* A seat with another mark.
Marked(r, n) ==
    /\ n \in Seat /\ n.hand = r.hand /\ n.discards = r.discards /\ n.alive = r.alive
    /\ n.left = r.left

\* So is one that leaves no more than a mark on the seat of who plays it.
LEMMA MarkPlayed ==
  ASSUME NEW g \in Rounds, OneEach(g), NEW p \in Ladies, NEW n, Marked(g.info[p], n)
  PROVE  Played(g, Sat(g, p, n), p)
<1> DEFINE h == Sat(g, p, n)
<1>1. h \in Rounds /\ h.info[p] = n /\ Apart(g, h, p) /\ Calm(g, h)
  BY SeatOnly DEF Marked
<1> HIDE DEF h
<1>2. \A q \in Ladies : /\ h.info[q].hand = g.info[q].hand
                        /\ h.info[q].discards = g.info[q].discards
                        /\ h.info[q].alive = g.info[q].alive
  BY <1>1 DEF Apart, Marked
<1>3. Keeps(g, h)
  BY <1>1, <1>2, MarksOnly DEF Apart
<1>4. OneEach(h)
  BY <1>2 DEF OneEach
<1>5. Played(g, h, p)
  BY <1>1, <1>3, <1>4 DEF Played, Apart, Calm
<1> QED
  BY <1>5 DEF h

\* Handmaid.
LEMMA HandmaidIsPlayed ==
  ASSUME NEW g \in Rounds, OneEach(g), NEW p \in Ladies
  PROVE  Played(g, [g EXCEPT !.info[p].protect = TRUE], p)
<1> DEFINE n == [g.info[p] EXCEPT !.protect = TRUE]
<1>1. Marked(g.info[p], n)
  BY SeatShape DEF Marked, Seat
<1>2. [g EXCEPT !.info[p].protect = TRUE] = Sat(g, p, n)
  BY DEF Sat
<1> HIDE DEF n
<1> QED
  BY <1>1, <1>2, MarkPlayed

\* Jester.
LEMMA JesterIsPlayed ==
  ASSUME NEW g \in Rounds, OneEach(g), NEW p \in Ladies, NEW t \in Ladies \cup {Nobody}
  PROVE  Played(g, [g EXCEPT !.info[p].bet = t], p)
<1> DEFINE n == [g.info[p] EXCEPT !.bet = t]
<1>1. Marked(g.info[p], n)
  BY SeatShape DEF Marked, Seat
<1>2. [g EXCEPT !.info[p].bet = t] = Sat(g, p, n)
  BY DEF Sat
<1> HIDE DEF n
<1> QED
  BY <1>1, <1>2, MarkPlayed

\* Sycophant.
LEMMA SycophantIsPlayed ==
  ASSUME NEW g \in Rounds, OneEach(g), NEW p \in Ladies, NEW t \in Ladies \cup {Nobody}
  PROVE  /\ Played(g, [g EXCEPT !.sycophant = t], p)
         /\ (t # Nobody => Reachable(g, t)) => Flattered([g EXCEPT !.sycophant = t])
         /\ [g EXCEPT !.sycophant = t].bishop = g.bishop
<1> DEFINE h == [g EXCEPT !.sycophant = t]
<1>1. /\ h \in Rounds /\ h.info = g.info /\ h.deck = g.deck /\ h.burn = g.burn
      /\ h.bishop = g.bishop /\ h.m = g.m /\ h.current = g.current /\ h.sycophant = t
  BY DEF Rounds
<1> HIDE DEF h
<1>2. Keeps(g, h)
  BY <1>1, MarksOnly
<1>3. Played(g, h, p)
  BY <1>1, <1>2 DEF Played, OneEach
<1>4. (t # Nobody => Reachable(g, t)) => Flattered(h)
  BY <1>1 DEF Flattered, Reachable
<1> QED
  BY <1>1, <1>3, <1>4 DEF h

\* Bishop: after a right guess the target is awaited, and nobody else is.
LEMMA BishopIsPlayed ==
  ASSUME NEW g \in Rounds, OneEach(g), NEW p \in Ladies, NEW t \in Ladies, p # t,
         Len(g.info[t].hand) = 1, NEW guess
  PROVE  Played(g, BishopGuess(g, p, t, guess), p)
<1> DEFINE n == [g.info[p] EXCEPT !.scores = g.info[p].scores + 1]
           k == Sat(g, p, n)
           m == Mask!UnsetReady(Mask!SetReady(g.m, p), t)
           h == [k EXCEPT !.bishop = t, !.m = m]
<1>1. CASE ~(g.info[t].hand # <<>> /\ HandValue(g.info[t]) = guess)
  BY <1>1, NothingTurned, TurnedPlayed DEF BishopGuess
<1>2. CASE g.info[t].hand # <<>> /\ HandValue(g.info[t]) = guess
  <2>1. BishopGuess(g, p, t, guess) = h
    BY <1>2 DEF BishopGuess, Sat, Rounds
  <2>2. Marked(g.info[p], n)
    <3>1. g.info[p].scores + 1 \in Nat /\ g.info[p] \in Seat
      BY SeatShape
    <3> DEFINE i == g.info[p].scores + 1
    <3>2. i \in Nat /\ n = [g.info[p] EXCEPT !.scores = i]
      BY <3>1
    <3> HIDE DEF i, n
    <3> QED
      BY <3>1, <3>2 DEF Marked, Seat
  <2>3. m \in Mask!Masker
    BY DEF Mask!UnsetReady, Mask!SetReady, Mask!Masker, Rounds
  <2> HIDE DEF n, m
  <2>4. k \in Rounds /\ k.info[p] = n /\ Apart(g, k, p) /\ Calm(g, k)
    BY <2>2, SeatOnly DEF Marked
  <2>5. Played(g, k, p)
    BY <2>2, MarkPlayed
  <2> HIDE DEF k
  <2>6. /\ h \in Rounds /\ h.info = k.info /\ h.deck = k.deck /\ h.burn = k.burn
        /\ h.bishop = t /\ h.m = m /\ h.current = k.current
    BY <2>3, <2>4 DEF Rounds
  <2> HIDE DEF h
  <2>7. Keeps(k, h)
    BY <2>6, MarksOnly
  <2>8. Keeps(g, h)
    BY <2>5, <2>7, KeepsOn DEF Played
  <2>9. Len(h.info[t].hand) = 1
    BY <2>4, <2>6 DEF Apart
  <2>10. h.burn = g.burn /\ OneEach(h) /\ h.current = g.current
         /\ \A q \in Ladies : h.info[q].left = g.info[q].left
    BY <2>4, <2>5, <2>6 DEF Apart, Played, OneEach
  <2>11. Played(g, h, p)
    BY <2>6, <2>8, <2>9, <2>10 DEF Played, m
  <2> QED
    BY <2>1, <2>11
<1> QED
  BY <1>1, <1>2

\* No player has the number of nobody.
LEMMA NobodyIsNone ==
  ASSUME LetterAssumption
  PROVE  Nobody \notin Ladies
BY DEF Ladies, Nobody, LetterAssumption

\* Who is reached has a card.
LEMMA ReachedHasOne ==
  ASSUME NEW g \in Rounds, OneEach(g), NEW t, Reachable(g, t)
  PROVE  t \in Ladies /\ Len(g.info[t].hand) = 1
<1>1. t \in Ladies
  BY DEF Reachable
<1>2. g.info[t].alive \in BOOLEAN
  BY <1>1, SeatShape
<1>3. g.info[t].alive = TRUE
  BY <1>2 DEF Reachable
<1> QED
  BY <1>1, <1>3, OneOrNone

\* A target that is named can be reached, and is another unless the card allows it.
LEMMA TargetIsThere ==
  ASSUME NEW g \in Rounds, OneEach(g), NEW p, NEW kind, NEW t, t # Nobody, ValidTarget(g, p, kind, t)
  PROVE  /\ t \in Ladies /\ Reachable(g, t) /\ Len(g.info[t].hand) = 1
         /\ ~SelfOK(kind) => t # p
<1>1. Reachable(g, t) /\ (t = p => SelfOK(kind))
  BY DEF ValidTarget
<1> QED
  BY <1>1, ReachedHasOne

\* Who may play a card upon himself cannot be without a target.
LEMMA SelfIsThere ==
  ASSUME NEW g, NEW p, NEW kind, SelfOK(kind), NEW t, ValidTarget(g, p, kind, t),
         Reachable(g, p), Flattered(g), LetterAssumption
  PROVE  t # Nobody
<1>0. Nobody \notin Ladies
  BY NobodyIsNone
<1>1. kind # "cardinal"
  BY DEF SelfOK
<1>2. CASE g.sycophant # Nobody
  <2>1. Reachable(g, g.sycophant)
    BY <1>2 DEF Flattered
  <2>2. ~(kind = "cardinal" \/ g.info[g.sycophant].protect
             \/ (~SelfOK(kind) /\ g.sycophant = p))
    BY <1>1, <2>1 DEF Reachable
  <2>3. Reachable(g, t)
    BY <1>2, <2>2 DEF ValidTarget
  <2> QED
    BY <1>0, <2>3 DEF Reachable
<1>3. CASE g.sycophant = Nobody
  <2>1. p \in Ladies
    BY DEF Reachable
  <2>2. ~(\A i \in Ladies : Reachable(g, i) => i = p /\ ~SelfOK(kind))
    BY <2>1
  <2>3. Reachable(g, t)
    BY <1>3, <2>2 DEF ValidTarget
  <2> QED
    BY <1>0, <2>3 DEF Reachable
<1> QED
  BY <1>2, <1>3

\* Whatever is played and accepted, no card is lost.
LEMMA ResolvedIsPlayed ==
  ASSUME LetterAssumption, NEW g \in Rounds, OneEach(g), SomeLeft(g),
         NEW p \in Ladies, Reachable(g, p), Flattered(g),
         NEW kind, NEW t \in Ladies \cup {Nobody}, NEW extra, Allowed(g, p, kind, t, extra)
  PROVE  /\ Played(g, Resolve(g, p, kind, t, extra), p)
         /\ kind = "sycophant" => /\ Flattered(Resolve(g, p, kind, t, extra))
                                  /\ Resolve(g, p, kind, t, extra).bishop = g.bishop
<1> DEFINE h == Resolve(g, p, kind, t, extra)
<1>0. Len(g.info[p].hand) = 1
  BY ReachedHasOne
<1>1. CASE kind = "handmaid"
  <2>1. h = [g EXCEPT !.info[p].protect = TRUE]
    BY <1>1 DEF Resolve
  <2> QED
    BY <1>1, <2>1, HandmaidIsPlayed
<1>2. CASE kind = "princess"
  <2>1. h = Eliminated(g, p)
    BY <1>2 DEF Resolve
  <2> QED
    BY <1>2, <2>1, OutTurned, TurnedPlayed
<1>3. CASE kind = "prince"
  <2>1. h = Prince(g, t) /\ ValidTarget(g, p, kind, t) /\ SelfOK(kind)
    BY <1>3 DEF Resolve, Allowed, SelfOK
  <2>2. t # Nobody
    BY <2>1, SelfIsThere
  <2>3. t \in Ladies /\ Len(g.info[t].hand) = 1
    BY <2>1, <2>2, TargetIsThere
  <2> QED
    BY <1>3, <2>1, <2>3, PrinceIsPlayed, TurnedPlayed
<1>4. CASE kind = "jester"
  <2>1. h = [g EXCEPT !.info[p].bet = t]
    BY <1>4 DEF Resolve
  <2> QED
    BY <1>4, <2>1, JesterIsPlayed
<1>5. CASE kind = "sycophant"
  <2>1. h = [g EXCEPT !.sycophant = t] /\ ValidTarget(g, p, kind, t)
    BY <1>5 DEF Resolve, Allowed
  <2>2. t # Nobody => Reachable(g, t)
    BY <2>1, TargetIsThere
  <2> QED
    BY <1>5, <2>1, <2>2, SycophantIsPlayed
<1> DEFINE Others == {"guard", "baron", "dowager", "king", "cardinal", "bishop"}
<1>6. ASSUME kind \in Others, t # Nobody
      PROVE  Played(g, h, p)
  <2>1. ValidTarget(g, p, kind, t) /\ ~SelfOK(kind)
    BY <1>6 DEF Allowed, SelfOK
  <2>2. t \in Ladies /\ Len(g.info[t].hand) = 1 /\ t # p
    BY <1>6, <2>1, TargetIsThere
  <2>3. CASE kind = "guard"
    <3>1. h = Guard(g, p, t, extra)
      BY <1>6, <2>3 DEF Resolve
    <3> QED
      BY <2>2, <3>1, GuardIsPlayed, TurnedPlayed
  <2>4. CASE kind = "baron"
    <3>1. h = Duel(g, p, t, TRUE)
      BY <1>6, <2>4 DEF Resolve
    <3> QED
      BY <2>2, <3>1, DuelIsFought, TurnedPlayed
  <2>5. CASE kind = "dowager"
    <3>1. h = Duel(g, p, t, FALSE)
      BY <1>6, <2>5 DEF Resolve
    <3> QED
      BY <2>2, <3>1, DuelIsFought, TurnedPlayed
  <2>6. CASE kind = "king"
    <3>1. h = Swapped(g, p, t)
      BY <1>6, <2>6 DEF Resolve
    <3> QED
      BY <1>0, <2>2, <3>1, SwappedTurned, TurnedPlayed
  <2>7. CASE kind = "cardinal"
    <3>1. h = Swapped(g, t, extra) /\ Second(g, t, extra)
      BY <1>6, <2>7 DEF Resolve, Allowed
    <3>2. extra # t /\ extra \in Ladies /\ Len(g.info[extra].hand) = 1
      BY <3>1, ReachedHasOne DEF Second
    <3> QED
      BY <2>2, <3>1, <3>2, SwappedTurned, TurnedPlayed
  <2>8. CASE kind = "bishop"
    <3>1. h = BishopGuess(g, p, t, extra)
      BY <1>6, <2>8 DEF Resolve
    <3> QED
      BY <2>2, <3>1, BishopIsPlayed
  <2> QED
    BY <1>6, <2>3, <2>4, <2>5, <2>6, <2>7, <2>8
<1>7. CASE kind \notin {"handmaid", "princess", "prince", "jester", "sycophant"}
            /\ ~(kind \in Others /\ t # Nobody)
  <2>1. h = g
    BY <1>7 DEF Resolve
  <2> QED
    BY <1>7, <2>1, NothingTurned, TurnedPlayed
<1> QED
  BY <1>1, <1>2, <1>3, <1>4, <1>5, <1>6, <1>7

-----------------------------------------------------------------------------
(* Who is awaited.                                                          *)

\* Nobody has left, and whoever is not in S has acted.
Heard(m, S) ==
    /\ m \in Mask!Masker /\ m.allPermanent = FALSE
    /\ \A q \in Ladies : m.active[q] = "ACTIVE"
    /\ \A q \in Ladies \ S : m.ready[q] = TRUE

\* p alone is awaited.
Awaits(m, p) == Heard(m, {p}) /\ m.ready[p] = FALSE

\* While somebody is awaited the stage is not over.
LEMMA AwaitedNotOk ==
  ASSUME NEW m, NEW p \in Ladies, Awaits(m, p)
  PROVE  ~Mask!Ok(m)
<1>1. m.allPermanent = FALSE /\ m.active[p] = "ACTIVE" /\ m.ready[p] = FALSE
  BY DEF Awaits, Heard
<1> QED
  BY <1>1 DEF Mask!Ok

\* What a masker is made of.
LEMMA MaskerShape ==
  ASSUME NEW m \in Mask!Masker
  PROVE  /\ m = [active |-> m.active, ready |-> m.ready, anyReady |-> m.anyReady,
                 allPermanent |-> m.allPermanent]
         /\ m.ready \in [Ladies -> BOOLEAN] /\ m.active \in [Ladies -> Mask!ActiveState]
         /\ m.anyReady \in BOOLEAN /\ m.allPermanent \in BOOLEAN
BY DEF Mask!Masker

\* Who acts is awaited no longer.
LEMMA HeardMore ==
  ASSUME NEW m, NEW S, Heard(m, S), NEW p \in Ladies
  PROVE  Heard(Mask!SetReady(m, p), S \ {p})
<1> DEFINE r == [m.ready EXCEPT ![p] = TRUE]
           n == Mask!SetReady(m, p)
<1>1. m \in Mask!Masker
  BY DEF Heard
<1>2. r \in [Ladies -> BOOLEAN] /\ r[p] = TRUE /\ \A q \in Ladies : q # p => r[q] = m.ready[q]
  BY <1>1, MaskerShape
<1>3. n = [m EXCEPT !.ready = r, !.anyReady = TRUE]
  BY DEF Mask!SetReady
<1> HIDE DEF r, n
<1>4. n \in Mask!Masker /\ n.ready = r /\ n.active = m.active /\ n.allPermanent = m.allPermanent
  BY <1>1, <1>2, <1>3 DEF Mask!Masker
<1>5. \A q \in Ladies \ (S \ {p}) : n.ready[q] = TRUE
  BY <1>2, <1>4 DEF Heard
<1>6. Heard(n, S \ {p})
  BY <1>4, <1>5 DEF Heard
<1> QED
  BY <1>6 DEF n

\* Who is asked is awaited.
LEMMA HeardLess ==
  ASSUME NEW m, NEW S, Heard(m, S), NEW p \in Ladies
  PROVE  /\ Heard(Mask!UnsetReady(m, p), S \cup {p})
         /\ Mask!UnsetReady(m, p).ready[p] = FALSE
<1> DEFINE r == [m.ready EXCEPT ![p] = FALSE]
           n == Mask!UnsetReady(m, p)
<1>1. m \in Mask!Masker
  BY DEF Heard
<1>2. r \in [Ladies -> BOOLEAN] /\ r[p] = FALSE /\ \A q \in Ladies : q # p => r[q] = m.ready[q]
  BY <1>1, MaskerShape
<1>3. n = [m EXCEPT !.ready = r, !.anyReady = FALSE]
  BY DEF Mask!UnsetReady
<1> HIDE DEF r, n
<1>4. n \in Mask!Masker /\ n.ready = r /\ n.active = m.active /\ n.allPermanent = m.allPermanent
  BY <1>1, <1>2, <1>3 DEF Mask!Masker
<1>5. \A q \in Ladies \ (S \cup {p}) : n.ready[q] = TRUE
  BY <1>2, <1>4 DEF Heard
<1>6. Heard(n, S \cup {p}) /\ n.ready[p] = FALSE
  BY <1>2, <1>4, <1>5 DEF Heard
<1> QED
  BY <1>6 DEF n

\* When p has acted who was awaited, or may not have, another is awaited.
LEMMA AwaitNext ==
  ASSUME NEW m, NEW p \in Ladies, NEW q \in Ladies, Heard(m, {p})
  PROVE  /\ Awaits(Mask!UnsetReady(Mask!SetReady(m, p), q), q)
         /\ Heard(Mask!SetReady(m, p), {})
<1>1. Heard(Mask!SetReady(m, p), {p} \ {p})
  BY HeardMore
<1>2. {p} \ {p} = {} /\ {} \cup {q} = {q}
  OBVIOUS
<1>3. Heard(Mask!SetReady(m, p), {})
  BY <1>1, <1>2
<1>4. /\ Heard(Mask!UnsetReady(Mask!SetReady(m, p), q), {} \cup {q})
      /\ Mask!UnsetReady(Mask!SetReady(m, p), q).ready[q] = FALSE
  BY <1>3, HeardLess
<1> QED
  BY <1>2, <1>3, <1>4 DEF Awaits

\* When all have been heard and q is asked, q alone is awaited.
LEMMA NextAwaited ==
  ASSUME NEW m, NEW q \in Ladies, Heard(m, {})
  PROVE  Awaits(Mask!UnsetReady(m, q), q)
<1>1. {} \cup {q} = {q}
  OBVIOUS
<1>4. Heard(Mask!UnsetReady(m, q), {} \cup {q}) /\ Mask!UnsetReady(m, q).ready[q] = FALSE
  BY HeardLess
<1> QED
  BY <1>1, <1>4 DEF Awaits

-----------------------------------------------------------------------------
(* Turns.                                                                   *)

NoneLeft(g) == \A q \in Ladies : g.info[q].left = FALSE

\* The hands as they are during the turn of p.
DrawnFor(g, p) ==
    \A q \in Ladies :
       Len(g.info[q].hand) = IF ~g.info[q].alive THEN 0 ELSE IF q = p THEN 2 ELSE 1

\* A turn is over: whose it was may be counted as ready or not.
TurnDone(g) ==
    /\ g \in Rounds /\ OneEach(g) /\ NoneLeft(g) /\ g.bishop = Nobody /\ Flattered(g)
    /\ g.deck # <<>> => g.burn # NoCard
    /\ Heard(g.m, {g.current})

\* Somebody is awaited: whose turn it is, or the target of the bishop.
Turning(g) ==
    /\ g.bishop = Nobody /\ DrawnFor(g, g.current) /\ Reachable(g, g.current)
    /\ Flattered(g) /\ Awaits(g.m, g.current)
Choosing(g) ==
    /\ g.bishop \in Ladies \ {g.current} /\ OneEach(g) /\ Len(g.info[g.bishop].hand) = 1
    /\ g.sycophant = Nobody /\ Awaits(g.m, g.bishop)
Waiting(g) ==
    /\ g \in Rounds /\ g.burn # NoCard /\ NoneLeft(g)
    /\ Turning(g) \/ Choosing(g)

\* DrawAndNotify_: when all have one card, the next player has two and is awaited.
LEMMA TurnBegins ==
  ASSUME NEW g \in Rounds, OneEach(g), NoneLeft(g), g.bishop = Nobody, Flattered(g),
         g.deck # <<>>, g.burn # NoCard, NEW p \in Ladies, g.current = p,
         Len(g.info[p].hand) = 1, Heard(g.m, {})
  PROVE  Waiting(TurnOf(g, p)) /\ Keeps(g, TurnOf(g, p)) /\ TurnOf(g, p).bishop = Nobody
<1> DEFINE h == Draw(g, p)
           n == [h.info[p] EXCEPT !.protect = FALSE]
           k == Sat(h, p, n)
           m == Mask!UnsetReady(h.m, p)
           f == [k EXCEPT !.m = m]
<1>1. Drew(g, h, p)
  BY DrawIsDone
<1>2. TurnOf(g, p) = f
  BY DEF TurnOf, Sat
<1> HIDE DEF h
<1>3. h \in Rounds /\ Keeps(g, h) /\ Calm(g, h)
  BY <1>1 DEF Drew
<1>4. Awaits(m, p)
  BY <1>3, NextAwaited DEF Calm
<1>5. Marked(h.info[p], n) /\ n.protect = FALSE
  <2>1. h.info[p] \in Seat
    BY <1>3, SeatShape
  <2> QED
    BY <2>1 DEF Marked, Seat
<1>6. m \in Mask!Masker
  BY <1>4 DEF Awaits, Heard
<1> HIDE DEF n, m
<1>7. k \in Rounds /\ k.info[p] = n /\ Apart(h, k, p) /\ Calm(h, k)
  BY <1>3, <1>5, SeatOnly DEF Marked
<1> HIDE DEF k
<1>8. /\ f \in Rounds /\ f.info = k.info /\ f.deck = k.deck /\ f.burn = k.burn
      /\ f.bishop = k.bishop /\ f.m = m /\ f.current = k.current /\ f.sycophant = k.sycophant
  BY <1>6, <1>7 DEF Rounds
<1> HIDE DEF f
<1>9. \A q \in Ladies : /\ f.info[q].hand = h.info[q].hand
                        /\ f.info[q].discards = h.info[q].discards
                        /\ f.info[q].alive = h.info[q].alive
                        /\ f.info[q].left = h.info[q].left
                        /\ f.info[q].protect = FALSE \/ f.info[q].protect = h.info[q].protect
  BY <1>5, <1>7, <1>8 DEF Apart, Marked
<1>10. Keeps(g, f)
  <2>1. f.deck = h.deck /\ f.burn = h.burn
    BY <1>7, <1>8 DEF Apart
  <2>2. Keeps(h, f)
    BY <1>9, <2>1, MarksOnly
  <2> QED
    BY <1>3, <2>2, KeepsOn
<1>11. g.info[p].alive = TRUE
  BY OneOrNone
<1>12. f.info[p].alive = TRUE /\ f.info[p].protect = FALSE /\ Len(f.info[p].hand) = 2
  BY <1>1, <1>5, <1>7, <1>8, <1>9, <1>11 DEF Drew
<1>13. DrawnFor(f, p)
  <2> SUFFICES ASSUME NEW q \in Ladies
               PROVE  Len(f.info[q].hand) = IF ~f.info[q].alive THEN 0 ELSE IF q = p THEN 2 ELSE 1
    BY DEF DrawnFor
  <2>1. CASE q = p
    BY <1>12, <2>1
  <2>2. CASE q # p
    <3>1. Fits(g.info[q])
      BY DEF OneEach, Fits
    <3>2. h.info[q] = g.info[q]
      BY <1>1, <2>2 DEF Drew
    <3>3. f.info[q].hand = g.info[q].hand /\ f.info[q].alive = g.info[q].alive
      BY <1>9, <3>2
    <3>4. Fits(f.info[q])
      BY <3>1, <3>3 DEF Fits
    <3> QED
      BY <2>2, <3>4 DEF Fits
  <2> QED
    BY <2>1, <2>2
<1>14. Reachable(f, p)
  BY <1>12 DEF Reachable
<1>15. \A q \in Ladies : Reachable(g, q) => Reachable(f, q)
  <2>1. \A q \in Ladies : /\ f.info[q].alive = g.info[q].alive
                          /\ f.info[q].protect = FALSE \/ f.info[q].protect = g.info[q].protect
    BY <1>1, <1>9 DEF Drew
  <2> QED
    BY <2>1 DEF Reachable
<1>16. Flattered(f)
  <2>1. f.sycophant = g.sycophant
    BY <1>3, <1>7, <1>8 DEF Calm
  <2>2. g.sycophant # Nobody => g.sycophant \in Ladies
    BY DEF Flattered, Reachable
  <2> QED
    BY <1>15, <2>1, <2>2 DEF Flattered
<1>17. NoneLeft(f)
  BY <1>3, <1>9 DEF NoneLeft, Calm
<1>18. f.bishop = Nobody /\ f.current = p
  BY <1>3, <1>7, <1>8 DEF Calm
<1>19. f.burn # NoCard
  BY <1>1, <1>7, <1>8 DEF Drew, Apart
<1>20. Turning(f)
  BY <1>4, <1>8, <1>13, <1>14, <1>16, <1>18 DEF Turning
<1> QED
  BY <1>2, <1>8, <1>10, <1>17, <1>18, <1>19, <1>20 DEF Waiting

\* The next player is one who is in.
LEMMA NextIsAlive ==
  ASSUME LetterAssumption, NEW g \in Rounds, NEW p \in Ladies, g.info[p].alive = TRUE
  PROVE  NextAlive(g) \in Ladies /\ g.info[NextAlive(g)].alive
<1> DEFINE at(k) == (g.current + k) % Guests
           K == {k \in 1 .. Guests : g.info[at(k)].alive}
           c == g.current
           d == IF p > c THEN p - c ELSE p + Guests - c
<1>1. Guests \in Nat \ {0} /\ c \in 0 .. Guests - 1 /\ p \in 0 .. Guests - 1
  BY DEF LetterAssumption, Ladies, Rounds
<1>2. d \in 1 .. Guests /\ (c + d = p \/ c + d = p + Guests)
  BY <1>1
<1>3. p % Guests = p /\ (p + Guests) % Guests = p
  <2> HIDE DEF d, c
  <2>1. \A n \in Nat \ {0} : \A i \in 0 .. n - 1 : i % n = i /\ (i + n) % n = i
    OBVIOUS
  <2> QED
    BY <1>1, <2>1
<1>4. at(d) = p
  <2> HIDE DEF d
  <2> QED
    BY <1>2, <1>3
<1>5. d \in K
  BY <1>2, <1>4
<1>6. NextAlive(g) = at(Min(K))
  BY DEF NextAlive
<1> HIDE DEF at, d
<1>7. Min(K) \in K
  <2>1. K # {} /\ K \subseteq Nat
    BY <1>5
  <2> HIDE DEF K
  <2>2. \E x \in K : \A y \in K : x <= y
    BY <2>1, LeastNumber
  <2> QED
    BY <2>2 DEF Min
<1>8. \A k \in 1 .. Guests : at(k) \in Ladies
  <2> SUFFICES ASSUME NEW k \in 1 .. Guests
               PROVE  at(k) \in Ladies
    OBVIOUS
  <2>1. c + k \in Nat
    BY <1>1
  <2>2. \A n \in Nat \ {0} : \A i \in Nat : i % n \in 0 .. n - 1
    OBVIOUS
  <2>3. (c + k) % Guests \in 0 .. Guests - 1
    BY <1>1, <2>1, <2>2
  <2> QED
    BY <2>3 DEF at, Ladies
<1>9. Min(K) \in 1 .. Guests /\ g.info[at(Min(K))].alive
  BY <1>7
<1> QED
  BY <1>6, <1>8, <1>9

\* More than one is in.
LEMMA SomebodyLives ==
  ASSUME NEW g \in Rounds, ~RoundEnds(g)
  PROVE  g.deck # <<>> /\ \E p \in Ladies : g.info[p].alive = TRUE
<1>1. g.deck # <<>> /\ Living(g) # {}
  <2>1. g.deck # <<>> /\ ~(Cardinality(Living(g)) <= 1)
    BY DEF RoundEnds
  <2>2. Cardinality({}) = 0
    BY FS_EmptySet
  <2>3. Living(g) = {} => Cardinality(Living(g)) = 0
    BY <2>2
  <2> QED
    BY <2>1, <2>3
<1>2. \A p \in Ladies : g.info[p].alive \in BOOLEAN
  BY SeatShape
<1>3. PICK p \in Ladies : g.info[p].alive
  BY <1>1 DEF Living
<1>4. g.info[p].alive = TRUE
  BY <1>2, <1>3
<1> QED
  BY <1>1, <1>4

\* The turn goes to the next.
LEMMA TurnGoesOn ==
  ASSUME LetterAssumption, NEW g, TurnDone(g), ~RoundEnds(g)
  PROVE  Waiting(AfterPlay(g)) /\ Keeps(g, AfterPlay(g))
<1> DEFINE n == NextAlive(g)
           m == Mask!SetReady(g.m, g.current)
           k == [g EXCEPT !.m = m, !.current = n]
<1>1. /\ g \in Rounds /\ OneEach(g) /\ NoneLeft(g) /\ g.bishop = Nobody /\ Flattered(g)
      /\ g.deck # <<>> /\ g.burn # NoCard /\ Heard(g.m, {g.current}) /\ g.current \in Ladies
  <2>1. g.deck # <<>> /\ g \in Rounds
    BY SomebodyLives DEF TurnDone
  <2> QED
    BY <2>1 DEF TurnDone, Rounds
<1>2. n \in Ladies /\ g.info[n].alive = TRUE
  <2>1. n \in Ladies /\ g.info[n].alive
    BY <1>1, SomebodyLives, NextIsAlive
  <2> HIDE DEF n
  <2>2. g.info[n].alive \in BOOLEAN
    BY <1>1, <2>1, SeatShape
  <2> QED
    BY <2>1, <2>2
<1>3. AfterPlay(g) = TurnOf(k, n)
  BY DEF AfterPlay
<1> HIDE DEF n
<1>4. Heard(m, {})
  BY <1>1, <1>2, AwaitNext
<1>5. m \in Mask!Masker
  BY <1>4 DEF Heard
<1> HIDE DEF m
<1>6. /\ k \in Rounds /\ k.info = g.info /\ k.deck = g.deck /\ k.burn = g.burn
      /\ k.bishop = Nobody /\ k.m = m /\ k.current = n /\ k.sycophant = g.sycophant
  BY <1>1, <1>2, <1>5 DEF Rounds
<1> HIDE DEF k
<1>7. OneEach(k) /\ NoneLeft(k) /\ Flattered(k)
  BY <1>1, <1>6 DEF OneEach, NoneLeft, Flattered, Reachable
<1>8. Len(k.info[n].hand) = 1
  BY <1>2, <1>6, <1>7, OneOrNone
<1>9. Waiting(TurnOf(k, n)) /\ Keeps(k, TurnOf(k, n))
  BY <1>1, <1>2, <1>4, <1>6, <1>7, <1>8, TurnBegins
<1>10. Keeps(g, k)
  BY <1>6, MarksOnly
<1> QED
  BY <1>3, <1>9, <1>10, KeepsOn

\* Who wins is one of the players.
LEMMA WinnerIsThere ==
  ASSUME LetterAssumption, NEW g
  PROVE  Winner(g) \in Ladies
<1>0. 0 \in Ladies /\ Ladies \subseteq Nat
  BY DEF Ladies, LetterAssumption
<1> DEFINE value(p) == HandValue(g.info[p])
                         + (IF "count" \in KindsOf(g.info[p].discards) THEN 1 ELSE 0)
           best == {p \in Living(g) : \A q \in Living(g) : value(q) <= value(p)}
           sum(p) == SumOf(g.info[p].discards)
           laid == {p \in best : sum(p) > 0 /\ \A q \in best : sum(q) <= sum(p)}
<1>1. Winner(g) = IF Cardinality(Living(g)) = 1 THEN CHOOSE p \in Living(g) : TRUE
                  ELSE IF Cardinality(best) = 1 THEN CHOOSE p \in best : TRUE
                  ELSE IF laid # {} THEN Min(laid) ELSE 0
  BY DEF Winner
<1>2. Living(g) \subseteq Ladies
  BY DEF Living
<1>3. best \subseteq Ladies /\ laid \subseteq Ladies
  BY <1>2
<1> HIDE DEF best, laid
<1>4. \A T : Cardinality(T) = 1 => (CHOOSE p \in T : TRUE) \in T
  <2> SUFFICES ASSUME NEW T, Cardinality(T) = 1
               PROVE  (CHOOSE p \in T : TRUE) \in T
    OBVIOUS
  <2>1. T # {}
    BY FS_EmptySet
  <2> QED
    BY <2>1
<1>5. laid # {} => Min(laid) \in laid
  <2> SUFFICES ASSUME laid # {}
               PROVE  Min(laid) \in laid
    OBVIOUS
  <2>1. \E x \in laid : \A y \in laid : x <= y
    BY <1>0, <1>3, LeastNumber
  <2> QED
    BY <2>1 DEF Min
<1>6. Cardinality(Living(g)) = 1 => (CHOOSE p \in Living(g) : TRUE) \in Ladies
  BY <1>2, <1>4
<1>7. Cardinality(best) = 1 => (CHOOSE p \in best : TRUE) \in Ladies
  BY <1>3, <1>4
<1>8. laid # {} => Min(laid) \in Ladies
  BY <1>3, <1>5
<1> HIDE DEF value, sum
<1> QED
  BY <1>0, <1>1, <1>6, <1>7, <1>8

\* What the end of a round leaves behind.
Ended(h) == h \in Rounds /\ NoneLeft(h) /\ Heard(h.m, Ladies)

\* A point more is no more than a mark.
LEMMA MorePoints ==
  ASSUME NEW r \in Seat, NEW n, n = [r EXCEPT !.scores = r.scores + 1]
  PROVE  Marked(r, n)
<1> DEFINE i == r.scores + 1
<1>1. i \in Nat /\ n = [r EXCEPT !.scores = i]
  BY DEF Seat
<1> HIDE DEF i
<1> QED
  BY <1>1 DEF Marked, Seat

\* The winner gets a point, and perhaps those who have bet on him.
LEMMA RoundIsEnded ==
  ASSUME LetterAssumption, NEW g \in Rounds, NoneLeft(g), Heard(g.m, Ladies)
  PROVE  Ended(Honoured(g))
<1> DEFINE w == Winner(g)
           n == [g.info[w] EXCEPT !.scores = g.info[w].scores + 1]
           k == Sat(g, w, n)
           h == [k EXCEPT !.first = w]
           i == [p \in Ladies |->
                   IF h.info[p].bet = w THEN [h.info[p] EXCEPT !.scores = h.info[p].scores + 1]
                   ELSE h.info[p]]
           e == [h EXCEPT !.info = i]
           h0 == [g EXCEPT !.info[w].scores = @ + 1, !.first = w]
           E(x) == [x EXCEPT !.info = [p \in Ladies |->
                       IF x.info[p].bet = w THEN [x.info[p] EXCEPT !.scores = x.info[p].scores + 1]
                       ELSE x.info[p]]]
<1>1. Honoured(g) \in {g, h, e}
  <2>1. h = h0
    BY DEF Sat
  <2>2. Honoured(g) = IF Won(g) THEN g ELSE IF h0.info[w].scores >= Hearts THEN h0 ELSE E(h0)
    BY DEF Honoured
  <2>3. E(h) = e
    OBVIOUS
  <2> HIDE DEF h, e, h0, E
  <2>4. E(h0) = e
    BY <2>1, <2>3
  <2> QED
    BY <2>1, <2>2, <2>4
<1>2. w \in Ladies
  BY WinnerIsThere
<1> HIDE DEF w
<1>3. Marked(g.info[w], n)
  BY <1>2, SeatShape, MorePoints
<1> HIDE DEF n
<1>4. k \in Rounds /\ k.info[w] = n /\ Apart(g, k, w) /\ Calm(g, k)
  BY <1>2, <1>3, SeatOnly DEF Marked
<1> HIDE DEF k
<1>5. h \in Rounds /\ h.info = k.info /\ h.m = k.m
  BY <1>2, <1>4 DEF Rounds
<1> HIDE DEF h
<1>6. Ended(h)
  BY <1>4, <1>5 DEF Ended, NoneLeft, Calm
<1>7. i \in Seats /\ \A p \in Ladies : i[p].left = h.info[p].left
  <2>1. ASSUME NEW p \in Ladies
        PROVE  Marked(h.info[p], i[p]) \/ i[p] = h.info[p]
    <3>1. h.info[p] \in Seat
      BY <1>5, SeatShape
    <3>2. Marked(h.info[p], [h.info[p] EXCEPT !.scores = h.info[p].scores + 1])
      BY <3>1, MorePoints
    <3> QED
      BY <3>2
  <2>2. \A p \in Ladies : h.info[p] \in Seat
    BY <1>5, SeatShape
  <2>3. i = [p \in Ladies |-> i[p]]
    OBVIOUS
  <2> HIDE DEF i
  <2>4. \A p \in Ladies : i[p] \in Seat /\ i[p].left = h.info[p].left
    BY <2>1, <2>2 DEF Marked
  <2> QED
    BY <2>3, <2>4 DEF Seats
<1> HIDE DEF i
<1>8. e \in Rounds /\ e.info = i /\ e.m = h.m
  BY <1>5, <1>7 DEF Rounds
<1> HIDE DEF e
<1>9. Ended(e)
  BY <1>6, <1>7, <1>8 DEF Ended, NoneLeft
<1>10. Ended(g)
  BY DEF Ended
<1> QED
  BY <1>1, <1>6, <1>9, <1>10

\* How the turn of g may have gone: it is over, or somebody is to choose.
TurnTaken(g, y) == Keeps(g, y) /\ IF y.bishop = Nobody THEN TurnDone(y) ELSE Waiting(y)

\* When a card was laid down in a turn, everybody has one.
LEMMA ThrownInTurn ==
  ASSUME NEW g, Waiting(g), Turning(g), NEW p, p = g.current,
         NEW at \in 1 .. Len(g.info[p].hand)
  PROVE  /\ p \in Ladies /\ Threw(g, Thrown(g, p, at), p)
         /\ OneEach(Thrown(g, p, at)) /\ Reachable(Thrown(g, p, at), p)
         /\ Flattered(Thrown(g, p, at)) /\ SomeLeft(Thrown(g, p, at))
         /\ NoneLeft(Thrown(g, p, at))
<1> DEFINE k == Thrown(g, p, at)
<1>1. g \in Rounds /\ p \in Ladies /\ g.burn # NoCard /\ NoneLeft(g)
  BY DEF Waiting, Rounds
<1>2. Threw(g, k, p)
  BY <1>1, ThrownAway
<1> HIDE DEF k
<1>3. Reachable(g, p) /\ DrawnFor(g, p) /\ Flattered(g)
  BY DEF Turning
<1>4. Len(k.info[p].hand) = 1
  <2>1. g.info[p].alive /\ (g.info[p].alive => Len(g.info[p].hand) = 2)
    BY <1>1, <1>3 DEF Reachable, DrawnFor
  <2>2. Len(g.info[p].hand) = 2
    BY <2>1
  <2>3. Len(k.info[p].hand) = Len(g.info[p].hand) - 1
    BY <1>2 DEF Threw
  <2> QED
    BY <2>2, <2>3
<1>5. \A q \in Ladies : /\ k.info[q].alive = g.info[q].alive
                        /\ k.info[q].protect = g.info[q].protect
                        /\ q # p => k.info[q] = g.info[q]
  BY <1>2 DEF Threw, Apart
<1>6. \A q : Reachable(g, q) => Reachable(k, q)
  BY <1>5 DEF Reachable
<1>7. OneEach(k)
  <2> SUFFICES ASSUME NEW q \in Ladies
               PROVE  Fits(k.info[q])
    BY DEF OneEach, Fits
  <2>1. CASE q = p
    <3>1. k.info[p].alive
      BY <1>3, <1>6 DEF Reachable
    <3> QED
      BY <1>4, <2>1, <3>1 DEF Fits
  <2>2. CASE q # p
    <3>1. Fits(g.info[q])
      BY <1>3, <2>2 DEF DrawnFor, Fits
    <3> QED
      BY <1>5, <2>2, <3>1
  <2> QED
    BY <2>1, <2>2
<1>8. Flattered(k)
  BY <1>2, <1>3, <1>6 DEF Flattered, Threw, Calm
<1>9. SomeLeft(k)
  BY <1>1, <1>2 DEF Threw, Apart, SomeLeft
<1>10. NoneLeft(k)
  BY <1>1, <1>2 DEF Threw, Calm, NoneLeft
<1> QED
  BY <1>1, <1>2, <1>3, <1>6, <1>7, <1>8, <1>9, <1>10 DEF k

\* Play_: after a card that is accepted the turn is over, or the bishop's target awaited.
LEMMA TurnPlayed ==
  ASSUME LetterAssumption, NEW g, Waiting(g), Turning(g), NEW p, p = g.current,
         NEW k, Threw(g, k, p), NoneLeft(k),
         NEW x, Played(k, x, p), NEW y,
         (y = x /\ Flattered(x) /\ x.bishop = Nobody) \/ y = [x EXCEPT !.sycophant = Nobody]
  PROVE  TurnTaken(g, y)
<1>1. g \in Rounds /\ p \in Ladies /\ g.burn # NoCard /\ Awaits(g.m, p) /\ g.bishop = Nobody
  BY DEF Waiting, Turning, Rounds
<1>2. /\ x \in Rounds /\ Keeps(k, x) /\ OneEach(x) /\ (x.deck # <<>> => x.burn = k.burn)
      /\ x.current = k.current /\ NoneLeft(x)
  BY DEF Played, NoneLeft
<1>3. /\ y \in Rounds /\ y.info = x.info /\ y.deck = x.deck /\ y.burn = x.burn
      /\ y.current = x.current /\ y.bishop = x.bishop /\ y.m = x.m
      /\ y.sycophant = Nobody \/ (y = x /\ Flattered(x) /\ x.bishop = Nobody)
  BY <1>2 DEF Rounds
<1>4. Keeps(g, k) /\ Calm(g, k) /\ k.burn = g.burn
  BY DEF Threw, Apart
<1>5. Keeps(g, y)
  <2>1. Keeps(x, y)
    BY <1>3, MarksOnly
  <2>2. Keeps(g, x)
    BY <1>2, <1>4, KeepsOn
  <2> QED
    BY <2>1, <2>2, KeepsOn
<1>6. OneEach(y) /\ NoneLeft(y) /\ Flattered(y) /\ y.current = p
  <2>1. y.current = p
    BY <1>2, <1>3, <1>4 DEF Calm
  <2>2. OneEach(y) /\ NoneLeft(y)
    BY <1>2, <1>3 DEF OneEach, NoneLeft
  <2>3. Flattered(y)
    BY <1>3 DEF Flattered
  <2> QED
    BY <2>1, <2>2, <2>3
<1>7. CASE y.bishop = Nobody
  <2>1. y.m = g.m
    <3>1. Nobody \notin Ladies
      BY NobodyIsNone
    <3> QED
      BY <3>1, <1>1, <1>3, <1>4, <1>7 DEF Played, Calm
  <2>2. Heard(y.m, {y.current})
    BY <1>1, <1>6, <2>1 DEF Awaits
  <2>3. y.deck # <<>> => y.burn # NoCard
    BY <1>1, <1>2, <1>3, <1>4
  <2> QED
    BY <1>3, <1>5, <1>6, <1>7, <2>2, <2>3 DEF TurnTaken, TurnDone
<1>8. CASE y.bishop # Nobody
  <2>1. /\ x.bishop \in Ladies \ {p} /\ Len(x.info[x.bishop].hand) = 1 /\ x.burn = k.burn
        /\ x.m = Mask!UnsetReady(Mask!SetReady(k.m, p), x.bishop)
    BY <1>1, <1>3, <1>4, <1>8 DEF Played, Calm
  <2>2. Awaits(y.m, y.bishop)
    <3>1. Heard(k.m, {p})
      BY <1>1, <1>4 DEF Calm, Awaits
    <3> QED
      BY <1>1, <1>3, <2>1, <3>1, AwaitNext
  <2>3. y.sycophant = Nobody
    BY <1>3, <1>8
  <2>4. Choosing(y)
    BY <1>3, <1>6, <2>1, <2>2, <2>3 DEF Choosing
  <2>5. Waiting(y)
    BY <1>1, <1>3, <1>4, <1>6, <2>1, <2>4 DEF Waiting
  <2> QED
    BY <1>5, <1>8, <2>5 DEF TurnTaken
<1> QED
  BY <1>7, <1>8

\* ForcePlay_: so does a card that is played for somebody, refused or not.
LEMMA TurnForced ==
  ASSUME LetterAssumption, NEW g, Waiting(g), Turning(g)
  PROVE  TurnTaken(g, ForcePlay(g, g.current))
<1> DEFINE p == g.current
           hand == g.info[p].hand
           at == IF MustPlayCountess(hand, hand[1].kind) THEN PlaceIn(hand, "countess") ELSE 1
           kind == hand[at].kind
           others == {t \in Ladies \ {p} : Reachable(g, t)}
           target == CASE g.sycophant # Nobody -> g.sycophant
                       [] g.sycophant = Nobody /\ SelfOK(kind) -> p
                       [] OTHER -> IF others = {} THEN Nobody ELSE Min(others)
           extra == CASE kind \in {"guard", "bishop"} -> 0
                      [] kind = "cardinal" -> p
                      [] OTHER -> Nobody
           k == Thrown(g, p, at)
           x == IF Allowed(k, p, kind, target, extra) THEN Resolve(k, p, kind, target, extra) ELSE k
           y == IF kind = "sycophant" THEN x ELSE [x EXCEPT !.sycophant = Nobody]
<1>1. g \in Rounds /\ p \in Ladies /\ g.bishop = Nobody
  BY DEF Waiting, Turning, Rounds
<1>2. hand \in Seq(LetterCards) /\ Len(hand) = 2
  <2>1. hand \in Seq(LetterCards)
    BY <1>1, SeatShape
  <2>2. Reachable(g, p) /\ DrawnFor(g, p)
    BY DEF Turning
  <2>3. g.info[p].alive /\ (g.info[p].alive => Len(g.info[p].hand) = 2)
    BY <1>1, <2>2 DEF Reachable, DrawnFor
  <2> QED
    BY <2>1, <2>3
<1>3. ForcePlay(g, p) = IF hand = <<>> THEN g ELSE y
  BY DEF ForcePlay
<1>4. hand # <<>>
  <2> HIDE DEF hand
  <2>1. Len(hand) # 0
    BY <1>2
  <2> QED
    BY <1>2, <2>1, NoneInHand
<1>5. at \in 1 .. Len(hand)
  <2> HIDE DEF hand
  <2>1. 1 \in 1 .. Len(hand)
    BY <1>2
  <2>2. MustPlayCountess(hand, hand[1].kind) => \E i \in 1 .. Len(hand) : hand[i].kind = "countess"
    BY <1>2 DEF MustPlayCountess, KindsOf
  <2>3. PlaceIn(hand, "countess") \in 0 .. Len(hand)
        /\ ((\E i \in 1 .. Len(hand) : hand[i].kind = "countess") => PlaceIn(hand, "countess") # 0)
    BY <1>2, PlaceIsThere
  <2> QED
    BY <1>2, <2>1, <2>2, <2>3
<1> HIDE DEF at, kind, extra
<1>6. target \in Ladies \cup {Nobody}
  <2>1. others # {} => Min(others) \in Ladies
    <3>0. others \subseteq Ladies /\ others \subseteq Nat
      BY DEF Ladies, LetterAssumption
    <3> HIDE DEF others
    <3> SUFFICES ASSUME others # {}
                 PROVE  Min(others) \in Ladies
      OBVIOUS
    <3>1. \E i \in others : \A j \in others : i <= j
      BY <3>0, LeastNumber
    <3>2. Min(others) \in others
      BY <3>1 DEF Min
    <3> QED
      BY <3>0, <3>2
  <2>2. g.sycophant \in Ladies \cup {Nobody}
    BY <1>1 DEF Rounds
  <2> HIDE DEF others
  <2> QED
    BY <1>1, <2>1, <2>2
<1> HIDE DEF target, k
<1>7. /\ Threw(g, k, p) /\ OneEach(k) /\ Reachable(k, p)
      /\ Flattered(k) /\ SomeLeft(k) /\ NoneLeft(k)
  BY <1>5, ThrownInTurn DEF k
<1>8. k \in Rounds /\ k.bishop = Nobody
  BY <1>1, <1>7 DEF Threw, Calm
<1>9. Played(k, x, p) /\ (kind = "sycophant" => Flattered(x) /\ x.bishop = Nobody)
  <2>1. CASE Allowed(k, p, kind, target, extra)
    <3>1. x = Resolve(k, p, kind, target, extra)
      BY <2>1
    <3> HIDE DEF x, p
    <3> QED
      BY <1>1, <1>6, <1>7, <1>8, <2>1, <3>1, ResolvedIsPlayed
  <2>2. CASE ~Allowed(k, p, kind, target, extra)
    <3>1. x = k
      BY <2>2
    <3>2. Played(k, k, p)
      BY <1>7, <1>8, NothingTurned, TurnedPlayed
    <3> QED
      BY <1>7, <1>8, <3>1, <3>2
  <2> QED
    BY <2>1, <2>2
<1>10. (y = x /\ Flattered(x) /\ x.bishop = Nobody) \/ y = [x EXCEPT !.sycophant = Nobody]
  <2> HIDE DEF x
  <2> QED
    BY <1>9
<1> HIDE DEF x, y, hand
<1>11. TurnTaken(g, y)
  BY <1>7, <1>9, <1>10, TurnPlayed
<1> QED
  BY <1>3, <1>4, <1>11

\* Who awaits fewer awaits no others.
LEMMA HeardOfFewer ==
  ASSUME NEW m, NEW S, NEW T, Heard(m, S), S \subseteq T
  PROVE  Heard(m, T)
BY DEF Heard

\* The target of the bishop has chosen, or has let the time pass.
LEMMA ChoiceMade ==
  ASSUME NEW g, Waiting(g), Choosing(g), NEW f, Turned(g, f),
         NEW y, y = [f EXCEPT !.bishop = Nobody, !.m = Mask!SetReady(f.m, g.bishop)]
  PROVE  TurnDone(y) /\ Keeps(g, y)
<1> DEFINE m == Mask!SetReady(f.m, g.bishop)
<1>1. g \in Rounds /\ g.burn # NoCard /\ NoneLeft(g) /\ g.bishop \in Ladies /\ g.sycophant = Nobody
      /\ Heard(g.m, {g.bishop})
  BY DEF Waiting, Choosing, Awaits
<1>2. f \in Rounds /\ Keeps(g, f) /\ Calm(g, f) /\ OneEach(f) /\ (f.deck # <<>> => f.burn = g.burn)
  BY DEF Turned
<1>3. Heard(m, {})
  BY <1>1, <1>2, AwaitNext DEF Calm
<1>4. m \in Mask!Masker /\ y = [f EXCEPT !.bishop = Nobody, !.m = m]
  BY <1>3 DEF Heard
<1> HIDE DEF m
<1>5. /\ y \in Rounds /\ y.info = f.info /\ y.deck = f.deck /\ y.burn = f.burn
      /\ y.current = f.current /\ y.bishop = Nobody /\ y.m = m /\ y.sycophant = f.sycophant
  BY <1>2, <1>4 DEF Rounds
<1>6. Keeps(g, y)
  <2>1. Keeps(f, y)
    BY <1>5, MarksOnly
  <2> QED
    BY <1>2, <2>1, KeepsOn
<1>7. Heard(y.m, {y.current})
  BY <1>3, <1>5, HeardOfFewer
<1>8. OneEach(y) /\ NoneLeft(y)
  BY <1>1, <1>2, <1>5 DEF OneEach, NoneLeft, Calm
<1>9. Flattered(y)
  BY <1>1, <1>2, <1>5 DEF Flattered, Calm
<1>10. y.deck # <<>> => y.burn # NoCard
  BY <1>1, <1>2, <1>5
<1> QED
  BY <1>5, <1>6, <1>7, <1>8, <1>9, <1>10 DEF TurnDone

\* A card that is refused is taken back.
Refused(g, p, at) ==
    [g EXCEPT !.info[p].hand = Append(Thrown(g, p, at).info[p].hand, g.info[p].hand[at])]

\* Play_: a card that is refused is back in the hand.
LEMMA CardRefused ==
  ASSUME NEW g, Waiting(g), Turning(g), NEW p, p = g.current,
         NEW at \in 1 .. Len(g.info[p].hand), NEW y, y = Refused(g, p, at)
  PROVE  Waiting(y) /\ Keeps(g, y)
<1> DEFINE s == g.info[p].hand
           t == Append(RemoveAt(s, at), s[at])
           n == [g.info[p] EXCEPT !.hand = t]
<1>1. g \in Rounds /\ p \in Ladies /\ g.burn # NoCard /\ NoneLeft(g) /\ Reachable(g, p)
      /\ DrawnFor(g, p) /\ Flattered(g) /\ g.bishop = Nobody /\ Awaits(g.m, p)
  BY DEF Waiting, Turning, Rounds
<1>2. s \in Seq(LetterCards) /\ Thrown(g, p, at).info[p].hand = RemoveAt(s, at)
  BY <1>1, SeatShape, ThrownAway
<1>3. y = Sat(g, p, n)
  BY <1>2 DEF Sat, Refused
<1>4. s[at] \in LetterCards /\ RemoveAt(s, at) \in Seq(LetterCards) /\ Len(RemoveAt(s, at)) = Len(s) - 1
  BY <1>2, Removed
<1>5. t \in Seq(LetterCards) /\ Len(t) = Len(s) - 1 + 1
  BY <1>4, CardAdded
<1>6. Len(t) = Len(s)
  BY <1>2, <1>5
<1>7. t = Append(RemoveAt(g.info[p].hand, at), g.info[p].hand[at])
  OBVIOUS
<1> HIDE DEF t
<1>8. /\ n \in Seat /\ n.hand = t /\ n.discards = g.info[p].discards /\ n.alive = g.info[p].alive
      /\ n.protect = g.info[p].protect /\ n.left = g.info[p].left
  BY <1>1, <1>5, SeatShape, HandChanged
<1> HIDE DEF n
<1>9. y \in Rounds /\ y.info[p] = n /\ Apart(g, y, p) /\ OnlyOf(g, y, p) /\ Calm(g, y)
  BY <1>1, <1>3, <1>8, SeatOnly
<1>10. Keeps(g, y)
  BY <1>1, <1>7, <1>8, <1>9, TakenBack
<1>11. \A q \in Ladies : /\ Len(y.info[q].hand) = Len(g.info[q].hand)
                         /\ y.info[q].alive = g.info[q].alive
                         /\ y.info[q].protect = g.info[q].protect
                         /\ y.info[q].left = g.info[q].left
  <2>1. Len(y.info[p].hand) = Len(g.info[p].hand)
    BY <1>6, <1>8, <1>9
  <2> QED
    BY <2>1, <1>8, <1>9 DEF Apart
<1>12. DrawnFor(y, p) /\ NoneLeft(y)
  BY <1>1, <1>11 DEF DrawnFor, NoneLeft
<1>13. Reachable(y, p) /\ Flattered(y)
  <2>1. \A q : Reachable(g, q) => Reachable(y, q)
    BY <1>11 DEF Reachable
  <2> QED
    BY <1>1, <1>9, <2>1 DEF Flattered, Calm
<1>14. Turning(y)
  BY <1>1, <1>9, <1>12, <1>13 DEF Turning, Calm
<1>15. y.burn # NoCard
  BY <1>1, <1>9 DEF Apart
<1> QED
  BY <1>9, <1>10, <1>12, <1>14, <1>15 DEF Waiting

\* What the target of the bishop chooses.
Chosen(g, choice) ==
    LET p == g.bishop
        hand == g.info[p].hand
        card == IF hand # <<>> THEN hand[1] ELSE Last(g.info[p].discards)
        cleared == [g EXCEPT !.info[p].discards = Append(@, card), !.info[p].hand = <<>>]
    IN  IF ~choice THEN g
        ELSE IF card.kind = "princess" THEN Eliminated(cleared, p) ELSE Draw(cleared, p)

\* BishopChoice_: the target has a card, another one or the same, or is out.
LEMMA ChosenTurned ==
  ASSUME NEW g, Waiting(g), Choosing(g), NEW choice
  PROVE  Turned(g, Chosen(g, choice))
<1> DEFINE p == g.bishop
           hand == g.info[p].hand
           card == IF hand # <<>> THEN hand[1] ELSE Last(g.info[p].discards)
           h == [g EXCEPT !.info[p].discards = Append(@, card), !.info[p].hand = <<>>]
<1>1. Chosen(g, choice) = IF ~choice THEN g
                          ELSE IF card.kind = "princess" THEN Eliminated(h, p) ELSE Draw(h, p)
  BY DEF Chosen
<1>0. g \in Rounds /\ p \in Ladies /\ OneEach(g) /\ Len(hand) = 1 /\ g.burn # NoCard
  BY DEF Waiting, Choosing
<1>2. hand # <<>> /\ RemoveAt(hand, 1) = <<>>
  BY <1>0, SeatShape, OnlyCard
<1>4. h = Thrown(g, p, 1)
  <2> DEFINE q == g.info[p]
             u == Append(q.discards, card)
             a == [q EXCEPT !.discards = u, !.hand = <<>>]
             v == Append(q.discards, hand[1])
             e == RemoveAt(hand, 1)
             b == [q EXCEPT !.hand = e, !.discards = v]
  <2>1. g.info \in Seats /\ g.info[p] \in Seat
    BY <1>0, SeatShape
  <2>2. h = Sat(g, p, a)
    BY <2>1 DEF Sat, Seats
  <2>3. Thrown(g, p, 1) = Sat(g, p, b)
    BY <1>0, <2>1 DEF Sat, Seats, Thrown, Rounds
  <2>4. u = v /\ e = <<>>
    BY <1>2
  <2>5. a = b
    <3> HIDE DEF u, v, e, q
    <3>1. a = [q EXCEPT !.discards = v, !.hand = <<>>] /\ b = [q EXCEPT !.hand = <<>>, !.discards = v]
      BY <2>4
    <3>2. q \in Seat
      BY <2>1 DEF q
    <3> QED
      BY <3>1, <3>2 DEF Seat
  <2> HIDE DEF a, b, h
  <2> QED
    BY <2>2, <2>3, <2>5
<1>5. Turned(g, Draw(h, p)) /\ Turned(g, Eliminated(h, p)) /\ Turned(g, g)
  <2>1. 1 \in 1 .. Len(g.info[p].hand) /\ SomeLeft(g)
    BY <1>0 DEF SomeLeft
  <2> QED
    BY <1>0, <1>4, <2>1, Replaced, NothingTurned
<1> HIDE DEF h, hand
<1> QED
  BY <1>1, <1>2, <1>5

-----------------------------------------------------------------------------
(* The game while nobody leaves.                                            *)

\* What a game is like while nobody has left: somebody alone is awaited who can act, and
\* each card of the shuffle is in one place; between the rounds nobody need be awaited.
Peaceful(where, g, away) ==
    /\ where \in {"begin", "wait", "next", "done"}
    /\ g \in Rounds /\ NoneLeft(g) /\ Heard(g.m, Ladies)
    /\ where = "wait" => Waiting(g) /\ \E s \in Shuffles : Dealt(g, away, ToSet(s))

\* Inductive.  Of a game that somebody has left nothing is claimed: if the bishop leaves
\* while his target chooses, cards can be lost.
LetterInv ==
    /\ absent = {} <=> disturbed = FALSE
    /\ absent = {} => Peaceful(letter, Table, removed)

\* Put leaves the state behind that it was given.
LEMMA PutIsTable ==
  ASSUME NEW h \in Rounds, Put(h), heeded' = h.m
  PROVE  Table' = h
BY DEF Put, Table, Rounds

\* A round in which somebody is awaited is peaceful, and its stage is not over.
LEMMA WaitingPeaceful ==
  ASSUME NEW g, Waiting(g), NEW away, \E s \in Shuffles : Dealt(g, away, ToSet(s))
  PROVE  Peaceful("wait", g, away) /\ ~Mask!Ok(g.m) /\ g \in Rounds
<1>1. PICK p \in Ladies : Awaits(g.m, p)
  BY DEF Waiting, Turning, Choosing, Rounds
<1>2. Heard(g.m, Ladies)
  BY <1>1, HeardOfFewer DEF Awaits
<1>3. ~Mask!Ok(g.m)
  BY <1>1, AwaitedNotOk
<1> QED
  BY <1>2, <1>3 DEF Peaceful, Waiting

\* Each card of the shuffle is still in one place.
LEMMA DealtStill ==
  ASSUME NEW g, NEW h, Keeps(g, h), NEW away, \E s \in Shuffles : Dealt(g, away, ToSet(s))
  PROVE  \E s \in Shuffles : Dealt(h, away, ToSet(s))
BY DEF Keeps

\* Settled leaves a peaceful game behind if somebody is awaited.
LEMMA SettledPeacefully ==
  ASSUME NEW g, Waiting(g), \E s \in Shuffles : Dealt(g, removed', ToSet(s)), Settled(g)
  PROVE  Peaceful(letter, Table, removed)'
<1>1. Peaceful("wait", g, removed') /\ ~Mask!Ok(g.m) /\ g \in Rounds
  BY WaitingPeaceful
<1>2. Put(g) /\ heeded' = g.m /\ letter' = "wait"
  BY <1>1 DEF Settled
<1>3. Table' = g
  BY <1>1, <1>2, PutIsTable
<1> QED
  BY <1>1, <1>2, <1>3

\* Finished does if a turn is over: AfterPlay_ ends the round or goes on to the next.
LEMMA FinishedPeacefully ==
  ASSUME LetterAssumption, NEW g, TurnDone(g), \E s \in Shuffles : Dealt(g, removed', ToSet(s)),
         Finished(g)
  PROVE  Peaceful(letter, Table, removed)'
<1> DEFINE h == AfterPlay(g)
<1>1. /\ Put(h) /\ heeded' = h.m
      /\ letter' = IF RoundEnds(g) THEN "next" ELSE IF Mask!Ok(h.m) THEN "over" ELSE "wait"
  BY DEF Finished
<1>2. CASE ~RoundEnds(g)
  <2>1. Waiting(h) /\ Keeps(g, h)
    BY <1>2, TurnGoesOn
  <2> HIDE DEF h
  <2>2. \E s \in Shuffles : Dealt(h, removed', ToSet(s))
    BY <2>1, DealtStill
  <2>3. Settled(h)
    BY <1>1, <1>2 DEF Settled
  <2> QED
    BY <2>1, <2>2, <2>3, SettledPeacefully
<1>3. CASE RoundEnds(g)
  <2>1. h = Honoured(g)
    BY <1>3 DEF AfterPlay
  <2>2. g \in Rounds /\ NoneLeft(g) /\ Heard(g.m, Ladies)
    <3>1. g.current \in Ladies
      BY DEF TurnDone, Rounds
    <3> QED
      BY <3>1, HeardOfFewer DEF TurnDone
  <2>3. Ended(h)
    BY <2>1, <2>2, RoundIsEnded
  <2> HIDE DEF h
  <2>4. letter' = "next" /\ h \in Rounds /\ Peaceful("next", h, removed')
    BY <1>1, <1>3, <2>3 DEF Ended, Peaceful
  <2>5. Table' = h
    BY <1>1, <2>4, PutIsTable
  <2> QED
    BY <2>4, <2>5
<1> QED
  BY <1>2, <1>3

\* Settling does if a card was laid down.
LEMMA SettlingPeacefully ==
  ASSUME LetterAssumption, NEW g, \E s \in Shuffles : Dealt(g, removed', ToSet(s)),
         NEW y, TurnTaken(g, y), Settling(y)
  PROVE  Peaceful(letter, Table, removed)'
<1>1. \E s \in Shuffles : Dealt(y, removed', ToSet(s))
  BY DealtStill DEF TurnTaken
<1>2. CASE y.bishop = Nobody
  BY <1>1, <1>2, FinishedPeacefully DEF TurnTaken, Settling
<1>3. CASE y.bishop # Nobody
  BY <1>1, <1>3, SettledPeacefully DEF TurnTaken, Settling
<1> QED
  BY <1>2, <1>3

\* What is known while somebody is awaited.
AtPlay(g) ==
    /\ letter = "wait" /\ absent = {} /\ g = Table /\ Waiting(g)
    /\ \E s \in Shuffles : Dealt(g, removed, ToSet(s))

\* What the invariant says of a game that waits.
LEMMA PlayingIs ==
  ASSUME LetterInv, letter = "wait", absent = {}
  PROVE  AtPlay(Table)
BY DEF LetterInv, Peaceful, AtPlay

\* The fields of the record.
LEMMA TableIs ==
  /\ Table.deck = deck /\ Table.burn = burn /\ Table.info = info /\ Table.current = current
  /\ Table.first = first /\ Table.sycophant = sycophant /\ Table.bishop = bishop
  /\ Table.m = heeded
BY DEF Table

\* A request to play a card keeps the game peaceful.
LEMMA PlayIsPeaceful ==
  ASSUME LetterAssumption, LetterInv, absent = {},
         NEW p \in Ladies, NEW at, NEW target \in Ladies \cup {Nobody}, NEW extra,
         Play(p, at, target, extra)
  PROVE  Peaceful(letter, Table, removed)'
<1> DEFINE k == Thrown(Table, p, at)
           card == info[p].hand[at]
           kind == card.kind
           x == Resolve(k, p, kind, target, extra)
           y == IF kind = "sycophant" THEN x ELSE [x EXCEPT !.sycophant = Nobody]
<1>1. letter = "wait" /\ p = current /\ ~heeded.ready[p] /\ at \in DOMAIN info[p].hand
  BY DEF Play, Turn
<1>2. AtPlay(Table)
  BY <1>1, PlayingIs
<1> DEFINE g == Table
<1>3. g.info = info /\ g.current = current /\ g.m = heeded
  BY TableIs
<1>4. \/ UNCHANGED letterVars
      \/ /\ ~Allowed(k, p, kind, target, extra) /\ removed' = removed
         /\ Settled(Refused(g, p, at))
      \/ /\ Allowed(k, p, kind, target, extra) /\ removed' = removed
         /\ Settling(y)
  BY <1>1, <1>3 DEF Play, Refused
<1>5. /\ letter = "wait" /\ Waiting(g) /\ \E s \in Shuffles : Dealt(g, removed, ToSet(s))
  BY <1>2 DEF AtPlay
<1>6. p = g.current /\ ~g.m.ready[p] /\ at \in 1 .. Len(g.info[p].hand)
  <2>1. g.info[p].hand \in Seq(LetterCards)
    BY <1>5, SeatShape DEF Waiting
  <2> QED
    BY <1>1, <1>3, <2>1
<1> HIDE DEF g, x, y, k
<1>7. Turning(g)
  <2>1. ~Choosing(g)
    BY <1>6 DEF Choosing, Awaits, Heard
  <2> QED
    BY <1>5, <2>1 DEF Waiting
<1>8. CASE UNCHANGED letterVars
  <2>1. LetterInv'
    BY <1>8 DEF LetterInv, letterVars, Table
  <2> QED
    BY <1>8, <2>1 DEF LetterInv, letterVars
<1>9. CASE removed' = removed /\ Settled(Refused(g, p, at))
  <2>1. Waiting(Refused(g, p, at)) /\ Keeps(g, Refused(g, p, at))
    BY <1>5, <1>6, <1>7, CardRefused
  <2>2. \E s \in Shuffles : Dealt(Refused(g, p, at), removed', ToSet(s))
    BY <1>5, <1>9, <2>1, DealtStill
  <2> QED
    BY <1>9, <2>1, <2>2, SettledPeacefully
<1>10. CASE Allowed(k, p, kind, target, extra) /\ removed' = removed /\ Settling(y)
  <2>1. /\ Threw(g, k, p) /\ OneEach(k) /\ Reachable(k, p)
        /\ Flattered(k) /\ SomeLeft(k) /\ NoneLeft(k)
    BY <1>5, <1>6, <1>7, ThrownInTurn DEF k, g
  <2>2. k \in Rounds /\ k.bishop = Nobody
    BY <1>7, <2>1 DEF Threw, Calm, Turning
  <2>3. Played(k, x, p) /\ (kind = "sycophant" => Flattered(x) /\ x.bishop = Nobody)
    BY <1>10, <2>1, <2>2, ResolvedIsPlayed DEF x
  <2>4. (y = x /\ Flattered(x) /\ x.bishop = Nobody) \/ y = [x EXCEPT !.sycophant = Nobody]
    BY <2>3 DEF y
  <2>5. TurnTaken(g, y)
    BY <1>5, <1>6, <1>7, <2>1, <2>3, <2>4, TurnPlayed
  <2> QED
    BY <1>5, <1>10, <2>5, SettlingPeacefully
<1> QED
  BY <1>4, <1>8, <1>9, <1>10

\* The target of the bishop has spoken, or the time is up.
Answered(f, p) == [f EXCEPT !.bishop = Nobody, !.m = Mask!SetReady(f.m, p)]

\* So does an answer to the bishop.
LEMMA AnsweredPeacefully ==
  ASSUME LetterAssumption, NEW g, Waiting(g), Choosing(g),
         \E s \in Shuffles : Dealt(g, removed', ToSet(s)),
         NEW f, Turned(g, f), Finished(Answered(f, g.bishop))
  PROVE  Peaceful(letter, Table, removed)'
<1> DEFINE y == Answered(f, g.bishop)
<1>1. TurnDone(y) /\ Keeps(g, y)
  BY ChoiceMade DEF Answered
<1> HIDE DEF y
<1>2. \E s \in Shuffles : Dealt(y, removed', ToSet(s))
  BY <1>1, DealtStill
<1>3. Finished(y)
  BY DEF y
<1> QED
  BY <1>1, <1>2, <1>3, FinishedPeacefully

\* So does the choice the target makes.
LEMMA ChoiceIsPeaceful ==
  ASSUME LetterAssumption, LetterInv, absent = {}, NEW p \in Ladies, NEW choice, BishopChoice(p, choice)
  PROVE  Peaceful(letter, Table, removed)'
<1> DEFINE g == Table
           f == Chosen(g, choice)
<1>1. letter = "wait" /\ p = bishop /\ removed' = removed
  BY DEF BishopChoice, Turn
<1>2. AtPlay(g)
  BY <1>1, PlayingIs
<1>3. Finished(Answered(f, p))
  <2>1. g.info = info /\ g.bishop = p
    BY <1>1, TableIs
  <2> HIDE DEF g
  <2> QED
    BY <2>1 DEF BishopChoice, Answered, Chosen, g
<1>4. g.bishop = p
  BY <1>1, TableIs
<1> HIDE DEF g, f
<1>5. /\ Waiting(g) /\ \E s \in Shuffles : Dealt(g, removed', ToSet(s))
  BY <1>1, <1>2 DEF AtPlay
<1>6. Choosing(g)
  <2>1. ~Turning(g)
    BY <1>4, NobodyIsNone DEF Turning
  <2> QED
    BY <1>5, <2>1 DEF Waiting
<1>7. Turned(g, f)
  BY <1>5, <1>6, ChosenTurned DEF f
<1> QED
  BY <1>3, <1>4, <1>5, <1>6, <1>7, AnsweredPeacefully

\* So does a timeout, be it of the turn or of the choice.
LEMMA TimeoutIsPeaceful ==
  ASSUME LetterAssumption, LetterInv, absent = {}, LetterTimeout
  PROVE  Peaceful(letter, Table, removed)'
<1> DEFINE g == Table
<1>1. letter = "wait" /\ removed' = removed
  BY DEF LetterTimeout
<1>2. AtPlay(g)
  BY <1>1, PlayingIs
<1>3. g.bishop = bishop /\ g.current = current /\ g.m = heeded
  BY TableIs
<1>4. IF g.bishop # Nobody THEN Finished(Answered(g, g.bishop)) ELSE Settling(ForcePlay(g, g.current))
  BY <1>3 DEF LetterTimeout, Answered
<1> HIDE DEF g
<1>5. /\ Waiting(g) /\ \E s \in Shuffles : Dealt(g, removed', ToSet(s))
  BY <1>1, <1>2 DEF AtPlay
<1>6. CASE g.bishop # Nobody
  <2>1. Choosing(g)
    BY <1>5, <1>6 DEF Waiting, Turning
  <2>2. Turned(g, g)
    BY <1>5, <2>1, NothingTurned DEF Choosing, Waiting
  <2> QED
    BY <1>4, <1>5, <1>6, <2>1, <2>2, AnsweredPeacefully
<1>7. CASE g.bishop = Nobody
  <2>1. Turning(g)
    BY <1>5, <1>7, NobodyIsNone DEF Waiting, Choosing
  <2>2. TurnTaken(g, ForcePlay(g, g.current))
    BY <1>5, <2>1, TurnForced
  <2> QED
    BY <1>4, <1>5, <1>7, <2>2, SettlingPeacefully
<1> QED
  BY <1>6, <1>7

\* So does the end of a round.
LEMMA NextRoundIsPeaceful ==
  ASSUME LetterInv, absent = {}, NextRound
  PROVE  Peaceful(letter, Table, removed)'
<1>1. Table' = Table /\ removed' = removed /\ letter' \in {"begin", "done"}
  BY DEF NextRound, Table
<1>2. Peaceful(letter, Table, removed)
  BY DEF LetterInv
<1>3. Peaceful(letter', Table, removed)
  BY <1>1, <1>2 DEF Peaceful
<1> QED
  BY <1>1, <1>3

\* At the beginning of a round everybody counts as heard.
LEMMA AllHeard ==
  ASSUME LetterAssumption, NEW m, Heard(m, Ladies)
  PROVE  Heard(FoldSet(LAMBDA p, n : Mask!SetReady(n, p), Mask!ClearReady(m), Ladies), {})
<1> DEFINE c == Mask!ClearReady(m)
           n == Readied(Ladies, c, Ladies)
<1>1. m \in Mask!Masker
  BY DEF Heard
<1>2. c \in Mask!Masker /\ c.active = m.active /\ c.allPermanent = m.allPermanent
  BY <1>1 DEF Mask!ClearReady, Mask!Masker
<1> HIDE DEF c
<1>3. c \in Maskers(Ladies)
  BY <1>2 DEF Maskers, Mask!Masker, Mask!ActiveState
<1>4. IsFiniteSet(Ladies)
  BY FS_Interval DEF Ladies, LetterAssumption
<1>5. FoldSet(LAMBDA p, x : Mask!SetReady(x, p), c, Ladies) = n
  BY <1>3, <1>4, AllGetReady
<1>6. n \in Mask!Masker /\ n.active = c.active /\ n.allPermanent = c.allPermanent
      /\ \A p \in Ladies : n.ready[p] = TRUE
  BY <1>2 DEF Readied, Mask!Masker
<1> HIDE DEF n
<1>7. Heard(n, {})
  BY <1>2, <1>6 DEF Heard
<1> QED
  BY <1>5, <1>7 DEF c

-----------------------------------------------------------------------------
(* A round is dealt.                                                        *)

\* Some cards of a stack, one after the other.
LEMMA PartOfStack ==
  ASSUME NEW s \in Stacks, NEW a \in Nat \ {0}, NEW b \in 0 .. Len(s), a <= b + 1
  PROVE  /\ SubSeq(s, a, b) \in Stacks
         /\ ToSet(SubSeq(s, a, b)) = {s[i] : i \in a .. b}
         /\ Len(SubSeq(s, a, b)) = b + 1 - a
<1> DEFINE t == SubSeq(s, a, b)
           n == (b + 1) - a
<1>0. s \in Seq(LetterCards) /\ Len(s) \in Nat /\ n \in Nat /\ a \in Nat
  BY StackShape
<1>1. \A i \in a .. b : s[i] \in LetterCards
  <2>1. \A i \in a .. b : i \in 1 .. Len(s)
    BY <1>0
  <2> QED
    BY <2>1, StackShape
<1>2. t \in Seq(LetterCards) /\ Len(t) = n /\ \A j \in 1 .. n : t[j] = s[a + j - 1]
  <2>1. a \in Int /\ b \in Int
    BY <1>0
  <2>2. /\ SubSeq(s, a, b) \in Seq(LetterCards)
        /\ Len(SubSeq(s, a, b)) = IF a <= b THEN b - a + 1 ELSE 0
        /\ \A j \in 1 .. b - a + 1 : SubSeq(s, a, b)[j] = s[a + j - 1]
    BY <1>1, <2>1, SubSeqProperties
  <2>3. b - a + 1 = n /\ (a <= b \/ n = 0)
    BY <1>0
  <2> HIDE DEF n
  <2> QED
    BY <2>2, <2>3
<1>3. \A j \in 1 .. n : a + j - 1 \in a .. b /\ a + j - 1 \in 1 .. Len(s)
  BY <1>0
<1>4. \A i \in a .. b : i - a + 1 \in 1 .. n /\ a + (i - a + 1) - 1 = i
  BY <1>0
<1> HIDE DEF t, n
<1>5. ASSUME NEW i \in 1 .. n, NEW j \in 1 .. n, t[i] = t[j]
      PROVE  i = j
  <2>1. s[a + i - 1] = s[a + j - 1] /\ a + i - 1 \in 1 .. Len(s) /\ a + j - 1 \in 1 .. Len(s)
    BY <1>2, <1>3, <1>5
  <2>2. a + i - 1 = a + j - 1
    BY <2>1, StackShape
  <2> QED
    BY <1>0, <2>2
<1>6. t \in Stacks /\ DOMAIN t = 1 .. n
  BY <1>2, <1>5 DEF Stacks, IsInjective
<1>7. ToSet(t) = {s[i] : i \in a .. b}
  <2>1. \A j \in 1 .. n : t[j] \in {s[i] : i \in a .. b}
    BY <1>2, <1>3
  <2>2. \A i \in a .. b : \E j \in 1 .. n : t[j] = s[i]
    BY <1>2, <1>4
  <2> QED
    BY <1>6, <2>1, <2>2 DEF ToSet
<1> QED
  BY <1>2, <1>6, <1>7 DEF t, n

\* Where the cards of a new round come from.
Places(n, r, x) ==
    CASE x = OnDeck -> 1 .. r - Guests
      [] x = PutAway -> r + 1 .. n - 1
      [] x = OnBurn -> {n}
      [] x[1] = "hand" -> {r - x[2]}
      [] OTHER -> {}

\* The places in the shuffle whose cards get to each pile.
LEMMA PlacesAre ==
  ASSUME LetterAssumption, NEW n, NEW r
  PROVE  /\ Places(n, r, OnDeck) = 1 .. r - Guests
         /\ Places(n, r, PutAway) = r + 1 .. n - 1
         /\ Places(n, r, OnBurn) = {n}
         /\ \A p : Places(n, r, InHand(p)) = {r - p} /\ Places(n, r, Before(p)) = {}
<1>1. /\ OnDeck[1] # "hand" /\ PutAway[1] # "hand" /\ OnBurn[1] # "hand"
      /\ \A p : /\ InHand(p)[1] = "hand" /\ InHand(p)[2] = p /\ Before(p)[1] # "hand"
  BY DEF OnDeck, PutAway, OnBurn, InHand, Before
<1> QED
  BY <1>1, PilesDiffer DEF Places

\* Each place of the shuffle is of one pile.
LEMMA PlacesPart ==
  ASSUME LetterAssumption, NEW n \in Nat, NEW r \in Nat, r < n, Guests <= r
  PROVE  /\ \A x \in Piles : Places(n, r, x) \subseteq 1 .. n
         /\ \A x, y \in Piles : Places(n, r, x) \cap Places(n, r, y) # {} => x = y
         /\ \A i \in 1 .. n : \E x \in Piles : i \in Places(n, r, x)
<1>0. Guests \in Nat /\ Ladies = 0 .. Guests - 1
  BY DEF LetterAssumption, Ladies
<1> DEFINE D == 1 .. r - Guests
           A == r + 1 .. n - 1
           B == {n}
           H(p) == {r - p}
<1>1. /\ D \subseteq 1 .. n /\ A \subseteq 1 .. n /\ B \subseteq 1 .. n
      /\ \A p \in Ladies : H(p) \subseteq 1 .. n
  BY <1>0
<1>2. /\ D \cap A = {} /\ D \cap B = {} /\ A \cap B = {}
      /\ \A p \in Ladies : H(p) \cap D = {} /\ H(p) \cap A = {} /\ H(p) \cap B = {}
      /\ \A p, q \in Ladies : H(p) \cap H(q) # {} => p = q
  BY <1>0
<1>3. \A i \in 1 .. n : i \in D \/ i \in A \/ i \in B \/ \E p \in Ladies : i \in H(p)
  <2> SUFFICES ASSUME NEW i \in 1 .. n, i \notin D, i \notin A, i \notin B
               PROVE  \E p \in Ladies : i \in H(p)
    OBVIOUS
  <2>1. r - i \in Ladies /\ i = r - (r - i)
    BY <1>0
  <2> QED
    BY <2>1
<1>4. /\ Places(n, r, OnDeck) = D /\ Places(n, r, PutAway) = A /\ Places(n, r, OnBurn) = B
      /\ \A p \in Ladies : Places(n, r, InHand(p)) = H(p) /\ Places(n, r, Before(p)) = {}
  BY PlacesAre
<1> HIDE DEF D, A, B, H
<1>5. \A x \in Piles : Places(n, r, x) \subseteq 1 .. n
  <2> SUFFICES ASSUME NEW x \in Piles
               PROVE  Places(n, r, x) \subseteq 1 .. n
    OBVIOUS
  <2>1. CASE x \in {OnDeck, PutAway, OnBurn}
    BY <1>1, <1>4, <2>1
  <2>2. ASSUME NEW p \in Ladies, x = InHand(p) \/ x = Before(p)
        PROVE  Places(n, r, x) \subseteq 1 .. n
    BY <1>1, <1>4, <2>2
  <2> QED
    BY <2>1, <2>2, PilesAre
<1>6. ASSUME NEW x \in Piles, NEW y \in Piles, Places(n, r, x) \cap Places(n, r, y) # {}
      PROVE  x = y
  <2>1. CASE x \in {OnDeck, PutAway, OnBurn} /\ y \in {OnDeck, PutAway, OnBurn}
    BY <1>2, <1>4, <1>6, <2>1
  <2>2. CASE \E p \in Ladies : x = Before(p) \/ y = Before(p)
    BY <1>4, <1>6, <2>2
  <2>3. ASSUME NEW p \in Ladies, x = InHand(p), y \in {OnDeck, PutAway, OnBurn}
        PROVE  x = y
    BY <1>2, <1>4, <1>6, <2>3
  <2>4. ASSUME NEW p \in Ladies, y = InHand(p), x \in {OnDeck, PutAway, OnBurn}
        PROVE  x = y
    BY <1>2, <1>4, <1>6, <2>4
  <2>5. ASSUME NEW p \in Ladies, NEW q \in Ladies, x = InHand(p), y = InHand(q)
        PROVE  x = y
    BY <1>2, <1>4, <1>6, <2>5
  <2>6. \/ x \in {OnDeck, PutAway, OnBurn}
        \/ \E p \in Ladies : x = InHand(p) \/ x = Before(p)
    BY PilesAre
  <2>7. \/ y \in {OnDeck, PutAway, OnBurn}
        \/ \E p \in Ladies : y = InHand(p) \/ y = Before(p)
    BY PilesAre
  <2> QED
    BY <2>1, <2>2, <2>3, <2>4, <2>5, <2>6, <2>7
<1>7. ASSUME NEW i \in 1 .. n
      PROVE  \E x \in Piles : i \in Places(n, r, x)
  BY <1>3, <1>4, PilesAre
<1> QED
  BY <1>5, <1>6, <1>7

\* The deck s is dealt: its last card is put away, those before it from r + 1 on are
\* shown, and p gets the card r - p.
Fresh(g, s, r) ==
    /\ g.deck = SubSeq(s, 1, r - Guests) /\ g.burn = Last(s)
    /\ \A p \in Ladies : g.info[p].hand = <<s[r - p]>> /\ g.info[p].discards = <<>>

\* A deck that is dealt has each card in one pile.
LEMMA FreshIsDealt ==
  ASSUME LetterAssumption, NEW s \in Seq(LetterCards \ {NoCard}), IsInjective(s),
         NEW r \in Nat, r < Len(s), Guests <= r, NEW g, Fresh(g, s, r)
  PROVE  Dealt(g, SubSeq(s, r + 1, Len(s) - 1), ToSet(s))
<1> DEFINE n == Len(s)
           away == SubSeq(s, r + 1, n - 1)
           P(x) == Pile(g, away, x)
           Q(x) == {s[i] : i \in Places(n, r, x)}
<1>0. Guests \in Nat /\ Ladies = 0 .. Guests - 1 /\ n \in Nat /\ r < n
  BY DEF LetterAssumption, Ladies
<1>1. s \in Stacks /\ s \in Seq(LetterCards) /\ NoCard \notin ToSet(s)
  BY DEF Stacks, ToSet
<1>2. \A x \in Piles : P(x) \in Stacks /\ ToSet(P(x)) = Q(x)
  <2>1. P(OnDeck) \in Stacks /\ ToSet(P(OnDeck)) = Q(OnDeck)
    <3>1. P(OnDeck) = SubSeq(s, 1, r - Guests)
      BY PileOf DEF Fresh
    <3>2. r - Guests \in 0 .. Len(s) /\ 1 <= r - Guests + 1 /\ 1 \in Nat \ {0}
      BY <1>0
    <3>3. /\ SubSeq(s, 1, r - Guests) \in Stacks
          /\ ToSet(SubSeq(s, 1, r - Guests)) = {s[i] : i \in 1 .. r - Guests}
      <4> HIDE DEF P, Q, n, away
      <4> QED
        BY <1>1, <3>2, PartOfStack
    <3>4. Q(OnDeck) = {s[i] : i \in 1 .. r - Guests}
      BY PlacesAre
    <3> HIDE DEF P, Q, n, away
    <3> QED
      BY <3>1, <3>3, <3>4
  <2>2. P(PutAway) \in Stacks /\ ToSet(P(PutAway)) = Q(PutAway)
    <3>1. P(PutAway) = SubSeq(s, r + 1, n - 1)
      BY PileOf
    <3>2. /\ Len(s) - 1 \in 0 .. Len(s) /\ r + 1 <= Len(s) - 1 + 1
          /\ r + 1 \in Nat \ {0}
      BY <1>0
    <3>3. /\ SubSeq(s, r + 1, Len(s) - 1) \in Stacks
          /\ ToSet(SubSeq(s, r + 1, Len(s) - 1)) = {s[i] : i \in r + 1 .. Len(s) - 1}
      <4> HIDE DEF P, Q, n, away
      <4> QED
        BY <1>1, <3>2, PartOfStack
    <3>4. Q(PutAway) = {s[i] : i \in r + 1 .. Len(s) - 1}
      BY PlacesAre
    <3>5. P(PutAway) = SubSeq(s, r + 1, Len(s) - 1)
      BY <3>1
    <3> HIDE DEF P, Q, n, away
    <3> QED
      BY <3>3, <3>4, <3>5
  <2>3. P(OnBurn) \in Stacks /\ ToSet(P(OnBurn)) = Q(OnBurn)
    <3>1. Last(s) = s[n] /\ n \in 1 .. n
      BY <1>0 DEF Last
    <3>2. s[n] \in LetterCards /\ s[n] # NoCard
      BY <1>1, <3>1, StackShape
    <3>3. P(OnBurn) = <<s[n]>>
      BY <3>1, <3>2, PileOf DEF Fresh
    <3>4. Q(OnBurn) = {s[n]}
      BY PlacesAre
    <3> HIDE DEF P, Q, n
    <3> QED
      BY <3>2, <3>3, <3>4, StackSmall
  <2>4. ASSUME NEW p \in Ladies
        PROVE  P(InHand(p)) \in Stacks /\ ToSet(P(InHand(p))) = Q(InHand(p))
    <3>1. r - p \in 1 .. n
      BY <1>0
    <3>2. s[r - p] \in LetterCards
      BY <1>1, <3>1, StackShape
    <3>3. P(InHand(p)) = <<s[r - p]>>
      BY PileOfLady DEF Fresh
    <3>4. Q(InHand(p)) = {s[r - p]}
      <4> HIDE DEF n, P, away
      <4> HIDE DEF Q
      <4>1. \A q : Places(n, r, InHand(q)) = {r - q} /\ Places(n, r, Before(q)) = {}
        BY PlacesAre
      <4>2. Places(n, r, InHand(p)) = {r - p}
        BY <4>1
      <4> QED
        BY <4>2 DEF Q
    <3> HIDE DEF P, Q, n
    <3> QED
      BY <3>2, <3>3, <3>4, StackSmall
  <2>5. ASSUME NEW p \in Ladies
        PROVE  P(Before(p)) \in Stacks /\ ToSet(P(Before(p))) = Q(Before(p))
    <3>1. P(Before(p)) = <<>>
      BY PileOfLady DEF Fresh
    <3>2. Q(Before(p)) = {}
      <4> HIDE DEF n, P, away, Q
      <4>1. \A q : Places(n, r, InHand(q)) = {r - q} /\ Places(n, r, Before(q)) = {}
        BY PlacesAre
      <4>2. Places(n, r, Before(p)) = {}
        BY <4>1
      <4> QED
        BY <4>2 DEF Q
    <3> HIDE DEF P, Q, n
    <3> QED
      BY <3>1, <3>2, StackSmall
  <2> HIDE DEF P, Q, n
  <2> QED
    BY <2>1, <2>2, <2>3, <2>4, <2>5, PilesAre
<1>3. /\ \A x \in Piles : Places(n, r, x) \subseteq 1 .. n
      /\ \A x, y \in Piles : Places(n, r, x) \cap Places(n, r, y) # {} => x = y
      /\ \A i \in 1 .. n : \E x \in Piles : i \in Places(n, r, x)
  <2> HIDE DEF n
  <2> QED
    BY <1>0, PlacesPart
<1>9. away \in Seq(LetterCards)
  <2>1. PutAway \in Piles /\ P(PutAway) = away
    BY PilesAre, PileOf
  <2> QED
    BY <1>2, <2>1 DEF Stacks
<1>10. \A i, j \in 1 .. n : s[i] = s[j] => i = j
  BY <1>1, StackShape
<1>11. ToSet(s) = {s[i] : i \in 1 .. n}
  BY <1>1, StackShape DEF ToSet
<1> HIDE DEF P, n, away
<1>4. ASSUME NEW x \in Piles, NEW y \in Piles, Q(x) \cap Q(y) # {}
      PROVE  x = y
  <2>1. PICK i \in Places(n, r, x), j \in Places(n, r, y) : s[i] = s[j]
    BY <1>4
  <2>2. i = j
    BY <1>3, <1>10, <2>1
  <2> QED
    BY <1>3, <2>1, <2>2
<1>5. UNION {Q(x) : x \in Piles} = ToSet(s)
  <2>1. \A x \in Piles : Q(x) \subseteq ToSet(s)
    BY <1>3, <1>11
  <2>2. ASSUME NEW c \in ToSet(s)
        PROVE  \E x \in Piles : c \in Q(x)
    <3>1. PICK i \in 1 .. n : c = s[i]
      BY <1>11
    <3>2. PICK x \in Piles : i \in Places(n, r, x)
      BY <1>3
    <3> QED
      BY <3>1, <3>2
  <2> HIDE DEF Q
  <2> QED
    BY <2>1, <2>2
<1> HIDE DEF Q
<1>6. /\ \A x \in Piles : IsInjective(P(x))
      /\ \A x, y \in Piles : ToSet(P(x)) \cap ToSet(P(y)) # {} => x = y
      /\ UNION {ToSet(P(x)) : x \in Piles} = ToSet(s)
  <2>1. \A x \in Piles : IsInjective(P(x))
    BY <1>2 DEF Stacks
  <2>2. \A x, y \in Piles : ToSet(P(x)) \cap ToSet(P(y)) # {} => x = y
    BY <1>2, <1>4
  <2>3. UNION {ToSet(P(x)) : x \in Piles} = UNION {Q(x) : x \in Piles}
    BY <1>2
  <2> QED
    BY <1>5, <2>1, <2>2, <2>3
<1>7. EachOnce(g, away, ToSet(s))
  BY <1>6 DEF EachOnce, P
<1>8. Dealt(g, away, ToSet(s))
  BY <1>1, <1>7, <1>9 DEF Dealt
<1> QED
  BY <1>8 DEF away, n

\* How each seat is when a round begins, and the round that s and r cards to deal give.
SatDown(q, card) ==
    [q EXCEPT !.protect = FALSE, !.discards = <<>>, !.bet = Nobody, !.alive = TRUE,
              !.hand = <<card>>]
Opened(s, r) ==
    [deck |-> SubSeq(s, 1, r - Guests), burn |-> Last(s),
     info |-> [p \in Ladies |-> SatDown(info[p], s[r - p])],
     current |-> first, first |-> first, sycophant |-> sycophant, bishop |-> Nobody,
     m |-> FoldSet(LAMBDA p, m : Mask!SetReady(m, p), Mask!ClearReady(heeded), Ladies)]

\* If all are seated, the player p is the one with the number p + 1.
LEMMA WhoSitsWhere ==
  ASSUME LetterAssumption
  PROVE  /\ Cardinality(Ladies) = Guests
         /\ \A p \in Ladies : Cardinality({q \in Ladies : q <= p}) = p + 1
<1>0. Guests \in Nat /\ Guests \in Int /\ 0 \in Int /\ Ladies = 0 .. Guests - 1
  BY DEF LetterAssumption, Ladies
<1>1. Cardinality(Ladies) = Guests
  BY <1>0, FS_Interval
<1>2. ASSUME NEW p \in Ladies
      PROVE  Cardinality({q \in Ladies : q <= p}) = p + 1
  <2>1. p \in Int /\ 0 <= p /\ {q \in Ladies : q <= p} = 0 .. p
    BY <1>0
  <2>2. Cardinality(0 .. p) = p - 0 + 1 /\ p - 0 + 1 = p + 1
    BY <1>0, <2>1, FS_Interval
  <2> QED
    BY <2>1, <2>2, Zenon
<1> QED
  BY <1>1, <1>2

\* BeginRound while nobody has left.
LEMMA RoundIsOpened ==
  ASSUME LetterAssumption, NoneLeft(Table), NEW s \in Shuffles, BeginRound(s),
         NEW r, r = Len(s) - 1 - Away
  PROVE  /\ Settled(TurnOf(Opened(s, r), first))
         /\ removed' = SubSeq(s, r + 1, Len(s) - 1)
<1>0. Guests \in Nat /\ Ladies = 0 .. Guests - 1 /\ Away \in Nat
  BY DEF LetterAssumption, Ladies, Away
<1>1. {p \in Ladies : ~info[p].left} = Ladies
  BY DEF NoneLeft, Table
<1>2. s \in Seq(LetterCards \ {NoCard})
  BY DEF LetterAssumption
<1>3. Len(s) \in Nat /\ r \in Int
  BY <1>0, <1>2
<1> DEFINE place(p) == Cardinality({q \in Ladies : q <= p})
           inf == [p \in Ladies |->
                     [info[p] EXCEPT !.protect = FALSE, !.discards = <<>>, !.bet = Nobody,
                         !.alive = @ \/ p \in Ladies,
                         !.hand = IF p \in Ladies THEN <<s[r - place(p) + 1]>> ELSE <<>>]]
<1>4. inf = [p \in Ladies |-> SatDown(info[p], s[r - p])]
  <2>1. ASSUME NEW p \in Ladies
        PROVE  [info[p] EXCEPT !.protect = FALSE, !.discards = <<>>, !.bet = Nobody,
                         !.alive = @ \/ p \in Ladies,
                         !.hand = IF p \in Ladies THEN <<s[r - place(p) + 1]>> ELSE <<>>]
                   = SatDown(info[p], s[r - p])
    <3>1. place(p) = p + 1 /\ p \in Int
      BY <1>0, WhoSitsWhere
    <3> HIDE DEF place
    <3>2. r - place(p) + 1 = r - p
      BY <1>3, <3>1
    <3>3. (info[p].alive \/ p \in Ladies) = TRUE
      OBVIOUS
    <3> QED
      BY <3>2, <3>3 DEF SatDown
  <2> QED
    BY <2>1
<1> DEFINE g == [deck |-> SubSeq(s, 1, r - Cardinality(Ladies)), burn |-> Last(s), info |-> inf,
                 current |-> first, first |-> first,
                 sycophant |-> sycophant, bishop |-> Nobody,
                 m |-> FoldSet(LAMBDA p, m : Mask!SetReady(m, p), Mask!ClearReady(heeded), Ladies)]
<1>5. Settled(TurnOf(g, first)) /\ removed' = SubSeq(s, r + 1, Len(s) - 1)
  BY <1>1 DEF BeginRound
<1>6. g = Opened(s, r)
  <2>1. Cardinality(Ladies) = Guests
    BY WhoSitsWhere
  <2> HIDE DEF inf
  <2> QED
    BY <1>4, <2>1 DEF Opened
<1> QED
  BY <1>5, <1>6
\* Everybody has a card when a round opens, and nobody is awaited yet.
LEMMA OpenedIsRound ==
  ASSUME LetterAssumption, Table \in Rounds, NoneLeft(Table), Heard(Table.m, Ladies),
         NEW s \in Shuffles, NEW r, r = Len(s) - 1 - Away
  PROVE  LET g == Opened(s, r)
         IN  /\ g \in Rounds /\ OneEach(g) /\ NoneLeft(g) /\ Flattered(g)
             /\ g.bishop = Nobody /\ g.deck # <<>> /\ g.burn # NoCard /\ g.current = first
             /\ first \in Ladies /\ Len(g.info[first].hand) = 1 /\ Heard(g.m, {})
             /\ Dealt(g, SubSeq(s, r + 1, Len(s) - 1), ToSet(s))
<1> DEFINE n == Len(s)
           g == Opened(s, r)
           sat(p) == SatDown(info[p], s[r - p])
           masker == FoldSet(LAMBDA p, m : Mask!SetReady(m, p), Mask!ClearReady(heeded), Ladies)
<1>0. Guests \in Nat /\ Ladies = 0 .. Guests - 1 /\ Away \in Nat
  BY DEF LetterAssumption, Ladies, Away
<1>1. /\ s \in Seq(LetterCards \ {NoCard}) /\ IsInjective(s) /\ n \in Nat
      /\ n >= 1 + Away + Guests + 1
  BY DEF LetterAssumption
<1>2. r \in Nat /\ r < n /\ Guests + 1 <= r /\ Guests <= r
  BY <1>0, <1>1
<1>3. \A i \in 1 .. n : s[i] \in LetterCards /\ s[i] # NoCard
  BY <1>1
<1>4. /\ info \in Seats /\ first \in Ladies /\ sycophant \in Ladies \cup {Nobody}
      /\ \A p \in Ladies : info[p].left = FALSE
      /\ Heard(heeded, Ladies)
  <2>1. /\ Table.info = info /\ Table.first = first /\ Table.sycophant = sycophant
        /\ Table.m = heeded
    BY DEF Table
  <2> HIDE DEF g
  <2>2. Table.info \in Seats /\ Table.first \in Ladies /\ Table.sycophant \in Ladies \cup {Nobody}
    BY DEF Rounds
  <2> QED
    BY <2>1, <2>2 DEF NoneLeft
<1>5. Heard(masker, {})
  BY <1>4, AllHeard
<1>6. ASSUME NEW p \in Ladies
      PROVE  /\ sat(p) \in Seat /\ sat(p).alive = TRUE /\ sat(p).protect = FALSE
             /\ sat(p).left = FALSE
             /\ sat(p).hand = <<s[r - p]>> /\ sat(p).discards = <<>>
  <2>1. info[p] \in Seat /\ info[p].left = FALSE
    BY <1>4 DEF Seats
  <2>2. r - p \in 1 .. n
    BY <1>0, <1>2
  <2>3. s[r - p] \in LetterCards
    BY <1>3, <2>2
  <2>4. <<s[r - p]>> \in Seq(LetterCards) /\ <<>> \in Seq(LetterCards)
    BY <2>3
  <2> HIDE DEF n, g, masker
  <2> QED
    BY <2>1, <2>4 DEF Seat, SatDown
<1>7. /\ g.deck = SubSeq(s, 1, r - Guests) /\ g.burn = Last(s) /\ g.current = first
      /\ g.first = first /\ g.sycophant = sycophant /\ g.bishop = Nobody /\ g.m = masker
      /\ g.info = [p \in Ladies |-> sat(p)]
      /\ g = [deck |-> g.deck, burn |-> g.burn, info |-> g.info, current |-> g.current,
              first |-> g.first, sycophant |-> g.sycophant, bishop |-> g.bishop, m |-> g.m]
  BY DEF Opened
<1> HIDE DEF sat, g, masker
<1>8. \A p \in Ladies : g.info[p] = sat(p)
  BY <1>7
<1>9. Last(s) = s[n] /\ n \in 1 .. n
  BY <1>0, <1>1 DEF Last
<1>10. Last(s) \in LetterCards /\ Last(s) # NoCard
  BY <1>3, <1>9
<1>11. SubSeq(s, 1, r - Guests) \in Seq(LetterCards) /\ SubSeq(s, 1, r - Guests) # <<>>
  <2>1. s \in Seq(LetterCards) /\ r - Guests \in 1 .. n
    BY <1>0, <1>1, <1>2
  <2>2. Len(SubSeq(s, 1, r - Guests)) = r - Guests /\ SubSeq(s, 1, r - Guests) \in Seq(LetterCards)
    BY <2>1, <1>0, <1>2
  <2> QED
    BY <2>1, <2>2
<1>12. masker \in Mask!Masker
  BY <1>5 DEF Heard
<1>13. g.info \in Seats
  BY <1>6, <1>7 DEF Seats
<1>14. g \in Rounds
  BY <1>4, <1>7, <1>10, <1>11, <1>12, <1>13 DEF Rounds
<1>15. \A p \in Ladies : Len(g.info[p].hand) = 1 /\ g.info[p].alive = TRUE
                          /\ g.info[p].protect = FALSE /\ g.info[p].left = FALSE
  <2> SUFFICES ASSUME NEW p \in Ladies
               PROVE  Len(g.info[p].hand) = 1 /\ g.info[p].alive = TRUE
                          /\ g.info[p].protect = FALSE /\ g.info[p].left = FALSE
    OBVIOUS
  <2>1. g.info[p] = sat(p)
    BY <1>8
  <2>2. Len(<<s[r - p]>>) = 1
    OBVIOUS
  <2>3. Len(sat(p).hand) = 1
    BY <1>6, <2>2
  <2>4. sat(p).alive = TRUE /\ sat(p).protect = FALSE /\ sat(p).left = FALSE
    BY <1>6
  <2> QED
    BY <2>1, <2>3, <2>4
<1>16. OneEach(g) /\ NoneLeft(g) /\ Flattered(g)
  <2>1. OneEach(g)
    BY <1>15 DEF OneEach
  <2>2. NoneLeft(g)
    BY <1>15 DEF NoneLeft
  <2>3. Flattered(g)
    BY <1>4, <1>7, <1>15 DEF Flattered, Reachable
  <2> QED
    BY <2>1, <2>2, <2>3
<1>17. Fresh(g, s, r)
  BY <1>6, <1>7, <1>8 DEF Fresh
<1>18. Dealt(g, SubSeq(s, r + 1, Len(s) - 1), ToSet(s))
  BY <1>1, <1>2, <1>17, FreshIsDealt DEF n
<1> QED
  BY <1>4, <1>5, <1>7, <1>10, <1>11, <1>14, <1>15, <1>16, <1>18 DEF g

\* The first turn of a round finds the game peaceful.
LEMMA BeginRoundIsPeaceful ==
  ASSUME LetterAssumption, LetterInv, absent = {}, NEW s \in Shuffles, BeginRound(s)
  PROVE  Peaceful(letter, Table, removed)'
<1> DEFINE r == Len(s) - 1 - Away
           g == Opened(s, r)
           h == TurnOf(g, first)
<1>1. Table \in Rounds /\ NoneLeft(Table) /\ Heard(Table.m, Ladies)
  BY DEF LetterInv, Peaceful
<1>2. Settled(h) /\ removed' = SubSeq(s, r + 1, Len(s) - 1)
  BY <1>1, RoundIsOpened
<1>3. /\ g \in Rounds /\ OneEach(g) /\ NoneLeft(g) /\ Flattered(g)
      /\ g.bishop = Nobody /\ g.deck # <<>> /\ g.burn # NoCard /\ g.current = first
      /\ first \in Ladies /\ Len(g.info[first].hand) = 1 /\ Heard(g.m, {})
      /\ Dealt(g, removed', ToSet(s))
  BY <1>1, <1>2, OpenedIsRound
<1> HIDE DEF g, r
<1>4. Waiting(h) /\ Keeps(g, h)
  BY <1>3, TurnBegins
<1> HIDE DEF h
<1>5. \E t \in Shuffles : Dealt(h, removed', ToSet(t))
  BY <1>3, <1>4 DEF Keeps
<1> QED
  BY <1>2, <1>4, <1>5, SettledPeacefully

-----------------------------------------------------------------------------
(* The specification.                                                       *)

\* A new game is peaceful.
LEMMA LetterStarts ==
  ASSUME LetterAssumption, LetterInit
  PROVE  LetterInv
<1>0. 0 \in Ladies
  BY DEF LetterAssumption, Ladies
<1>1. \A p \in Ladies : info[p] = NewGuest
  BY DEF LetterInit
<1>2. NewGuest \in Seat /\ NewGuest.left = FALSE
  <2>1. <<>> \in Seq(LetterCards)
    OBVIOUS
  <2> QED
    BY <2>1 DEF NewGuest, Seat
<1>3. info \in Seats
  BY <1>2 DEF LetterInit, Seats
<1>4. Mask!NewMasker \in Mask!Masker /\ Heard(Mask!NewMasker, Ladies)
  BY DEF Mask!NewMasker, Mask!Masker, Mask!ActiveState, Heard
<1>5. <<>> \in Seq(LetterCards)
  OBVIOUS
<1>6. Table \in Rounds
  BY <1>0, <1>3, <1>4, <1>5, NoCardIsOne DEF LetterInit, Table, Rounds
<1>7. Table.info = info /\ Table.m = heeded
  BY DEF Table
<1>8. NoneLeft(Table) /\ Heard(Table.m, Ladies)
  BY <1>1, <1>2, <1>4, <1>7 DEF NoneLeft, LetterInit
<1> QED
  BY <1>6, <1>8 DEF LetterInv, Peaceful, LetterInit

\* Every step keeps LetterInv.
LEMMA LetterGoesOn ==
  ASSUME LetterAssumption, LetterInv, [LetterNext]_letterVars
  PROVE  LetterInv'
<1>1. ASSUME absent' = absent, disturbed' = disturbed \/ (disturbed' = (absent # {})),
             absent = {} => Peaceful(letter, Table, removed)'
      PROVE  LetterInv'
  BY <1>1 DEF LetterInv
<1>2. CASE LetterOver
  <2>1. absent' = absent /\ disturbed' = disturbed /\ letter = "over"
    BY <1>2 DEF LetterOver
  <2>2. absent # {}
    BY <2>1 DEF LetterInv, Peaceful
  <2> QED
    BY <1>1, <2>1, <2>2
<1>3. CASE NextRound
  BY <1>1, <1>3, NextRoundIsPeaceful DEF NextRound
<1>4. ASSUME NEW s \in Shuffles, BeginRound(s)
      PROVE  LetterInv'
  BY <1>1, <1>4, BeginRoundIsPeaceful DEF BeginRound
<1>5. CASE LetterTimeout
  BY <1>1, <1>5, TimeoutIsPeaceful DEF LetterTimeout
<1>6. ASSUME NEW p \in Ladies, NEW at \in 1 .. 2, NEW target \in Ladies \cup {Nobody},
             NEW extra \in 0 .. 9 \cup {Nobody}, Play(p, at, target, extra)
      PROVE  LetterInv'
  <2>1. absent' = absent /\ disturbed' = disturbed
    BY <1>6 DEF Play, letterVars
  <2> QED
    BY <1>1, <1>6, <2>1, PlayIsPeaceful
<1>7. ASSUME NEW p \in Ladies, NEW choice \in BOOLEAN, BishopChoice(p, choice)
      PROVE  LetterInv'
  <2>1. absent' = absent /\ disturbed' = disturbed
    BY <1>7 DEF BishopChoice
  <2>2. absent = {} => Peaceful(letter, Table, removed)'
    BY <1>7, ChoiceIsPeaceful
  <2> QED
    BY <1>1, <2>1, <2>2
<1>8. ASSUME NEW p \in Ladies, LetterLeave(p)
      PROVE  LetterInv'
  <2>1. absent' # {} /\ disturbed' = TRUE
    BY <1>8 DEF LetterLeave
  <2> QED
    BY <2>1 DEF LetterInv
<1>9. CASE UNCHANGED letterVars
  BY <1>9 DEF LetterInv, letterVars, Peaceful, Table
<1> QED
  BY <1>2, <1>3, <1>4, <1>5, <1>6, <1>7, <1>8, <1>9 DEF LetterNext, LetterInternal

\* While nobody leaves, the one who is awaited can act: whose turn it is has drawn, the
\* bishop's target has a card to give up, a flatterer's target can be reached, and the
\* card that was put away is still there to be drawn (RoundStage of mygame.cc).
THEOREM LetterIsPeaceful ==
  ASSUME LetterAssumption
  PROVE  LetterSpec => []LetterInv
<1>1. LetterInit => LetterInv
  BY LetterStarts
<1>2. LetterInv /\ [LetterNext]_letterVars => LetterInv'
  BY LetterGoesOn
<1> QED
  BY <1>1, <1>2, PTL DEF LetterSpec

\* Until somebody leaves, every card of the shuffle is in exactly one place, whatever is
\* played, swapped, guessed or thrown out (player_infos_, deck_ and the cards put away).
THEOREM NoLetterIsLost ==
  ASSUME LetterAssumption
  PROVE  LetterSpec => []EveryLetterOnce
<1>1. LetterInv => EveryLetterOnce
  BY DEF LetterInv, Peaceful, EveryLetterOnce, Dealt
<1> QED
  BY <1>1, LetterIsPeaceful, PTL

\* Until somebody leaves, every hand has the number of cards the turn calls for: no
\* handler finds a hand empty that it takes a card from.
THEOREM HandsStayRight ==
  ASSUME LetterAssumption
  PROVE  LetterSpec => []HandsAreRight
<1>1. ASSUME LetterInv, letter = "wait", ~disturbed, NEW p \in Ladies
      PROVE  Len(info[p].hand) = IF ~info[p].alive THEN 0
                                 ELSE IF p = current /\ bishop = Nobody THEN 2 ELSE 1
  <2> DEFINE g == Table
  <2>1. Waiting(g)
    BY <1>1 DEF LetterInv, Peaceful
  <2>2. g.info = info /\ g.current = current /\ g.bishop = bishop
    BY DEF Table
  <2> HIDE DEF g
  <2>3. CASE Turning(g)
    BY <2>2, <2>3 DEF Turning, DrawnFor
  <2>4. CASE Choosing(g)
    BY <2>2, <2>4, NobodyIsNone DEF Choosing, OneEach
  <2> QED
    BY <2>1, <2>3, <2>4 DEF Waiting
<1>2. LetterInv => HandsAreRight
  BY <1>1 DEF HandsAreRight
<1> QED
  BY <1>2, LetterIsPeaceful, PTL

=============================================================================
