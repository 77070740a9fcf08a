-------------------------- MODULE GameSessionProofs --------------------------
(***************************************************************************)
(* Proofs about GameSession, for every number of players, every choice of   *)
(* computers and every bound on stages and timers.                          *)
(***************************************************************************)
EXTENDS GameSession, TLAPS

\* Every method of the masker returns a masker.
LEMMA MaskerClosed ==
  ASSUME NEW m \in Masker, NEW p \in Players, NEW S \in SUBSET Players
  PROVE  /\ SilentlySetReady(m, p) \in Masker
         /\ SetReady(m, p) \in Masker
         /\ UnsetReady(m, p) \in Masker
         /\ ClearReady(m) \in Masker
         /\ SetTemporaryInactive(m, S) \in Masker
         /\ SetPermanentInactive(m, p) \in Masker
         /\ SetActive(m, p) \in Masker
<1>1. /\ SilentlySetReady(m, p) \in Masker
      /\ SetReady(m, p) \in Masker
      /\ UnsetReady(m, p) \in Masker
      /\ ClearReady(m) \in Masker
  BY DEF Masker, SilentlySetReady, SetReady, UnsetReady, ClearReady
<1>2. /\ SetTemporaryInactive(m, S) \in Masker
      /\ Inactivate(m, {p}, "PERMANENTLY_INACTIVE") \in Masker
  BY DEF Masker, SetTemporaryInactive, Inactivate, ActiveState
<1>3. SetPermanentInactive(m, p) \in Masker
  BY <1>2 DEF Masker, SetPermanentInactive
<1>4. SetActive(m, p) \in Masker
  BY DEF Masker, SetActive, ActiveState
<1> QED BY <1>1, <1>2, <1>3, <1>4

\* Which players are inactive is changed by the methods that say so, for the
\* players they are given.
LEMMA MaskerActive ==
  ASSUME NEW m \in Masker, NEW p \in Players, NEW S \in SUBSET Players, NEW q \in Players
  PROVE  /\ SilentlySetReady(m, p).active = m.active
         /\ SetReady(m, p).active = m.active
         /\ UnsetReady(m, p).active = m.active
         /\ ClearReady(m).active = m.active
         /\ SetTemporaryInactive(m, S).active[q] = "PERMANENTLY_INACTIVE"
               => m.active[q] = "PERMANENTLY_INACTIVE"
         /\ SetPermanentInactive(m, p).active[q] = "PERMANENTLY_INACTIVE"
               => q = p \/ m.active[q] = "PERMANENTLY_INACTIVE"
         /\ SetActive(m, p).active[q] = "PERMANENTLY_INACTIVE"
               => m.active[q] = "PERMANENTLY_INACTIVE"
<1>1. /\ SilentlySetReady(m, p).active = m.active
      /\ SetReady(m, p).active = m.active
      /\ UnsetReady(m, p).active = m.active
      /\ ClearReady(m).active = m.active
  BY DEF Masker, SilentlySetReady, SetReady, UnsetReady, ClearReady
<1>2. SetTemporaryInactive(m, S).active[q] = "PERMANENTLY_INACTIVE"
         => m.active[q] = "PERMANENTLY_INACTIVE"
  BY DEF Masker, SetTemporaryInactive, Inactivate
<1>3. SetPermanentInactive(m, p).active[q] = "PERMANENTLY_INACTIVE"
         => q = p \/ m.active[q] = "PERMANENTLY_INACTIVE"
  BY DEF Masker, SetPermanentInactive, Inactivate
<1>4. SetActive(m, p).active[q] = "PERMANENTLY_INACTIVE"
         => m.active[q] = "PERMANENTLY_INACTIVE"
  BY DEF Masker, SetActive
<1> QED BY <1>1, <1>2, <1>3, <1>4

\* A player who comes back makes nobody else's wait shorter.
LEMMA ActivationKeepsWaiting ==
  ASSUME NEW m \in Masker, NEW p \in Players, Ok(SetActive(m, p))
  PROVE  Ok(m)
BY DEF Masker, SetActive, Ok

-----------------------------------------------------------------------------

\* Type correctness.

LEMMA TypesOfTimers ==
  ASSUME SessionAssumption, timers \in TimersType, stages \in Stages
  PROVE  /\ Stopped \in TimersType
         /\ timers.started < MaxTimer => Started \in TimersType
         /\ \A g \in Timers, r \in {"fired", "spent"} :
               [timers EXCEPT !.run = [@ EXCEPT ![g] = r]] \in TimersType
<1> USE DEF SessionAssumption, TimersType, Stages, Timers, NoTimer
<1>1. Stopped \in TimersType
  BY DEF Stopped
<1>2. timers.started < MaxTimer => Started \in TimersType
  <2> DEFINE g == timers.started + 1
  <2> SUFFICES ASSUME timers.started < MaxTimer PROVE Started \in TimersType
    OBVIOUS
  <2>1. /\ g \in 1 .. MaxTimer /\ g \in 0 .. MaxTimer /\ stages.number \in 0 .. MaxStage
        /\ timers.run \in [1 .. MaxTimer -> {"armed", "fired", "spent"}]
        /\ timers.stage \in [1 .. MaxTimer -> 0 .. MaxStage]
    OBVIOUS
  <2>2. /\ [timers.run EXCEPT ![g] = "armed"] \in [1 .. MaxTimer -> {"armed", "fired", "spent"}]
        /\ [timers.stage EXCEPT ![g] = stages.number] \in [1 .. MaxTimer -> 0 .. MaxStage]
    BY <2>1
  <2>3. Started = [timers EXCEPT !.current = g, !.started = g,
                                 !.run = [timers.run EXCEPT ![g] = "armed"],
                                 !.stage = [timers.stage EXCEPT ![g] = stages.number]]
    BY DEF Started
  <2> HIDE DEF g
  <2> QED
    BY <2>1, <2>2, <2>3
<1>3. \A g \in Timers, r \in {"fired", "spent"} :
         [timers EXCEPT !.run = [@ EXCEPT ![g] = r]] \in TimersType
  OBVIOUS
<1> QED BY <1>1, <1>2, <1>3

LEMMA TypesOfCall ==
  ASSUME SessionAssumption, call \in Call
  PROVE  /\ 0 \in Players /\ IdleCall \in Call
         /\ \A c \in Callbacks, p \in Players : Run(c, p) => pc' \in PCs /\ call' \in Call
         /\ \A l \in {"unwind", "handle"}, rc \in Codes :
               Return(l, rc) => pc' \in PCs /\ call' \in Call
         /\ \A p \in Players : Turn(p) \in Call
<1> USE DEF SessionAssumption, Call, Codes
<1>1. 0 \in Players /\ N > 0
  BY DEF Players, Users
<1>2. IdleCall \in Call
  BY <1>1 DEF IdleCall
<1>3. \A c \in Callbacks, p \in Players : Run(c, p) => pc' \in PCs /\ call' \in Call
  BY DEF Run, PCs
<1>4. \A l \in {"unwind", "handle"}, rc \in Codes :
         Return(l, rc) => pc' \in PCs /\ call' \in Call
  BY <1>1 DEF Return, PCs
<1>5. \A p \in Players : Turn(p) \in Call
  <2> SUFFICES ASSUME NEW p \in Players PROVE Turn(p) \in Call
    OBVIOUS
  <2>1. (p + 1) % N \in Players
    BY <1>1 DEF Players
  <2> QED
    BY <2>1 DEF Turn
<1> QED BY <1>1, <1>2, <1>3, <1>4, <1>5

LEMMA InitTypes == Init => TypeOK
<1> SUFFICES ASSUME Init PROVE TypeOK
  OBVIOUS
<1>1. 0 \in Players
  BY SessionAssumption DEF SessionAssumption, Players, Users
<1>2. masker \in Masker
  BY DEF Init, NewMasker, Masker, ActiveState
<1>3. stages \in Stages /\ timers \in TimersType
  BY SessionAssumption DEF SessionAssumption, Init, Stages, TimersType, NoTimer
<1>4. call \in Call
  BY <1>1, SessionAssumption DEF SessionAssumption, Init, IdleCall, Call, Codes
<1> QED
  BY <1>2, <1>3, <1>4 DEF Init, TypeOK, PlayerState, PCs

LEMMA TypesStep == TypeOK /\ [Next]_vars => TypeOK'
<1> SUFFICES ASSUME TypeOK, [Next]_vars PROVE TypeOK'
  OBVIOUS
<1> USE SessionAssumption DEF bot
<1>t. /\ masker \in Masker /\ timers \in TimersType /\ stages \in Stages /\ call \in Call
      /\ slot \in [Players -> PlayerState] /\ mirror \in [Players -> PlayerState]
      /\ gone \subseteq Users /\ pc \in PCs
  BY DEF TypeOK
<1>p. call.actor \in Players /\ call.next \in Players
  BY <1>t DEF Call
<1>n. /\ MaxDepth \in Nat /\ 0 \in 0 .. MaxDepth /\ 1 \in 0 .. MaxDepth /\ MaxStage \in Nat
      /\ stages.depth \in 0 .. MaxDepth /\ stages.overFrom \in 0 .. MaxDepth
      /\ stages.number \in 0 .. MaxStage /\ stages.atomic \in BOOLEAN
  BY <1>t DEF SessionAssumption, Stages
<1>m. \A d, o \in 0 .. MaxDepth, a \in BOOLEAN, n \in 0 .. MaxStage :
         /\ [depth |-> d, atomic |-> a, overFrom |-> o, number |-> n] \in Stages
         /\ [stages EXCEPT !.depth = d, !.atomic = a, !.overFrom = o] \in Stages
         /\ [stages EXCEPT !.overFrom = o] \in Stages
  BY <1>t DEF Stages
<1>s. \A u \in Users : u \in Players
  BY DEF Users
<1>1. CASE Start
  <2>1. stages' \in Stages
    <3>1. CASE BeginAtomic(1)
      <4>1. stages.number + 1 \in 0 .. MaxStage
        BY <1>n, <3>1 DEF BeginAtomic
      <4> QED
        BY <1>n, <1>m, <3>1, <4>1 DEF BeginAtomic
    <3>2. CASE BeginCompound(1)
      BY <1>n, <1>m, <3>2 DEF BeginCompound
    <3> QED
      BY <1>1, <3>1, <3>2 DEF Start
  <2> QED
    BY <1>1, <2>1, <1>t, TypesOfCall DEF Start, BeginAtomic, BeginCompound, TypeOK, Callbacks
<1>2. ASSUME NEW u \in Users, Execute(u)
      PROVE  TypeOK'
  <2>1. stages' \in Stages /\ timers' \in TimersType
    BY <1>2, <1>t, TypesOfTimers DEF Execute, Terminate, Stages
  <2>2. pc' \in PCs /\ call' \in Call
    BY <1>2, <1>t, <1>s, TypesOfCall DEF Execute, Terminate, Callbacks, Codes
  <2>3. masker' \in Masker
    BY <1>2, <1>t, <1>s, MaskerClosed DEF Execute
  <2>4. slot' \in [Players -> PlayerState] /\ mirror' \in [Players -> PlayerState]
    BY <1>2, <1>t, <1>s DEF Execute, PlayerState
  <2> QED
    BY <1>2, <2>1, <2>2, <2>3, <2>4 DEF Execute, TypeOK
<1>3. ASSUME NEW u \in Users, Leave(u)
      PROVE  TypeOK'
  <2>1. pc' \in PCs /\ call' \in Call
    BY <1>3, <1>t, <1>s, TypesOfCall DEF Leave, Callbacks
  <2>2. masker' \in Masker
    BY <1>3, <1>t, <1>s, MaskerClosed DEF Leave
  <2> QED
    BY <1>3, <2>1, <2>2 DEF Leave, TypeOK
<1>4. ASSUME NEW g \in Timers, Fire(g) \/ Timeout(g)
      PROVE  TypeOK'
  <2>1. timers' \in TimersType
    BY <1>4, <1>t, TypesOfTimers DEF Fire, Timeout
  <2>2. pc' \in PCs /\ call' \in Call
    BY <1>4, <1>t, TypesOfCall DEF Fire, Timeout, Callbacks
  <2> QED
    BY <1>4, <2>1, <2>2 DEF Fire, Timeout, TypeOK
<1>5. CASE GameCall
  <2>1. timers' \in TimersType
    BY <1>5, <1>t, TypesOfTimers DEF GameCall
  <2>2. /\ masker' \in Masker
        /\ slot' \in [Players -> PlayerState] /\ mirror' \in [Players -> PlayerState]
        /\ deduction' \in BOOLEAN
    <3>1. CASE UNCHANGED <<slot, mirror, deduction>> /\ masker' \in Masker
      BY <3>1 DEF TypeOK
    <3>2. ASSUME NEW p \in Players, Eliminate(p)
          PROVE  <2>2!:
      BY <3>2, <1>t, MaskerClosed DEF Eliminate, PlayerState, TypeOK
    <3>3. ASSUME NEW S \in SUBSET Players, Hook(S)
          PROVE  <2>2!:
      <4>1. masker' \in Masker
        BY <3>3, <1>t, MaskerClosed, TypesOfCall DEF Hook
      <4>2. slot' \in [Players -> PlayerState] /\ mirror' \in [Players -> PlayerState]
        BY <3>3, <1>t DEF Hook, PlayerState
      <4> QED
        BY <3>3, <4>1, <4>2 DEF Hook, TypeOK
    <3>4. Unready \in SUBSET Players
      BY DEF Unready
    <3>5. \A p \in Players : /\ SetReady(masker, p) \in Masker
                             /\ UnsetReady(masker, p) \in Masker
                             /\ ClearReady(masker) \in Masker
      BY <1>t, MaskerClosed
    <3>6. \A p \in Players : {p} \in SUBSET Players
      OBVIOUS
    <3>7. masker \in Masker /\ 0 \in Players /\ ClearReady(masker) \in Masker
      BY <1>t, <3>5, TypesOfCall
    <3> QED
      BY <1>5, <3>1, <3>2, <3>3, <3>4, <3>5, <3>6, <3>7 DEF GameCall
  <2> QED
    BY <1>5, <2>1, <2>2 DEF GameCall, TypeOK
<1>6. CASE ReturnBegin \/ ReturnAct \/ ReturnCheckoutCode
  <2>1. pc' \in PCs /\ call' \in Call
    BY <1>6, <1>t, TypesOfCall DEF ReturnBegin, ReturnAct, ReturnCheckoutCode, Codes
  <2>2. masker' \in Masker
    BY <1>6, <1>t, <1>p, MaskerClosed DEF ReturnBegin, ReturnAct, ReturnCheckoutCode
  <2> QED
    BY <1>6, <2>1, <2>2 DEF ReturnBegin, ReturnAct, ReturnCheckoutCode, TypeOK
<1>7. CASE Handle
  <2>1. pc' \in PCs /\ call' \in Call
    <3>1. call.rc \in Codes
      BY <1>t DEF Call
    <3> QED
      BY <1>7, <1>t, <3>1, TypesOfCall DEF Handle, Callbacks
  <2>2. timers' \in TimersType /\ stages' \in Stages
    BY <1>7, <1>t, TypesOfTimers DEF Handle, Stages
  <2> QED
    BY <1>7, <2>1, <2>2 DEF Handle, TypeOK
<1>8. CASE Checkout
  <2>1. pc' \in PCs /\ call' \in Call
    BY <1>8, <1>t DEF Checkout, PCs, Call, Callbacks, Codes
  <2>2. timers' \in TimersType
    BY <1>8, <1>t, TypesOfTimers DEF Checkout
  <2>3. stages' \in Stages
    <3>1. stages.overFrom - 1 \in 0 .. MaxDepth
      BY <1>8, <1>n DEF Checkout
    <3> QED
      BY <1>8, <1>n, <1>m, <3>1 DEF Checkout
  <2> QED
    BY <1>8, <2>1, <2>2, <2>3 DEF Checkout, TypeOK
<1>9. CASE ReturnSubStage
  <2>1. pc' \in PCs /\ call' \in Call
    BY <1>9, <1>t, TypesOfCall
       DEF ReturnSubStage, BeginAtomic, BeginCompound, Callbacks, Codes
  <2>2. masker' \in Masker
    BY <1>9, <1>t, TypesOfCall, MaskerClosed DEF ReturnSubStage
  <2>3. stages' \in Stages
    <3>1. CASE stages.depth < MaxDepth /\ BeginAtomic(stages.depth + 1)
      <4>1. stages.depth + 1 \in 0 .. MaxDepth
        BY <1>n, <3>1
      <4>2. stages.number + 1 \in 0 .. MaxStage
        BY <1>n, <3>1 DEF BeginAtomic
      <4> QED
        BY <1>n, <1>m, <3>1, <4>1, <4>2 DEF BeginAtomic
    <3>2. CASE stages.depth + 1 < MaxDepth /\ BeginCompound(stages.depth + 1)
      <4>1. stages.depth + 1 \in 0 .. MaxDepth
        BY <1>n, <3>2
      <4> QED
        BY <1>n, <1>m, <3>2, <4>1 DEF BeginCompound
    <3>3. CASE stages' = [stages EXCEPT !.overFrom = stages.depth]
      BY <1>n, <1>m, <3>3
    <3> QED
      BY <1>9, <3>1, <3>2, <3>3 DEF ReturnSubStage
  <2> QED
    BY <1>9, <2>1, <2>2, <2>3 DEF ReturnSubStage, TypeOK
<1>10. CASE ReturnCompoundLeave
  <2>1. pc' \in PCs /\ call' \in Call
    BY <1>10, <1>t, TypesOfCall DEF ReturnCompoundLeave, Callbacks
  <2>2. masker' \in Masker
    BY <1>10, <1>t, <1>p, MaskerClosed DEF ReturnCompoundLeave
  <2> QED
    BY <1>10, <2>1, <2>2 DEF ReturnCompoundLeave, TypeOK
<1>11. CASE GameOver
  <2>1. timers' \in TimersType
    BY <1>11, <1>t, TypesOfTimers DEF GameOver
  <2>2. stages' \in Stages
    BY <1>11, <1>n, <1>m DEF GameOver
  <2> QED
    BY <1>11, <1>t, <2>1, <2>2, TypesOfCall DEF GameOver, TypeOK, PCs
<1>12. CASE BackToRoutine
  <2> DEFINE k == IF call.routine /\ call.rc = "OK" /\ ~call.moved
                  THEN call.okCount + 1 ELSE 0
  <2>1. call' \in Call
    <3>1. k \in Nat
      BY <1>t DEF Call
    <3>2. call' = [IdleCall EXCEPT !.routine = TRUE, !.next = call.next, !.okCount = k]
      BY <1>12 DEF BackToRoutine
    <3> HIDE DEF k
    <3> QED
      BY <1>t, <1>p, <3>1, <3>2, TypesOfCall DEF Call
  <2> QED
    BY <1>12, <2>1 DEF BackToRoutine, TypeOK, PCs
<1>13. CASE RoutineEnds
  BY <1>13, <1>t, TypesOfCall DEF RoutineEnds, TypeOK, PCs
<1>14. CASE RoutineSkips
  <2>1. call' \in Call
    BY <1>14, <1>t, <1>p, TypesOfCall DEF RoutineSkips, Call
  <2> QED
    BY <1>14, <2>1 DEF RoutineSkips, TypeOK
<1>15. CASE ComputerAct
  <2>1. call' \in Call /\ pc' \in PCs
    BY <1>15, <1>t, <1>p, TypesOfCall DEF ComputerAct, Call, PCs, Callbacks, Codes
  <2>2. timers' \in TimersType
    BY <1>15, <1>t, TypesOfTimers DEF ComputerAct
  <2>3. stages' \in Stages
    BY <1>15, <1>t DEF ComputerAct, Stages
  <2> QED
    BY <1>15, <2>1, <2>2, <2>3 DEF ComputerAct, TypeOK
<1>16. CASE UNCHANGED vars
  BY <1>16 DEF vars, TypeOK
<1> QED
  BY <1>1, <1>2, <1>3, <1>4, <1>5, <1>6, <1>7, <1>8, <1>9, <1>10, <1>11, <1>12,
     <1>13, <1>14, <1>15, <1>16 DEF Next

\* In every behaviour the players, the stages, the timers and the call under way
\* keep their types: the nest never leaves its bounds and the loop of Routine never
\* asks a player that does not exist.
THEOREM SessionTypeCorrect == Spec => []TypeOK
BY InitTypes, TypesStep, PTL DEF Spec

-----------------------------------------------------------------------------

\* The two sides agree.

LEMMA SidesStep == TypeOK /\ SidesAgree /\ [Next]_vars => SidesAgree'
<1> SUFFICES ASSUME TypeOK, SidesAgree, [Next]_vars PROVE SidesAgree'
  OBVIOUS
<1>t. slot \in [Players -> PlayerState] /\ mirror = slot /\ Users \subseteq Players
  BY DEF TypeOK, SidesAgree, Users
<1>1. ASSUME NEW u \in Users, Execute(u)
      PROVE  SidesAgree'
  <2>1. mirror' = slot' /\ deduction' = deduction
    BY <1>1, <1>t DEF Execute
  <2>2. \A v \in Users : slot'[v] = "ELIMINATED" <=> slot[v] = "ELIMINATED"
    BY <1>1, <1>t DEF Execute
  <2> QED
    BY <2>1, <2>2 DEF SidesAgree
<1>2. ASSUME NEW p \in Players, Eliminate(p)
      PROVE  SidesAgree'
  <2>1. mirror' = slot'
    BY <1>2, <1>t DEF Eliminate
  <2>2. CASE slot[p] # "ELIMINATED"
    BY <1>2, <2>1, <2>2 DEF Eliminate, SidesAgree
  <2>3. CASE slot[p] = "ELIMINATED"
    <3>1. slot' = slot /\ deduction' = deduction
      BY <1>2, <1>t, <2>3 DEF Eliminate
    <3> QED
      BY <2>1, <3>1 DEF SidesAgree
  <2> QED
    BY <2>2, <2>3
<1>3. ASSUME NEW S \in SUBSET Players, Hook(S)
      PROVE  SidesAgree'
  <2>1. mirror' = slot' /\ deduction' = deduction
    BY <1>3, <1>t DEF Hook
  <2>2. \A v \in Users : slot'[v] = "ELIMINATED" <=> slot[v] = "ELIMINATED"
    BY <1>3, <1>t DEF Hook
  <2> QED
    BY <2>1, <2>2 DEF SidesAgree
<1>4. CASE UNCHANGED <<slot, mirror, deduction>>
  BY <1>4 DEF SidesAgree
<1>5. CASE GameCall
  <2>1. Unready \in SUBSET Players /\ \A p \in Players : {p} \in SUBSET Players
    BY DEF Unready
  <2> QED
    BY <1>2, <1>3, <1>4, <1>5, <2>1 DEF GameCall
<1>6. CASE ~GameCall /\ \A u \in Users : ~Execute(u)
  BY <1>4, <1>6
     DEF Next, vars, bot, Start, Leave, Fire, Timeout, ReturnBegin, ReturnAct,
         ReturnCheckoutCode, Handle, Checkout, ReturnSubStage, ReturnCompoundLeave,
         GameOver, BackToRoutine, RoutineEnds, RoutineSkips, ComputerAct
<1> QED
  BY <1>1, <1>5, <1>6

\* The bot's record of the players never differs from the subprocess's, and the
\* subprocess plays on its own exactly when every user is eliminated: hooking,
\* activation by a command and elimination change both sides or neither.
THEOREM SidesAlwaysAgree == Spec => []SidesAgree
<1>1. Init => SidesAgree
  BY SessionAssumption DEF SessionAssumption, Init, SidesAgree, Users
<1> QED
  BY <1>1, InitTypes, TypesStep, SidesStep, PTL DEF Spec

-----------------------------------------------------------------------------

\* A command finds its player active.

\* Only players who left or were eliminated are permanently inactive, and a leave
\* that is still with the compound stages is that of a player who left.
PermanentOnlyGone ==
    /\ \A u \in Users : masker.active[u] = "PERMANENTLY_INACTIVE" =>
                           u \in gone \/ slot[u] = "ELIMINATED"
    /\ call.callback = "OnCompoundLeave" => call.actor \in gone

LEMMA PermanentStep == TypeOK /\ PermanentOnlyGone /\ [Next]_vars => PermanentOnlyGone'
<1> SUFFICES ASSUME TypeOK, PermanentOnlyGone, [Next]_vars PROVE PermanentOnlyGone'
  OBVIOUS
<1>t. /\ masker \in Masker /\ slot \in [Players -> PlayerState] /\ call \in Call
      /\ Users \subseteq Players
  BY DEF TypeOK, Users
<1>k. ASSUME \A u \in Users : masker'.active[u] = "PERMANENTLY_INACTIVE" =>
                 \/ masker.active[u] = "PERMANENTLY_INACTIVE"
                 \/ u \in gone' \/ slot'[u] = "ELIMINATED",
             gone \subseteq gone',
             \A u \in Users : slot[u] = "ELIMINATED" => slot'[u] = "ELIMINATED",
             \/ call'.callback # "OnCompoundLeave"
             \/ call'.callback = call.callback /\ call'.actor = call.actor
      PROVE  PermanentOnlyGone'
  BY <1>k DEF PermanentOnlyGone
<1>r. /\ \A c \in Callbacks, p \in Players :
            Run(c, p) => call'.callback = c /\ call'.actor = p
      /\ \A l \in {"unwind", "handle"}, rc \in Codes :
            Return(l, rc) => call'.callback = "none"
  BY <1>t DEF Run, Return, Call
<1>1. ASSUME NEW u \in Users, Execute(u)
      PROVE  PermanentOnlyGone'
  <2>1. call'.callback # "OnCompoundLeave"
    BY <1>1, <1>r, <1>t DEF Execute, Terminate, Callbacks, Codes
  <2>2. \A v \in Users : slot[v] = "ELIMINATED" => slot'[v] = "ELIMINATED"
    BY <1>1, <1>t DEF Execute
  <2>3. \A v \in Users : masker'.active[v] = "PERMANENTLY_INACTIVE" =>
           masker.active[v] = "PERMANENTLY_INACTIVE"
    BY <1>1, <1>t, MaskerActive DEF Execute
  <2> QED
    BY <1>1, <1>k, <2>1, <2>2, <2>3 DEF Execute
<1>2. ASSUME NEW u \in Users, Leave(u)
      PROVE  PermanentOnlyGone'
  <2>1. \A v \in Users : masker'.active[v] = "PERMANENTLY_INACTIVE" =>
           masker.active[v] = "PERMANENTLY_INACTIVE" \/ v \in gone'
    BY <1>2, <1>t, MaskerActive DEF Leave
  <2>2. call'.callback = "OnCompoundLeave" =>
           call'.actor = u \/ UNCHANGED call
    BY <1>2, <1>r, <1>t, TypesOfCall, SessionAssumption DEF Leave, Callbacks
  <2> QED
    BY <1>2, <2>1, <2>2 DEF Leave, PermanentOnlyGone
<1>3. CASE GameCall
  <2>1. gone' = gone /\ call' = call
    BY <1>3 DEF GameCall, bot
  <2>2. ASSUME NEW p \in Players, Eliminate(p)
        PROVE  PermanentOnlyGone'
    <3>1. \A v \in Users : masker'.active[v] = "PERMANENTLY_INACTIVE" =>
             masker.active[v] = "PERMANENTLY_INACTIVE" \/ v = p
      BY <2>2, <1>t, MaskerActive DEF Eliminate
    <3>2. slot'[p] = "ELIMINATED"
          /\ \A v \in Users : slot[v] = "ELIMINATED" => slot'[v] = "ELIMINATED"
      BY <2>2, <1>t DEF Eliminate
    <3> QED
      BY <1>k, <2>1, <3>1, <3>2
  <2>3. ASSUME NEW S \in SUBSET Players, Hook(S)
        PROVE  PermanentOnlyGone'
    <3>1. \A v \in Users : masker'.active[v] = "PERMANENTLY_INACTIVE" =>
             masker.active[v] = "PERMANENTLY_INACTIVE"
      BY <2>3, <1>t, MaskerActive, TypesOfCall, SessionAssumption DEF Hook
    <3>2. \A v \in Users : slot[v] = "ELIMINATED" => slot'[v] = "ELIMINATED"
      BY <2>3, <1>t DEF Hook
    <3> QED
      BY <1>k, <2>1, <3>1, <3>2
  <2>4. CASE UNCHANGED slot /\ masker'.active = masker.active
    BY <1>k, <2>1, <2>4
  <2>5. \A p \in Players : /\ SetReady(masker, p).active = masker.active
                           /\ UnsetReady(masker, p).active = masker.active
                           /\ ClearReady(masker).active = masker.active
    BY <1>t, MaskerActive
  <2>6. 0 \in Players /\ Unready \in SUBSET Players
        /\ \A p \in Players : {p} \in SUBSET Players
    BY <1>t, TypesOfCall, SessionAssumption DEF Unready
  <2>7. ClearReady(masker).active = masker.active
    BY <2>5, <2>6
  <2> QED
    BY <1>3, <2>2, <2>3, <2>4, <2>5, <2>6, <2>7 DEF GameCall
<1>4. CASE ReturnAct \/ ReturnSubStage
  <2>1. masker'.active = masker.active
    BY <1>4, <1>t, MaskerActive, TypesOfCall, SessionAssumption
       DEF ReturnAct, ReturnSubStage, Call
  <2>2. call'.callback # "OnCompoundLeave"
    BY <1>4, <1>t, <1>r, TypesOfCall, SessionAssumption
       DEF ReturnAct, ReturnSubStage, BeginAtomic, BeginCompound, Callbacks, Codes
  <2> QED
    BY <1>4, <1>k, <2>1, <2>2 DEF ReturnAct, ReturnSubStage, bot
<1>5. CASE ReturnCompoundLeave
  <2>1. call.actor \in gone /\ call.actor \in Players
    BY <1>5, <1>t DEF ReturnCompoundLeave, PermanentOnlyGone, Call
  <2>2. \A v \in Users : masker'.active[v] = "PERMANENTLY_INACTIVE" =>
           masker.active[v] = "PERMANENTLY_INACTIVE" \/ v = call.actor
    BY <1>5, <1>t, <2>1, MaskerActive DEF ReturnCompoundLeave
  <2>3. call'.callback # "OnCompoundLeave"
    BY <1>5, <1>r, TypesOfCall, <1>t, SessionAssumption DEF ReturnCompoundLeave, Callbacks
  <2> QED
    BY <1>5, <1>k, <2>1, <2>2, <2>3 DEF ReturnCompoundLeave, bot
<1>6. CASE UNCHANGED <<masker, slot, gone>> /\ call'.callback # "OnCompoundLeave"
  BY <1>6, <1>k
<1>7. CASE UNCHANGED <<masker, slot, gone, call>>
  BY <1>7, <1>k
<1>8. CASE Start \/ ReturnBegin \/ ReturnCheckoutCode \/ Handle
  <2>1. call'.callback # "OnCompoundLeave"
    BY <1>8, <1>r, <1>t, TypesOfCall, SessionAssumption
       DEF Start, ReturnBegin, ReturnCheckoutCode, Handle, BeginAtomic, BeginCompound,
           Callbacks, Codes, Call
  <2> QED
    BY <1>6, <1>8, <2>1 DEF Start, ReturnBegin, ReturnCheckoutCode, Handle, bot
<1>9. CASE Checkout \/ GameOver \/ BackToRoutine \/ RoutineEnds
  <2> DEFINE k == IF call.routine /\ call.rc = "OK" /\ ~call.moved
                  THEN call.okCount + 1 ELSE 0
  <2>1. call'.callback # "OnCompoundLeave"
    <3>1. CASE Checkout
      BY <3>1, <1>t DEF Checkout, Call
    <3>2. CASE GameOver \/ RoutineEnds
      BY <3>2 DEF GameOver, RoutineEnds, IdleCall
    <3>3. CASE BackToRoutine
      <4>1. call' = [IdleCall EXCEPT !.routine = TRUE, !.next = call.next, !.okCount = k]
        BY <3>3 DEF BackToRoutine
      <4> HIDE DEF k
      <4> QED
        BY <4>1 DEF IdleCall
    <3> QED
      BY <1>9, <3>1, <3>2, <3>3
  <2> QED
    BY <1>6, <1>9, <2>1 DEF Checkout, GameOver, BackToRoutine, RoutineEnds, bot
<1>10. ASSUME NEW g \in Timers, Fire(g) \/ Timeout(g)
       PROVE  PermanentOnlyGone'
  BY <1>6, <1>7, <1>10, <1>r, TypesOfCall, <1>t, SessionAssumption
     DEF Fire, Timeout, Callbacks, bot
<1>11. CASE RoutineSkips
  <2>1. call'.callback = call.callback /\ call'.actor = call.actor
    BY <1>11, <1>t DEF RoutineSkips, Turn, Call
  <2> QED
    BY <1>11, <1>k, <2>1 DEF RoutineSkips, bot
<1>12. CASE ComputerAct
  <2>1. \/ call'.callback = "OnComputerAct"
        \/ call'.callback = call.callback /\ call'.actor = call.actor
    BY <1>12, <1>t DEF ComputerAct, Turn, Call
  <2> QED
    BY <1>12, <1>k, <2>1 DEF ComputerAct, bot
<1>13. CASE UNCHANGED vars
  BY <1>7, <1>13 DEF vars
<1> QED
  BY <1>1, <1>2, <1>3, <1>4, <1>5, <1>8, <1>9, <1>10, <1>11, <1>12, <1>13 DEF Next

\* The assertion in PlayerReadyMasker::SetActive never fails: the checks the bot
\* makes before it sends a command leave no player through who left or was
\* eliminated, whatever the game hooked or eliminated in between.
THEOREM CommandsFindPlayersActive == Spec => []CommandFindsPlayerActive
<1>1. Init => SidesAgree /\ PermanentOnlyGone
  BY SessionAssumption
     DEF SessionAssumption, Init, SidesAgree, PermanentOnlyGone, NewMasker, IdleCall, Users
<1>2. SidesAgree /\ PermanentOnlyGone => CommandFindsPlayerActive
  BY DEF SidesAgree, PermanentOnlyGone, CommandFindsPlayerActive
<1> QED
  BY <1>1, <1>2, InitTypes, TypesStep, SidesStep, PermanentStep, PTL DEF Spec

-----------------------------------------------------------------------------

\* Nobody is left waiting.

\* Where the subprocess can be while the match is over or its nest is empty.
NestShape ==
    /\ over => pc = "idle"
    /\ pc # "lobby" /\ ~over => stages.depth > 0

\* Outside the code of the game and AtomicStage::Handle_ somebody is waited for,
\* unless a stage is over and still to be checked out.
WaitsForSomebody ==
    /\ pc \in {"idle", "routine"} /\ ~over => ~IsOkToCheckout
    /\ pc = "unwind" /\ stages.overFrom = 0 => ~IsOkToCheckout

LEMMA NestStep == TypeOK /\ NestShape /\ [Next]_vars => NestShape'
<1> SUFFICES ASSUME TypeOK, NestShape, [Next]_vars PROVE NestShape'
  OBVIOUS
<1> USE DEF NestShape, bot
<1>t. /\ stages \in Stages /\ stages.depth \in Nat /\ stages.overFrom \in Nat
      /\ MaxDepth \in Nat
  BY SessionAssumption DEF TypeOK, Stages, SessionAssumption
<1>d. /\ \A o \in Nat : [stages EXCEPT !.overFrom = o].depth = stages.depth
      /\ \A d, o \in Nat, a \in BOOLEAN :
            [stages EXCEPT !.depth = d, !.atomic = a, !.overFrom = o].depth = d
  BY <1>t DEF Stages
<1>b. \A d \in Nat : BeginAtomic(d) \/ BeginCompound(d) =>
                        stages'.depth = d /\ pc' = "callback"
  <2> SUFFICES ASSUME NEW d \in Nat, BeginAtomic(d) \/ BeginCompound(d)
               PROVE  stages'.depth = d /\ pc' = "callback"
    OBVIOUS
  <2>1. CASE BeginAtomic(d)
    BY <2>1 DEF BeginAtomic, Run
  <2>2. CASE BeginCompound(d)
    BY <2>2, <1>t DEF BeginCompound, Run, Stages
  <2> QED
    BY <2>1, <2>2
<1>e. ASSUME ~over, over' = over, stages'.depth > 0
      PROVE  NestShape'
  BY <1>e
<1>1. CASE Start
  BY <1>1, <1>b, <1>e DEF Start
<1>2. ASSUME NEW u \in Users, Execute(u)
      PROVE  NestShape'
  <2>1. stages'.depth = stages.depth
    <3>1. CASE UNCHANGED stages
      BY <3>1
    <3>2. ASSUME NEW l \in 1 .. stages.depth - 1, Terminate(l)
          PROVE  stages'.depth = stages.depth
      BY <3>2, <1>t DEF Terminate, Stages
    <3> QED
      BY <1>2, <3>1, <3>2 DEF Execute
  <2> QED
    BY <1>2, <2>1, <1>e DEF Execute
<1>3. ASSUME NEW u \in Users, Leave(u)
      PROVE  NestShape'
  BY <1>3 DEF Leave
<1>4. ASSUME NEW g \in Timers, Fire(g) \/ Timeout(g)
      PROVE  NestShape'
  BY <1>4 DEF Fire, Timeout, Run
<1>5. CASE GameCall \/ ReturnBegin \/ ReturnAct \/ ReturnCheckoutCode
           \/ ReturnCompoundLeave \/ BackToRoutine \/ RoutineEnds \/ RoutineSkips
  <2>1. UNCHANGED <<over, stages>> /\ pc \in {"callback", "unwind", "routine"}
    BY <1>5 DEF GameCall, ReturnBegin, ReturnAct, ReturnCheckoutCode,
                ReturnCompoundLeave, BackToRoutine, RoutineEnds, RoutineSkips
  <2> QED
    BY <2>1
<1>6. CASE Handle
  <2>1. stages'.depth = stages.depth
    BY <1>6, <1>d, <1>t DEF Handle
  <2> QED
    BY <1>6, <2>1, <1>e DEF Handle
<1>7. CASE Checkout
  <2>1. stages'.depth = stages.overFrom - 1 /\ stages'.depth > 0
    BY <1>7, <1>d, <1>t DEF Checkout
  <2> QED
    BY <1>7, <2>1, <1>e DEF Checkout
<1>8. CASE ReturnSubStage
  <2>1. stages.depth > 0 /\ stages.depth + 1 \in Nat
    BY <1>8, <1>t DEF ReturnSubStage
  <2>2. CASE BeginAtomic(stages.depth + 1) \/ BeginCompound(stages.depth + 1)
    BY <2>1, <2>2, <1>b, <1>t, <1>8, <1>e DEF ReturnSubStage
  <2>3. CASE stages' = [stages EXCEPT !.overFrom = stages.depth]
    <3>1. stages'.depth = stages.depth
      BY <2>3, <1>t DEF Stages
    <3> QED
      BY <3>1, <2>1, <1>8, <1>e DEF ReturnSubStage
  <2> QED
    BY <1>8, <2>2, <2>3 DEF ReturnSubStage
<1>9. CASE GameOver
  BY <1>9 DEF GameOver
<1>10. CASE ComputerAct
  <2>1. stages'.depth = stages.depth
    <3>1. CASE UNCHANGED stages
      BY <3>1
    <3>2. ASSUME NEW l \in 1 .. stages.depth - 1, stages' = [stages EXCEPT !.overFrom = l]
          PROVE  stages'.depth = stages.depth
      BY <3>2, <1>t DEF Stages
    <3> QED
      BY <1>10, <3>1, <3>2 DEF ComputerAct
  <2> QED
    BY <1>10, <2>1, <1>e DEF ComputerAct
<1>11. CASE UNCHANGED vars
  BY <1>11 DEF vars
<1> QED
  BY <1>1, <1>2, <1>3, <1>4, <1>5, <1>6, <1>7, <1>8, <1>9, <1>10, <1>11 DEF Next

LEMMA WaitStep ==
  TypeOK /\ NestShape /\ WaitsForSomebody /\ [Next]_vars => WaitsForSomebody'
<1> SUFFICES ASSUME TypeOK, NestShape, WaitsForSomebody, [Next]_vars
             PROVE  WaitsForSomebody'
  OBVIOUS
<1> USE DEF NestShape, WaitsForSomebody, bot
<1>t. /\ stages \in Stages /\ stages.depth \in Nat /\ stages.overFrom \in Nat
      /\ masker \in Masker /\ MaxDepth \in Nat
  BY SessionAssumption DEF TypeOK, Stages, SessionAssumption
<1>o. \A o \in Nat : [stages EXCEPT !.overFrom = o].overFrom = o
  BY <1>t DEF Stages
<1>i. ASSUME UNCHANGED <<masker, deduction>>
      PROVE  IsOkToCheckout' <=> IsOkToCheckout
  BY <1>i DEF IsOkToCheckout
<1>c. ASSUME pc' \in {"callback", "handle"}
      PROVE  WaitsForSomebody'
  BY <1>c
<1>u. ASSUME pc' = "unwind", stages'.overFrom > 0, stages'.overFrom \in Nat
      PROVE  WaitsForSomebody'
  BY <1>u
<1>b. \A d \in Nat : BeginAtomic(d) \/ BeginCompound(d) => pc' = "callback"
  BY DEF BeginAtomic, BeginCompound, Run
<1>1. CASE Start
  BY <1>1, <1>b, <1>c DEF Start
<1>2. ASSUME NEW u \in Users, Execute(u)
      PROVE  WaitsForSomebody'
  <2>1. CASE pc' = "callback"
    BY <2>1, <1>c
  <2>2. CASE pc' = "unwind" /\ UNCHANGED stages
    <3>1. ~IsOkToCheckout /\ masker' = SetActive(masker, u) /\ deduction' = deduction
      BY <1>2 DEF Execute
    <3>2. ~IsOkToCheckout'
      BY <3>1, <1>t, ActivationKeepsWaiting DEF IsOkToCheckout, Users
    <3> QED
      BY <2>2, <3>2
  <2>3. ASSUME NEW l \in 1 .. stages.depth - 1, Terminate(l)
        PROVE  WaitsForSomebody'
    BY <2>3, <1>o, <1>t, <1>u DEF Terminate, Return
  <2> QED
    BY <1>2, <2>1, <2>2, <2>3 DEF Execute, Run, Return
<1>3. ASSUME NEW u \in Users, Leave(u)
      PROVE  WaitsForSomebody'
  BY <1>3, <1>c DEF Leave, Run
<1>4. ASSUME NEW g \in Timers, Fire(g) \/ Timeout(g)
      PROVE  WaitsForSomebody'
  BY <1>4, <1>i, <1>c DEF Fire, Timeout, Run
<1>5. CASE GameCall \/ ReturnBegin \/ ReturnAct \/ ReturnCheckoutCode
           \/ ReturnCompoundLeave \/ Checkout
  <2>1. pc' \in {"callback", "handle"}
    BY <1>5 DEF GameCall, ReturnBegin, ReturnAct, ReturnCheckoutCode,
                ReturnCompoundLeave, Checkout, Run, Return
  <2> QED
    BY <2>1, <1>c
<1>6. CASE Handle
  <2>1. CASE pc' = "unwind" /\ stages' = [stages EXCEPT !.overFrom = stages.depth]
    <3>1. stages.depth > 0
      BY <1>6 DEF Handle
    <3> QED
      BY <2>1, <3>1, <1>o, <1>t, <1>u
  <2>2. CASE pc' = "unwind" /\ ~IsOkToCheckout
    BY <1>6, <1>i, <2>2 DEF Handle
  <2>3. CASE pc' = "callback"
    BY <2>3, <1>c
  <2> QED
    BY <1>6, <2>1, <2>2, <2>3 DEF Handle, Run, Return
<1>7. CASE ReturnSubStage
  <2>1. stages.depth > 0
    BY <1>7 DEF ReturnSubStage
  <2>2. CASE pc' = "callback"
    BY <2>2, <1>c
  <2>3. CASE pc' = "unwind" /\ stages' = [stages EXCEPT !.overFrom = stages.depth]
    BY <2>1, <2>3, <1>o, <1>t, <1>u
  <2> QED
    BY <1>7, <2>2, <2>3, <1>b, <1>t DEF ReturnSubStage, Return
<1>8. CASE GameOver
  BY <1>8 DEF GameOver
<1>9. CASE BackToRoutine \/ RoutineEnds \/ RoutineSkips
  <2>1. UNCHANGED <<masker, deduction, over>> /\ pc' \in {"idle", "routine"}
        /\ ~IsOkToCheckout
    BY <1>9 DEF BackToRoutine, RoutineEnds, RoutineSkips
  <2> QED
    BY <2>1, <1>i
<1>10. CASE ComputerAct
  <2>1. CASE pc' = "callback"
    BY <2>1, <1>c
  <2>2. CASE pc' = "unwind" /\ UNCHANGED stages
    BY <1>10, <1>i, <2>2 DEF ComputerAct
  <2>3. ASSUME NEW l \in 1 .. stages.depth - 1,
               pc' = "unwind", stages' = [stages EXCEPT !.overFrom = l]
        PROVE  WaitsForSomebody'
    BY <2>3, <1>o, <1>t, <1>u
  <2> QED
    BY <1>10, <2>1, <2>2, <2>3 DEF ComputerAct
<1>11. CASE UNCHANGED vars
  BY <1>11, <1>i DEF vars
<1> QED
  BY <1>1, <1>2, <1>3, <1>4, <1>5, <1>6, <1>7, <1>8, <1>9, <1>10, <1>11 DEF Next

\* Between two requests an unfinished match always waits for somebody: no command,
\* leave, timeout, act of a computer or chain of stages ends with a stage in which
\* nobody is left to act, for any game, any number of players and any nest.
THEOREM NobodyIsLeftWaiting == Spec => []NobodyLeftWaiting
<1>1. Init => NestShape /\ WaitsForSomebody
  BY DEF Init, NestShape, WaitsForSomebody
<1>2. WaitsForSomebody => NobodyLeftWaiting
  BY DEF WaitsForSomebody, NobodyLeftWaiting
<1> QED
  BY <1>1, <1>2, InitTypes, TypesStep, NestStep, WaitStep, PTL DEF Spec

-----------------------------------------------------------------------------

\* Timeouts meet their stage, unless the stage itself replaced the timer.

\* Where the innermost stage is an atomic one.
AtomicShape ==
    /\ pc = "lobby" => ~stages.atomic
    /\ pc \in {"idle", "routine", "handle"} /\ ~over => stages.atomic
    /\ pc = "unwind" /\ stages.overFrom = 0 => stages.atomic
    /\ pc = "callback" =>
          (stages.atomic <=> call.callback \notin {"FirstStageFsm", "NextStageFsm"})

\* Only an atomic stage has a timer, the one it started last; the others are done,
\* their flag is set, or the stage that started them replaced them itself.
TimerShape ==
    /\ ~stages.atomic => timers.current = NoTimer
    /\ timers.current # NoTimer =>
          timers.current = timers.started /\ timers.stage[timers.current] = stages.number
    /\ \A g \in Timers :
          g # timers.current => timers.run[g] = "spent" \/ g \in timers.cancelled \/ Replaced(g)

LEMMA AtomicStep == TypeOK /\ NestShape /\ AtomicShape /\ [Next]_vars => AtomicShape'
<1> SUFFICES ASSUME TypeOK, NestShape, AtomicShape, [Next]_vars
             PROVE  AtomicShape'
  OBVIOUS
<1> USE DEF bot
<1>t. /\ stages \in Stages /\ stages.depth \in Nat /\ stages.overFrom \in Nat
      /\ call \in Call
  BY SessionAssumption DEF TypeOK, Stages, SessionAssumption
<1>f. \A o \in Nat : [stages EXCEPT !.overFrom = o].overFrom = o
                     /\ [stages EXCEPT !.overFrom = o].atomic = stages.atomic
  BY <1>t DEF Stages
<1>u. ASSUME pc' = "unwind", stages'.overFrom > 0
      PROVE  AtomicShape'
  <2>1. stages'.overFrom # 0
    BY <1>u
  <2> QED
    BY <1>u, <2>1 DEF AtomicShape
<1>a. ASSUME stages'.atomic, pc' \in {"idle", "routine", "handle", "unwind"}
      PROVE  AtomicShape'
  BY <1>a DEF AtomicShape
<1>c. ASSUME NEW c \in Callbacks, NEW p, Run(c, p),
             stages'.atomic <=> c \notin {"FirstStageFsm", "NextStageFsm"}
      PROVE  AtomicShape'
  <2>1. pc' = "callback" /\ call'.callback = c
    BY <1>c, <1>t DEF Run, Call
  <2> QED
    BY <1>c, <2>1 DEF AtomicShape
<1>b. ASSUME NEW d \in Nat, BeginAtomic(d) \/ BeginCompound(d)
      PROVE  AtomicShape'
  <2>1. CASE BeginAtomic(d)
    <3>1. stages'.atomic /\ Run("OnStageBegin", 0)
      BY <2>1 DEF BeginAtomic
    <3> QED
      BY <3>1, <1>c DEF Callbacks
  <2>2. CASE BeginCompound(d)
    <3>1. ~stages'.atomic /\ Run("FirstStageFsm", 0)
      BY <2>2, <1>t DEF BeginCompound, Stages
    <3> QED
      BY <3>1, <1>c DEF Callbacks
  <2> QED
    BY <1>b, <2>1, <2>2
<1>o. ASSUME NEW l \in 1 .. stages.depth, stages' = [stages EXCEPT !.overFrom = l],
             pc' = "unwind"
      PROVE  AtomicShape'
  BY <1>o, <1>f, <1>t, <1>u
<1>1. CASE Start
  BY <1>1, <1>b DEF Start
<1>2. ASSUME NEW u \in Users, Execute(u)
      PROVE  AtomicShape'
  <2>1. stages.atomic
    BY <1>2 DEF Execute, AtomicShape
  <2>2. ASSUME NEW l \in 1 .. stages.depth - 1, Terminate(l)
        PROVE  AtomicShape'
    BY <2>2, <1>o, <1>t DEF Terminate, Return
  <2> QED
    BY <1>2, <2>1, <2>2, <1>c, <1>a DEF Execute, Return, Callbacks
<1>3. ASSUME NEW u \in Users, Leave(u)
      PROVE  AtomicShape'
  <2>1. stages.atomic /\ stages' = stages
    BY <1>3 DEF Leave, AtomicShape
  <2> QED
    BY <1>3, <2>1, <1>a, <1>c DEF Leave, Callbacks
<1>4. ASSUME NEW g \in Timers, Fire(g) \/ Timeout(g)
      PROVE  AtomicShape'
  <2>1. CASE UNCHANGED <<pc, call, stages, over>>
    BY <2>1 DEF AtomicShape
  <2>2. CASE ~over /\ pc = "idle" /\ UNCHANGED stages /\ Run("OnStageTimeout", 0)
    BY <2>2, <1>c DEF AtomicShape, Callbacks
  <2> QED
    BY <1>4, <2>1, <2>2 DEF Fire, Timeout
<1>5. CASE GameCall
  BY <1>5 DEF GameCall, AtomicShape
<1>6. CASE ReturnBegin \/ ReturnAct \/ ReturnCheckoutCode
  <2>1. stages.atomic /\ stages' = stages /\ pc' = "handle"
    BY <1>6 DEF ReturnBegin, ReturnAct, ReturnCheckoutCode, AtomicShape, Return
  <2> QED
    BY <2>1, <1>a
<1>7. CASE Handle
  <2>1. stages.atomic /\ stages.depth > 0 /\ stages.depth \in 1 .. stages.depth
    BY <1>7, <1>t DEF Handle, AtomicShape, NestShape
  <2> QED
    BY <1>7, <2>1, <1>o, <1>a, <1>c DEF Handle, Return, Callbacks
<1>8. CASE Checkout
  <2>1. ~stages'.atomic /\ pc' = "callback" /\ call'.callback = "NextStageFsm"
    BY <1>8, <1>t DEF Checkout, Stages, Call
  <2> QED
    BY <2>1 DEF AtomicShape
<1>9. CASE ReturnSubStage
  <2>1. stages.depth \in 1 .. stages.depth /\ stages.depth + 1 \in Nat
    BY <1>9, <1>t DEF ReturnSubStage, NestShape
  <2> QED
    BY <1>9, <2>1, <1>b, <1>o DEF ReturnSubStage, Return
<1>10. CASE ReturnCompoundLeave
  BY <1>10, <1>c DEF ReturnCompoundLeave, AtomicShape, Callbacks
<1>11. CASE GameOver
  BY <1>11 DEF GameOver, AtomicShape
<1>12. CASE BackToRoutine \/ RoutineEnds \/ RoutineSkips
  <2>1. CASE ~over
    <3>1. stages.atomic /\ stages' = stages /\ pc' \in {"idle", "routine"}
      BY <1>12, <2>1 DEF BackToRoutine, RoutineEnds, RoutineSkips, AtomicShape
    <3> QED
      BY <3>1, <1>a
  <2>2. CASE over
    BY <1>12, <2>2 DEF BackToRoutine, RoutineEnds, RoutineSkips, NestShape
  <2> QED
    BY <2>1, <2>2
<1>13. CASE ComputerAct
  <2>1. ~over /\ stages.atomic
    BY <1>13 DEF ComputerAct, AtomicShape, NestShape
  <2>2. CASE pc' = "unwind" /\ stages' = stages
    BY <2>1, <2>2, <1>a
  <2>3. CASE pc' = "callback" /\ stages' = stages
             /\ call' = [Turn(call.next) EXCEPT !.callback = "OnComputerAct",
                                                 !.actor = call.next]
    <3>1. call'.callback = "OnComputerAct"
      BY <2>3, <1>t DEF Turn, Call
    <3> QED
      BY <2>1, <2>3, <3>1 DEF AtomicShape
  <2>4. ASSUME NEW l \in 1 .. stages.depth - 1,
               stages' = [stages EXCEPT !.overFrom = l], pc' = "unwind"
        PROVE  AtomicShape'
    BY <2>4, <1>o, <1>t
  <2> QED
    BY <1>13, <2>2, <2>3, <2>4 DEF ComputerAct
<1>14. CASE UNCHANGED vars
  BY <1>14 DEF vars, AtomicShape
<1> QED
  BY <1>1, <1>2, <1>3, <1>4, <1>5, <1>6, <1>7, <1>8, <1>9, <1>10, <1>11, <1>12,
     <1>13, <1>14 DEF Next

LEMMA TimerStep ==
  ASSUME TypeOK, NestShape, AtomicShape, TimerShape, [Next]_vars
  PROVE  TimerShape'
<1> USE DEF bot
<1>t. /\ stages \in Stages /\ stages.depth \in Nat /\ stages.overFrom \in Nat
      /\ call \in Call /\ timers \in TimersType /\ NoTimer \notin Timers
  BY SessionAssumption DEF TypeOK, Stages, SessionAssumption, NoTimer, Timers
<1>s. timers' = Stopped => TimerShape'
  <2> SUFFICES ASSUME timers' = Stopped PROVE TimerShape'
    OBVIOUS
  <2>1. /\ timers'.current = NoTimer /\ timers'.run = timers.run
        /\ timers'.started = timers.started /\ timers'.stage = timers.stage
    BY <1>t DEF Stopped, TimersType
  <2>2. /\ timers.cancelled \subseteq timers'.cancelled
        /\ timers.current # NoTimer => timers.current \in timers'.cancelled
    BY <1>t DEF Stopped, TimersType
  <2>3. \A g \in Timers : timers'.run[g] = "spent" \/ g \in timers'.cancelled \/ Replaced(g)'
    BY <2>1, <2>2, <1>t DEF TimerShape, Replaced
  <2> QED
    BY <2>1, <2>3 DEF TimerShape
<1>k. ASSUME UNCHANGED timers, stages'.number = stages.number,
             stages'.atomic = stages.atomic \/ stages'.atomic
      PROVE  TimerShape'
  BY <1>k DEF TimerShape, Replaced
<1>n. ASSUME UNCHANGED timers, timers.current = NoTimer
      PROVE  TimerShape'
  BY <1>n DEF TimerShape, Replaced
<1>f. \A o \in Nat : [stages EXCEPT !.overFrom = o].number = stages.number
                     /\ [stages EXCEPT !.overFrom = o].atomic = stages.atomic
  BY <1>t DEF Stages
<1>r. ASSUME NEW g \in Timers, NEW r \in {"fired", "spent"},
             timers' = [timers EXCEPT !.run = [@ EXCEPT ![g] = r]],
             UNCHANGED stages, r = "spent" \/ g = timers.current
      PROVE  TimerShape'
  <2>1. /\ timers'.current = timers.current /\ timers'.stage = timers.stage
        /\ timers'.cancelled = timers.cancelled /\ timers'.started = timers.started
        /\ timers'.run = [timers.run EXCEPT ![g] = r]
    BY <1>r, <1>t DEF TimersType
  <2>2. \A h \in Timers : timers'.run[h] = IF h = g THEN r ELSE timers.run[h]
    BY <2>1, <1>t DEF TimersType
  <2> QED
    BY <1>r, <2>1, <2>2 DEF TimerShape, Replaced
<1>1. CASE Start
  <2>1. timers.current = NoTimer /\ UNCHANGED timers
    BY <1>1 DEF Start, AtomicShape, TimerShape
  <2> QED
    BY <2>1, <1>n
<1>2. ASSUME NEW u \in Users, Execute(u)
      PROVE  TimerShape'
  BY <1>2, <1>s, <1>k DEF Execute, Terminate
<1>3. ASSUME NEW u \in Users, Leave(u)
      PROVE  TimerShape'
  BY <1>3, <1>k DEF Leave
<1>4. ASSUME NEW g \in Timers, Fire(g) \/ Timeout(g)
      PROVE  TimerShape'
  BY <1>4, <1>r DEF Fire, Timeout
<1>5. CASE GameCall
  <2>1. CASE UNCHANGED timers
    BY <1>5, <2>1, <1>k DEF GameCall
  <2>2. CASE timers' = Stopped
    BY <2>2, <1>s
  <2>3. CASE timers.started < MaxTimer /\ InAtomic /\ timers' = Started
    <3> DEFINE g == timers.started + 1
    <3>1. stages.atomic /\ stages' = stages
      BY <1>5, <2>3 DEF GameCall, AtomicShape, InAtomic
    <3>2. g \in Timers /\ timers.started \in Nat /\ g # timers.started
      BY <2>3, <1>t, SessionAssumption DEF TimersType, Timers, SessionAssumption
    <3>3. timers' = [timers EXCEPT !.current = g, !.started = g,
                                   !.run = [timers.run EXCEPT ![g] = "armed"],
                                   !.stage = [timers.stage EXCEPT ![g] = stages.number]]
      BY <2>3 DEF Started
    <3>4. /\ timers'.current = g /\ timers'.started = g /\ timers'.cancelled = timers.cancelled
          /\ timers'.run = [timers.run EXCEPT ![g] = "armed"]
          /\ timers'.stage = [timers.stage EXCEPT ![g] = stages.number]
      BY <3>3, <1>t DEF TimersType
    <3>5. timers'.stage[g] = stages'.number
      BY <3>1, <3>2, <3>4, <1>t DEF TimersType
    <3>6. \A h \in Timers : h # g => timers'.run[h] = timers.run[h]
                                     /\ timers'.stage[h] = timers.stage[h]
      BY <3>4, <1>t DEF TimersType
    <3>7. ASSUME NEW h \in Timers, h # g
          PROVE  timers'.run[h] = "spent" \/ h \in timers'.cancelled \/ Replaced(h)'
      <4>1. CASE h = timers.current
        \* The timer that is replaced is the last one started.
        <5>1. h = timers.started /\ timers.stage[h] = stages.number
          BY <4>1, <1>t DEF TimerShape
        <5> QED
          BY <5>1, <3>1, <3>2, <3>4, <3>5, <3>6, <3>7 DEF Replaced
      <4>2. CASE Replaced(h)
        <5>1. h \in Nat /\ h < timers.started
          BY <4>2, <1>t DEF Replaced, Timers
        <5>2. h + 1 \in Timers /\ h + 1 # g /\ h < g
          BY <5>1, <3>2, <1>t, SessionAssumption DEF Timers, TimersType, SessionAssumption
        <5> QED
          BY <4>2, <5>2, <3>4, <3>6, <3>7 DEF Replaced
      <4>3. CASE timers.run[h] = "spent" \/ h \in timers.cancelled
        BY <4>3, <3>4, <3>6, <3>7
      <4> QED
        BY <4>1, <4>2, <4>3 DEF TimerShape
    <3> HIDE DEF g
    <3> QED
      BY <3>1, <3>4, <3>5, <3>7 DEF TimerShape
  <2> QED
    BY <1>5, <2>1, <2>2, <2>3 DEF GameCall
<1>6. CASE ReturnBegin \/ ReturnAct \/ ReturnCheckoutCode \/ ReturnCompoundLeave
           \/ BackToRoutine \/ RoutineEnds \/ RoutineSkips
  BY <1>6, <1>k DEF ReturnBegin, ReturnAct, ReturnCheckoutCode, ReturnCompoundLeave,
                    BackToRoutine, RoutineEnds, RoutineSkips
<1>7. CASE Handle
  BY <1>7, <1>s, <1>k DEF Handle
<1>8. CASE Checkout \/ GameOver
  <2>1. CASE stages.atomic
    BY <1>8, <2>1, <1>s DEF Checkout, GameOver
  <2>2. CASE ~stages.atomic
    BY <1>8, <2>2, <1>n DEF Checkout, GameOver, TimerShape
  <2> QED
    BY <2>1, <2>2
<1>9. CASE ReturnSubStage
  <2>1. timers.current = NoTimer /\ UNCHANGED timers
    BY <1>9 DEF ReturnSubStage, AtomicShape, TimerShape
  <2> QED
    BY <2>1, <1>n
<1>10. CASE ComputerAct
  BY <1>10, <1>s, <1>k DEF ComputerAct
<1>11. CASE UNCHANGED vars
  BY <1>11, <1>k DEF vars
<1> QED
  BY <1>1, <1>2, <1>3, <1>4, <1>5, <1>6, <1>7, <1>8, <1>9, <1>10, <1>11 DEF Next

\* A timeout that reaches the subprocess is that of the stage it reaches: whatever
\* else ended the stage first has set the flag that ExecuteTimeout reads again under
\* data_.  The one exception is a timer that its own stage replaced.
THEOREM TimeoutsMeetTheirStage == Spec => []TimeoutMeetsItsStage
<1> DEFINE IInv == TypeOK /\ NestShape /\ AtomicShape /\ TimerShape
<1>1. Init => IInv
  <2>1. Init => NestShape /\ AtomicShape
    BY DEF Init, NestShape, AtomicShape
  <2>2. Init => TimerShape
    BY DEF Init, TimerShape
  <2> QED
    BY <2>1, <2>2, InitTypes
<1>2. IInv /\ [Next]_vars => IInv'
  BY TypesStep, NestStep, AtomicStep, TimerStep
<1>3. IInv => TimeoutMeetsItsStage
  <2>1. NoTimer \notin Timers
    BY SessionAssumption DEF SessionAssumption, NoTimer, Timers
  <2> QED
    BY <2>1 DEF TimerShape, TimeoutMeetsItsStage, Reaches
<1> QED
  BY <1>1, <1>2, <1>3, PTL DEF Spec

=============================================================================
