----------------------------- MODULE GameSession -----------------------------
(***************************************************************************)
(* One game from Start to game over: the game subprocess                     *)
(* (match_process/child_session.cc with the stage framework game_framework/) *)
(* and the running phase of the bot that commands it (match_running.cc).     *)
(*                                                                          *)
(* The bot holds Match::data_ while a request is in flight, so the two sides *)
(* run one request at a time, and a frame the subprocess pushes is applied   *)
(* by the bot before anything else happens to the match.  Only the timer     *)
(* threads run beside that.                                                  *)
(*                                                                          *)
(* The rules of a game are external.  A callback of a stage (pc "callback")  *)
(* makes any calls of StageUtility the games make there, in any order, and   *)
(* returns any code its type has.                                            *)
(***************************************************************************)
EXTENDS Integers, FiniteSets

CONSTANTS N,         \* number of players of the match, users and computers
          Computers, \* the players that are computers
          MaxDepth,  \* bound on the nesting of stages
          MaxStage,  \* bound on the number of atomic stages of the game
          MaxTimer   \* bound on the number of timers started

Players == 0 .. N - 1
Users == Players \ Computers
Timers == 1 .. MaxTimer
NoTimer == 0

ASSUME SessionAssumption ==
    /\ N \in Nat /\ Computers \subseteq Players /\ Users # {}
    /\ MaxDepth \in Nat \ {0} /\ MaxStage \in Nat \ {0} /\ MaxTimer \in Nat

INSTANCE PlayerReadyMasker

VARIABLES
    masker,     \* StageUtility's masker_
    slot,       \* IpcMatchEnv::PlayerSlot::state_, in the subprocess
    deduction,  \* IpcMatchEnv::is_in_deduction_
    mirror,     \* MatchPlayer::state_, in the bot
    gone,       \* users whose presence_ is LEFT, in the bot
    over,       \* MatchRunning::is_over_
    stages,     \* the nest of stages, see Stages
    timers,     \* MatchTimerFactory and its timers, see TimersType
    pc,         \* where the subprocess is
    call        \* what it is doing there, see Call

vars == <<masker, slot, deduction, mirror, gone, over, stages, timers, pc, call>>
bot == <<mirror, gone, over>>

PlayerState == {"ACTIVE", "HOOKED", "ELIMINATED"}

\* depth: number of stages one inside the other, 0 when there is no main stage;
\* atomic: the innermost is an AtomicStage (else a CompoundStage without substage);
\* overFrom: the stages from this one inwards are over, 0 if none is;
\* number: how many atomic stages have begun.
Stages == [depth : 0 .. MaxDepth, atomic : BOOLEAN,
           overFrom : 0 .. MaxDepth, number : 0 .. MaxStage]

\* current: game_timer_ with its timer_is_over_ flag; started: timers ever
\* started; cancelled: those whose flag is set; run: what the thread of each is
\* doing ("fired" is waiting for data_); stage: the stage that started each.
TimersType == [current : Timers \cup {NoTimer}, started : 0 .. MaxTimer,
               cancelled : SUBSET Timers,
               run : [Timers -> {"armed", "fired", "spent"}],
               stage : [Timers -> 0 .. MaxStage]]

Callbacks == {"OnStageBegin", "OnStageOver", "OnStageTimeout", "OnCommand",
              "OnComputerAct", "OnPlayerLeave", "OnCompoundLeave",
              "FirstStageFsm", "NextStageFsm"}
Codes == {"OK", "FAILED", "CONTINUE", "CHECKOUT", "NOT_FOUND"}

\* callback: the callback under way; actor: the player it is about, where that
\* matters; rc: the code handed to or returned by Handle_; moved: the handler has
\* left the stage it was called on; routine, next, okCount: the loop of Routine.
Call == [callback : Callbacks \cup {"none"}, actor : Players, rc : Codes,
         moved : BOOLEAN, routine : BOOLEAN, next : Players, okCount : Nat]

PCs == {"lobby",     \* no main stage yet
        "idle",      \* between two requests
        "callback",  \* in the code of the game
        "handle",    \* in AtomicStage::Handle_
        "unwind",    \* back in the stages around the one that was called
        "routine"}   \* in the loop of Routine

\* The types of the two sides of the session.
TypeOK ==
    /\ masker \in Masker
    /\ slot \in [Players -> PlayerState]
    /\ deduction \in BOOLEAN
    /\ mirror \in [Players -> PlayerState]
    /\ gone \subseteq Users
    /\ over \in BOOLEAN
    /\ stages \in Stages
    /\ timers \in TimersType
    /\ pc \in PCs
    /\ call \in Call

IdleCall == [callback |-> "none", actor |-> 0, rc |-> "OK", moved |-> FALSE,
             routine |-> FALSE, next |-> 0, okCount |-> 0]

Init ==
    /\ masker = NewMasker
    /\ slot = [p \in Players |-> "ACTIVE"]
    /\ deduction = FALSE
    /\ mirror = [p \in Players |-> "ACTIVE"]
    /\ gone = {}
    /\ over = FALSE
    /\ stages = [depth |-> 0, atomic |-> FALSE, overFrom |-> 0, number |-> 0]
    /\ timers = [current |-> NoTimer, started |-> 0, cancelled |-> {},
                 run |-> [g \in Timers |-> "spent"], stage |-> [g \in Timers |-> 0]]
    /\ pc = "lobby"
    /\ call = IdleCall

-----------------------------------------------------------------------------
(* Helpers.                                                                 *)

IsOkToCheckout == deduction \/ Ok(masker)

\* Run the callback c about player p.
Run(c, p) ==
    /\ pc' = "callback"
    /\ call' = [call EXCEPT !.callback = c, !.actor = p, !.rc = "OK"]

\* Leave the code of the game, or a handler that called none, with code rc.
Return(to, rc) ==
    /\ pc' = to
    /\ call' = [call EXCEPT !.callback = "none", !.actor = 0, !.rc = rc]

\* StageUtility::StopTimer, and MatchTimerFactory::Stop when its frame arrives.
Stopped ==
    [timers EXCEPT !.current = NoTimer,
                   !.cancelled = IF timers.current = NoTimer THEN @
                                 ELSE @ \cup {timers.current}]

\* StageUtility::StartTimer and MatchTimerFactory::Start: a timer that is pending is
\* retired, so it no longer fires, but its flag stays as it is: if it has fired, its
\* timeout is still to come.
Started ==
    LET g == timers.started + 1
    IN  [timers EXCEPT !.current = g, !.started = g,
                       !.run = [@ EXCEPT ![g] = "armed"],
                       !.stage = [@ EXCEPT ![g] = stages.number]]

\* Begin the atomic stage that has just been pushed on the nest.
BeginAtomic(depth) ==
    /\ stages.number < MaxStage      \* the bound
    /\ stages' = [depth |-> depth, atomic |-> TRUE, overFrom |-> 0,
                  number |-> stages.number + 1]
    /\ Run("OnStageBegin", 0)

BeginCompound(depth) ==
    /\ stages' = [stages EXCEPT !.depth = depth, !.atomic = FALSE, !.overFrom = 0]
    /\ Run("FirstStageFsm", 0)

\* CompoundStage::Terminate at level l: every stage from there inwards is over.
Terminate(l) ==
    /\ stages' = [stages EXCEPT !.overFrom = l]
    /\ timers' = Stopped
    /\ Return("unwind", "CHECKOUT")

-----------------------------------------------------------------------------
(* The calls a game makes in its callbacks (StageUtility).                   *)

InAtomic == call.callback \notin {"OnCompoundLeave", "FirstStageFsm", "NextStageFsm"}

\* Slips: a player who is hooked is eliminated in the masker only; hooking does
\* not look at the state of the slot.
EliminateIfActive(p) ==
    /\ slot' = IF slot[p] = "ACTIVE" THEN [slot EXCEPT ![p] = "ELIMINATED"] ELSE slot
    /\ mirror' = IF slot[p] = "ACTIVE" THEN [mirror EXCEPT ![p] = "ELIMINATED"] ELSE mirror
    /\ deduction' = \A u \in Users : slot'[u] = "ELIMINATED"
    /\ masker' = SetPermanentInactive(masker, p)

HookAnyState(S) ==
    /\ slot' = [p \in Players |-> IF p \in S THEN "HOOKED" ELSE slot[p]]
    /\ mirror' = [p \in Players |-> IF p \in S THEN "HOOKED" ELSE mirror[p]]
    /\ masker' = SetTemporaryInactive(masker, S)
    /\ UNCHANGED deduction

\* The subprocess notes the elimination once, recomputes is_in_deduction_ and
\* tells the bot; the masker is set in any case.
Eliminate(p) ==
    /\ slot' = [slot EXCEPT ![p] = "ELIMINATED"]
    /\ IF slot[p] # "ELIMINATED"
       THEN /\ mirror' = [mirror EXCEPT ![p] = "ELIMINATED"]
            /\ deduction' = \A u \in Users : slot'[u] = "ELIMINATED"
       ELSE UNCHANGED <<mirror, deduction>>
    /\ masker' = SetPermanentInactive(masker, p)

\* Hook of every player of S: the slot only changes if it was ACTIVE, the masker
\* is set in any case.
Hook(S) ==
    LET hooked == {p \in S : slot[p] = "ACTIVE"}
    IN  /\ slot' = [p \in Players |-> IF p \in hooked THEN "HOOKED" ELSE slot[p]]
        /\ mirror' = [p \in Players |-> IF p \in hooked THEN "HOOKED" ELSE mirror[p]]
        /\ masker' = SetTemporaryInactive(masker, S)
        /\ UNCHANGED deduction

Unready == {p \in Players : ~masker.ready[p]}

GameCall ==
    /\ pc = "callback"
    /\ \/ /\ \/ \E p \in Players : \/ masker' = SetReady(masker, p)
                                   \/ masker' = UnsetReady(masker, p)
             \/ masker' = ClearReady(masker)
          /\ UNCHANGED <<slot, mirror, deduction, timers>>
       \/ /\ \/ \E p \in Players : Eliminate(p) \/ Hook({p})
             \/ Hook(Unready)        \* HookUnreadyPlayers
          /\ UNCHANGED timers
       \/ /\ InAtomic
          /\ \/ timers.started < MaxTimer /\ timers' = Started
             \/ timers' = Stopped
          /\ UNCHANGED <<masker, slot, mirror, deduction>>
    /\ UNCHANGED <<gone, over, stages, pc, call>>

-----------------------------------------------------------------------------
(* How the callbacks of an atomic stage end, and AtomicStage::Handle_.       *)

ReturnBegin ==
    /\ pc = "callback" /\ call.callback = "OnStageBegin"
    /\ Return("handle", "OK")
    /\ UNCHANGED <<masker, slot, deduction, bot, stages, timers>>

\* A command or the act of a computer: READY marks the player ready.
ReturnAct ==
    /\ pc = "callback" /\ call.callback \in {"OnCommand", "OnComputerAct"}
    /\ \/ \E rc \in {"OK", "FAILED", "CHECKOUT"} :
             Return("handle", rc) /\ UNCHANGED masker
       \/ /\ Return("handle", "OK")      \* READY
          /\ masker' = IF call.callback = "OnCommand"
                       THEN SetReady(masker, call.actor)
                       ELSE SilentlySetReady(masker, call.actor)
    /\ UNCHANGED <<slot, deduction, bot, stages, timers>>

ReturnCheckoutCode ==
    /\ pc = "callback" /\ call.callback \in {"OnStageOver", "OnStageTimeout", "OnPlayerLeave"}
    /\ \E rc \in {"CONTINUE", "CHECKOUT"} : Return("handle", rc)
    /\ UNCHANGED <<masker, slot, deduction, bot, stages, timers>>

\* Slip: a stage that is to continue is not asked again.
HandleOnce ==
    /\ pc = "handle"
    /\ \/ /\ call.rc = "CHECKOUT"
          /\ stages' = [stages EXCEPT !.overFrom = stages.depth]
          /\ timers' = Stopped
          /\ Return("unwind", call.rc)
       \/ /\ call.rc \notin {"CHECKOUT", "CONTINUE"} /\ IsOkToCheckout
          /\ Run("OnStageOver", 0)
          /\ UNCHANGED <<stages, timers>>
       \/ /\ call.rc # "CHECKOUT" /\ (call.rc = "CONTINUE" \/ ~IsOkToCheckout)
          /\ Return("unwind", call.rc)
          /\ UNCHANGED <<stages, timers>>
    /\ UNCHANGED <<masker, slot, deduction, bot>>

\* As long as nobody needs to be waited for and the stage is not left, OnStageOver.
Handle ==
    /\ pc = "handle"
    /\ \/ /\ call.rc = "CHECKOUT"
          /\ stages' = [stages EXCEPT !.overFrom = stages.depth]
          /\ timers' = Stopped
          /\ Return("unwind", call.rc)
       \/ /\ call.rc # "CHECKOUT" /\ IsOkToCheckout
          /\ Run("OnStageOver", 0)
          /\ UNCHANGED <<stages, timers>>
       \/ /\ call.rc # "CHECKOUT" /\ ~IsOkToCheckout
          /\ Return("unwind", call.rc)
          /\ UNCHANGED <<stages, timers>>
    /\ UNCHANGED <<masker, slot, deduction, bot>>

-----------------------------------------------------------------------------
(* The stages around it: CompoundStage.  A handler returns the code of the      *)
(* stage it was called on, not that of the stages checked out to (moved).      *)

\* PassToSubStage_ / SwitchSubStage_ see a substage that is over and check it out:
\* it is destroyed (an atomic stage stops the timer), then NextStageFsm decides.
Checkout ==
    /\ pc = "unwind" /\ stages.overFrom > 1
    /\ stages' = [stages EXCEPT !.depth = stages.overFrom - 1, !.atomic = FALSE,
                                !.overFrom = 0]
    /\ timers' = IF stages.atomic THEN Stopped ELSE timers
    /\ pc' = "callback"
    /\ call' = [call EXCEPT !.callback = "NextStageFsm", !.rc = "OK", !.moved = TRUE]
    /\ UNCHANGED <<masker, slot, deduction, bot>>

\* FirstStageFsm or NextStageFsm returns: a substage of either kind, or none and
\* the compound stage is over.  After a checkout the ready flags are cleared.
ReturnSubStage ==
    /\ pc = "callback" /\ call.callback \in {"FirstStageFsm", "NextStageFsm"}
    /\ masker' = IF call.callback = "NextStageFsm" THEN ClearReady(masker) ELSE masker
    /\ \/ stages.depth < MaxDepth /\ BeginAtomic(stages.depth + 1)
       \/ stages.depth + 1 < MaxDepth /\ BeginCompound(stages.depth + 1)
       \/ /\ stages' = [stages EXCEPT !.overFrom = stages.depth]
          /\ Return("unwind", "CHECKOUT")
    /\ UNCHANGED <<slot, deduction, bot, timers>>

\* The outermost stage is over: Routine sends the scores, the bot marks the match
\* over, and the main stage is destroyed.
GameOver ==
    /\ pc = "unwind" /\ stages.overFrom = 1
    /\ over' = TRUE
    /\ stages' = [stages EXCEPT !.depth = 0, !.atomic = FALSE, !.overFrom = 0]
    /\ timers' = IF stages.atomic THEN Stopped ELSE timers
    /\ pc' = "idle" /\ call' = IdleCall
    /\ UNCHANGED <<masker, slot, deduction, mirror, gone>>

\* The handler is back in the session: Routine starts, or goes on with its loop.
BackToRoutine ==
    /\ pc = "unwind" /\ stages.overFrom = 0
    /\ pc' = "routine"
    /\ call' = [IdleCall EXCEPT !.routine = TRUE, !.next = call.next,
                  !.okCount = IF call.routine /\ call.rc = "OK" /\ ~call.moved
                              THEN call.okCount + 1 ELSE 0]
    /\ UNCHANGED <<masker, slot, deduction, bot, stages, timers>>

-----------------------------------------------------------------------------
(* ChildGameSession::Routine: computers act until all of them are content.   *)

RoutineEnds ==
    /\ pc = "routine" /\ call.okCount >= Cardinality(Computers)
    /\ pc' = "idle" /\ call' = IdleCall
    /\ UNCHANGED <<masker, slot, deduction, bot, stages, timers>>

\* Slip: the player after the last is not the first.
TurnPastLast(p) == [call EXCEPT !.next = p + 1]

Turn(p) == [call EXCEPT !.next = (p + 1) % N]

\* The next player is no computer, or an eliminated one.
RoutineSkips ==
    LET p == call.next
    IN  /\ pc = "routine" /\ call.okCount < Cardinality(Computers)
        /\ \/ p \notin Computers /\ call' = Turn(p)
           \/ /\ p \in Computers /\ slot[p] = "ELIMINATED"
              /\ call' = [Turn(p) EXCEPT !.okCount = @ + 1]
        /\ UNCHANGED <<masker, slot, deduction, bot, stages, timers, pc>>

\* HandleComputerAct: each compound stage is asked first and can refuse or finish.
ComputerAct ==
    LET p == call.next
    IN  /\ pc = "routine" /\ call.okCount < Cardinality(Computers)
        /\ p \in Computers /\ slot[p] # "ELIMINATED"
        /\ \/ /\ pc' = "callback"
              /\ call' = [Turn(p) EXCEPT !.callback = "OnComputerAct", !.actor = p]
              /\ UNCHANGED <<stages, timers>>
           \/ /\ stages.depth > 1
              /\ pc' = "unwind" /\ call' = [Turn(p) EXCEPT !.rc = "FAILED"]
              /\ UNCHANGED <<stages, timers>>
           \/ \E l \in 1 .. stages.depth - 1 :
              /\ stages' = [stages EXCEPT !.overFrom = l]
              /\ timers' = Stopped
              /\ pc' = "unwind" /\ call' = [Turn(p) EXCEPT !.rc = "CHECKOUT"]
        /\ UNCHANGED <<masker, slot, deduction, bot>>

-----------------------------------------------------------------------------
(* Requests of the bot, one at a time under data_.                           *)

\* ExecuteGameStart and HandleStart; a refused Start leaves everything as it was.
Start ==
    /\ pc = "lobby"
    /\ BeginAtomic(1) \/ (MaxDepth > 1 /\ BeginCompound(1))
    /\ UNCHANGED <<masker, slot, deduction, bot, timers>>

\* MatchRunning::ExecuteRequest, HandleExecute and MainStage::HandleRequest: the
\* player is activated, then the command is one of a compound stage, of the atomic
\* stage, or unknown.
Execute(u) ==
    /\ pc = "idle" /\ ~over /\ stages.depth > 0
    /\ u \notin gone /\ mirror[u] # "ELIMINATED"
    /\ slot' = IF slot[u] = "HOOKED" THEN [slot EXCEPT ![u] = "ACTIVE"] ELSE slot
    /\ mirror' = IF slot[u] = "HOOKED" THEN [mirror EXCEPT ![u] = "ACTIVE"] ELSE mirror
    /\ masker' = SetActive(masker, u)
    /\ \/ Run("OnCommand", u) /\ UNCHANGED <<stages, timers>>
       \/ /\ stages.depth > 1
          /\ \E rc \in {"OK", "FAILED"} : Return("unwind", rc)
          /\ UNCHANGED <<stages, timers>>
       \/ \E l \in 1 .. stages.depth - 1 : Terminate(l)
       \/ Return("unwind", "NOT_FOUND") /\ UNCHANGED <<stages, timers>>
    /\ UNCHANGED <<deduction, gone, over>>

\* MatchRunning::LeaveBeforeChild and HandleLeave: the last user to leave ends the
\* match, otherwise the compound stages learn of it first.
Leave(u) ==
    /\ pc = "idle" /\ ~over /\ stages.depth > 0
    /\ u \notin gone
    /\ gone' = gone \cup {u}
    /\ IF Users \subseteq gone'
       THEN over' = TRUE /\ UNCHANGED <<masker, pc, call>>
       ELSE /\ UNCHANGED over
            /\ IF stages.depth > 1
               THEN Run("OnCompoundLeave", u) /\ UNCHANGED masker
               ELSE Run("OnPlayerLeave", 0) /\ masker' = SetPermanentInactive(masker, u)
    /\ UNCHANGED <<slot, deduction, mirror, stages, timers>>

\* Then the atomic stage: the player is marked and its OnPlayerLeave runs.
ReturnCompoundLeave ==
    /\ pc = "callback" /\ call.callback = "OnCompoundLeave"
    /\ masker' = SetPermanentInactive(masker, call.actor)
    /\ Run("OnPlayerLeave", 0)
    /\ UNCHANGED <<slot, deduction, bot, stages, timers>>

\* The thread of the current timer runs out and finds its flag unset; it now waits
\* for data_.
Fire(g) ==
    /\ g = timers.current /\ timers.run[g] = "armed"
    /\ timers' = [timers EXCEPT !.run = [@ EXCEPT ![g] = "fired"]]
    /\ UNCHANGED <<masker, slot, deduction, bot, stages, pc, call>>

\* ExecuteTimeout reads the flag again under data_, then HandleTimeout.
Timeout(g) ==
    /\ pc = "idle" /\ timers.run[g] = "fired"
    /\ timers' = [timers EXCEPT !.run = [@ EXCEPT ![g] = "spent"]]
    /\ IF over \/ g \in timers.cancelled
       THEN UNCHANGED <<pc, call>>
       ELSE Run("OnStageTimeout", 0)
    /\ UNCHANGED <<masker, slot, deduction, bot, stages>>

-----------------------------------------------------------------------------
Next ==
    \/ Start
    \/ \E u \in Users : Execute(u) \/ Leave(u)
    \/ \E g \in Timers : Fire(g) \/ Timeout(g)
    \/ GameCall
    \/ ReturnBegin \/ ReturnAct \/ ReturnCheckoutCode \/ Handle
    \/ Checkout \/ ReturnSubStage \/ ReturnCompoundLeave
    \/ GameOver \/ BackToRoutine
    \/ RoutineEnds \/ RoutineSkips \/ ComputerAct

Spec == Init /\ [][Next]_vars

-----------------------------------------------------------------------------
(* Properties.                                                              *)

\* Between two requests an unfinished match really waits for somebody: a stage in
\* which nobody is left to act never stays until the next message or timeout,
\* whichever of a command, a leave, a timeout, a computer or a chain of skipped
\* stages made the last player ready.
NobodyLeftWaiting ==
    pc = "idle" /\ ~over => ~IsOkToCheckout

\* The bot's copy of the players is the subprocess's, and the subprocess plays the
\* game to its end on its own exactly when every user is eliminated.
SidesAgree ==
    /\ mirror = slot
    /\ deduction <=> \A u \in Users : slot[u] = "ELIMINATED"

\* The assertion of SetActive: the bot lets no command through of a player who is
\* permanently inactive in the subprocess.
CommandFindsPlayerActive ==
    \A u \in Users :
       u \notin gone /\ mirror[u] # "ELIMINATED" =>
          masker.active[u] # "PERMANENTLY_INACTIVE"

\* A timer has fired, and its timeout will be handed to the subprocess.
Reaches(g) ==
    timers.run[g] = "fired" /\ g \notin timers.cancelled /\ ~over /\ pc = "idle"

\* The stage that started timer g replaced it itself.
Replaced(g) == g < timers.started /\ timers.stage[g + 1] = timers.stage[g]

\* A timeout that is still to reach the subprocess is that of the timer of the stage
\* it will reach, whatever else ended the stage that started it; only one whose own
\* stage restarted the timer when it had already fired comes late, maybe in a later
\* stage.
TimeoutMeetsItsStage ==
    \A g \in Timers : Reaches(g) =>
       \/ g = timers.current /\ timers.stage[g] = stages.number
       \/ Replaced(g)

\* A stage is told of a timeout when the timer that is running has run out: false for the
\* replaced timers above, and in no run.
TimeoutIsDue ==
    \A g \in Timers : Reaches(g) => g = timers.current

\* A player who left or was eliminated is never the only one waited for.
NeverWaitsForTheGone ==
    pc = "idle" /\ ~over =>
       \E p \in Players : p \notin gone /\ slot[p] # "ELIMINATED" /\ ~masker.ready[p]

=============================================================================
