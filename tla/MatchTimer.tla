----------------------------- MODULE MatchTimer -----------------------------
(***************************************************************************)
(* The schedule of a stage's timer: the tasks BuildGameTimerTasks makes of  *)
(* a number of seconds (match_running.cc) and the thread of Timer that runs *)
(* them (timer.h).  Deadlines are anchored to the start, so time here is    *)
(* the time of the deadlines.                                               *)
(***************************************************************************)
EXTENDS Integers, Sequences

CONSTANTS MaxSec,       \* bound on the duration of a stage
          MinAlertSec,  \* kMinGameTimerAlertSec
          Word          \* bound of the unsigned arithmetic

ASSUME TimerAssumption ==
    MaxSec \in Nat /\ MinAlertSec \in Nat \ {0} /\ Word \in Nat /\ MaxSec < Word

VARIABLES duration,  \* the seconds of the timer
          tasks,     \* the tasks that are still to come
          clock,     \* the last deadline, in seconds from the start
          told,      \* history: what the handlers of the tasks said, and when
          isOver     \* is_over_ of the timer

timerVars == <<duration, tasks, clock, told, isOver>>

Unsigned(x) == x % Word

\* No turn of the loop below adds less, so that it has ended after so many.
LoopTurns(sec) == sec \div MinAlertSec

\* The loop that puts the alerts before the timeout, as it stands after each turn:
\* 10, 20, 40 ... seconds before the end, as long as they lie in the second half.
\* say is what is left when the task runs: 0 for the timeout, -1 for nothing.
AlertLoop(sec) ==
    LET after[n \in 0 .. LoopTurns(sec)] ==
          IF n = 0
          THEN [sum |-> MinAlertSec, alert |-> MinAlertSec,
                tasks |-> <<[wait |-> MinAlertSec, say |-> 0]>>]
          ELSE LET at == after[n - 1]
               IN  IF at.sum < sec \div 2
                   THEN [sum |-> Unsigned(at.sum + at.alert), alert |-> Unsigned(at.alert * 2),
                         tasks |-> <<[wait |-> at.alert, say |-> at.alert]>> \o at.tasks]
                   ELSE at
    IN  after

\* Slip: the bound of the alerts is the duration, not its half.
TasksUpToTheStart(sec) ==
    IF sec = 0 THEN <<>>
    ELSE LET end == AlertLoop(2 * sec)[LoopTurns(2 * sec)]
         IN  <<[wait |-> Unsigned(sec - end.sum), say |-> -1]>> \o end.tasks

\* There is no alert when the first one does not lie in the second half.
BuildGameTimerTasks(sec) ==
    CASE sec = 0 -> <<>>
      [] sec # 0 /\ MinAlertSec > sec \div 2 -> <<[wait |-> sec, say |-> 0]>>
      [] OTHER -> LET end == AlertLoop(sec)[LoopTurns(sec)]
                  IN  <<[wait |-> Unsigned(sec - end.sum), say |-> -1]>> \o end.tasks

TimerTypeOK ==
    /\ duration \in 0 .. MaxSec
    /\ \A i \in DOMAIN tasks : tasks[i].wait \in 0 .. MaxSec
    /\ clock \in 0 .. MaxSec
    /\ isOver \in BOOLEAN

\* No timer has been started yet.
TimerInit ==
    /\ duration = 0
    /\ tasks = <<>>
    /\ clock = 0
    /\ told = {}
    /\ isOver = TRUE

StartTimer(sec) ==
    /\ isOver
    /\ duration' = sec
    /\ tasks' = BuildGameTimerTasks(sec)
    /\ clock' = 0
    /\ told' = {}
    /\ isOver' = FALSE

\* The thread reaches the next deadline and runs the handler.
RunTask ==
    /\ ~isOver /\ tasks # <<>>
    /\ clock' = clock + Head(tasks).wait
    /\ told' = told \cup {[say |-> Head(tasks).say, at |-> clock']}
    /\ tasks' = Tail(tasks)
    /\ UNCHANGED <<duration, isOver>>

RequestStop ==
    /\ ~isOver
    /\ isOver' = TRUE
    /\ UNCHANGED <<duration, tasks, clock, told>>

TimerNext == RunTask \/ RequestStop \/ \E sec \in 0 .. MaxSec : StartTimer(sec)

TimerSpec == TimerInit /\ [][TimerNext]_timerVars

-----------------------------------------------------------------------------

\* Whatever the duration, an alert names the time that is really left and comes in
\* the second half, the timeout comes at the end, and a timer that has run all of
\* its tasks has timed out.
AlertsTellTheTruth ==
    /\ \A e \in told : e.say # -1 => e.at + e.say = duration /\ 2 * e.at >= duration - 1
    /\ ~isOver /\ tasks = <<>> /\ duration > 0 => \E e \in told : e.say = 0

=============================================================================
