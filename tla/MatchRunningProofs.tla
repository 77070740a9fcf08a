------------------------- MODULE MatchRunningProofs -------------------------
(***************************************************************************)
(* Proofs about what moves by itself beside a running match: the votes to   *)
(* interrupt it, for every set of users, the tasks of its timer, for every  *)
(* duration and every first alert, the bytes between the bot and the game,  *)
(* for every width of a byte, room of a pipe and payload, and the queue of  *)
(* deferred work, for any tasks and any stopping threads.                   *)
(***************************************************************************)
EXTENDS InterruptVote, MatchTimer, Frames, SerialTaskQueue, SequenceTheorems, CountingLemmas

(* The votes. *)

\* At first nobody has voted and no vote was the last change.
LEMMA InitVotes == VoteInit => VoteTypeOK /\ InterruptedWhenUnanimous
BY VoteAssumption DEF VoteInit, VoteTypeOK, InterruptedWhenUnanimous, Remaining

\* A vote, and whatever changes the electorate, keeps the promise.
LEMMA VotesStep ==
  ASSUME VoteTypeOK, InterruptedWhenUnanimous, [VoteNext]_voteVars
  PROVE  VoteTypeOK' /\ InterruptedWhenUnanimous'
<1>1. ASSUME NEW u \in Voters, NEW cancel \in BOOLEAN, UserInterrupt(u, cancel)
      PROVE  VoteTypeOK' /\ InterruptedWhenUnanimous'
  <2>1. VoteTypeOK'
    BY <1>1 DEF UserInterrupt, VoteTypeOK
  <2>2. Remaining(wanting)' = Remaining(wanting')
    BY <1>1 DEF UserInterrupt, Remaining
  <2> QED
    BY <1>1, <2>1, <2>2 DEF UserInterrupt, InterruptedWhenUnanimous
<1>2. ASSUME NEW u \in Voters, LeaveMatch(u)
      PROVE  VoteTypeOK' /\ InterruptedWhenUnanimous'
  BY <1>2 DEF LeaveMatch, VoteTypeOK, InterruptedWhenUnanimous
<1>3. ASSUME NEW u \in Voters, NEW s \in {"ACTIVE", "HOOKED", "ELIMINATED"}, PlayerState(u, s)
      PROVE  VoteTypeOK' /\ InterruptedWhenUnanimous'
  <2>1. VoteTypeOK'
    BY <1>3 DEF PlayerState, VoteTypeOK
  \* Only a hook takes somebody out of those who still have to agree.
  <2>2. s # "HOOKED" => Remaining(wanting) \subseteq Remaining(wanting)'
    BY <1>3 DEF PlayerState, VoteTypeOK, Remaining
  <2> QED
    BY <1>3, <2>1, <2>2 DEF PlayerState, InterruptedWhenUnanimous
<1>4. CASE VoteGameOver
  BY <1>4 DEF VoteGameOver, VoteTypeOK, InterruptedWhenUnanimous
<1>5. CASE UNCHANGED voteVars
  BY <1>5 DEF voteVars, VoteTypeOK, InterruptedWhenUnanimous, Remaining
<1> QED
  BY <1>1, <1>2, <1>3, <1>4, <1>5 DEF VoteNext

\* However votes, leaves and the states of the players interleave, a vote interrupts
\* the match exactly when it makes all of those agree who are there and answer.
THEOREM InterruptsWhenUnanimous == VoteSpec => []InterruptedWhenUnanimous
<1> DEFINE VInv == VoteTypeOK /\ InterruptedWhenUnanimous
<1>1. VoteInit => VInv
  BY InitVotes
<1>2. VInv /\ [VoteNext]_voteVars => VInv'
  BY VotesStep
<1>3. VInv => InterruptedWhenUnanimous
  OBVIOUS
<1> HIDE DEF VInv
<1> QED
  BY <1>1, <1>2, <1>3, PTL DEF VoteSpec

-----------------------------------------------------------------------------
(* The timer: the loop of BuildGameTimerTasks.                              *)

FirstTurn == [sum |-> MinAlertSec, alert |-> MinAlertSec,
              tasks |-> <<[wait |-> MinAlertSec, say |-> 0]>>]

NextTurn(sec, at) ==
    IF at.sum < sec \div 2
    THEN [sum |-> Unsigned(at.sum + at.alert), alert |-> Unsigned(at.alert * 2),
          tasks |-> <<[wait |-> at.alert, say |-> at.alert]>> \o at.tasks]
    ELSE at

\* The loop is defined for any number of turns.
LEMMA TurnsExist ==
  ASSUME NEW sec, NEW N \in Nat
  PROVE  \E f : f = [n \in 0 .. N |-> IF n = 0 THEN FirstTurn ELSE NextTurn(sec, f[n - 1])]
<1> DEFINE Run(f, k) == f = [n \in 0 .. k |-> IF n = 0 THEN FirstTurn ELSE NextTurn(sec, f[n - 1])]
           T == {k \in Nat : \E f : Run(f, k)}
<1>1. 0 \in T
  <2>1. Run([n \in 0 .. 0 |-> FirstTurn], 0)
    OBVIOUS
  <2> QED
    BY <2>1
<1>2. ASSUME NEW k \in Nat, k \in T
      PROVE  k + 1 \in T
  <2>1. PICK f : Run(f, k)
    BY <1>2
  <2> DEFINE g == [n \in 0 .. (k + 1) |-> IF n = k + 1 THEN NextTurn(sec, f[k]) ELSE f[n]]
  <2>2. ASSUME NEW n \in 0 .. (k + 1)
        PROVE  g[n] = IF n = 0 THEN FirstTurn ELSE NextTurn(sec, g[n - 1])
    <3>1. CASE n = k + 1
      <4>1. k \in 0 .. (k + 1) /\ k # k + 1 /\ n # 0 /\ n - 1 = k
        BY <3>1
      <4> QED
        BY <3>1, <4>1
    <3>2. CASE n # k + 1
      <4>1. n \in 0 .. k /\ (n # 0 => n - 1 \in 0 .. (k + 1) /\ n - 1 # k + 1)
        BY <3>2
      <4>2. f[n] = IF n = 0 THEN FirstTurn ELSE NextTurn(sec, f[n - 1])
        BY <2>1, <4>1
      <4> QED
        BY <3>2, <4>1, <4>2
    <3> QED
      BY <3>1, <3>2
  <2>3. Run(g, k + 1)
    BY <2>2
  <2> HIDE DEF g
  <2>4. \E h : Run(h, k + 1)
    BY <2>3
  <2> QED
    BY <2>4
<1> HIDE DEF T
<1>3. N \in T
  BY <1>1, <1>2, Induction
<1> QED
  BY <1>3 DEF T

\* AlertLoop begins with the first turn and goes on with the next ones.
LEMMA LoopUnfolds ==
  ASSUME NEW sec, LoopTurns(sec) \in Nat
  PROVE  /\ AlertLoop(sec)[0] = FirstTurn
         /\ \A n \in 1 .. LoopTurns(sec) : AlertLoop(sec)[n] = NextTurn(sec, AlertLoop(sec)[n - 1])
<1> DEFINE Run(f) == f = [n \in 0 .. LoopTurns(sec) |->
                            IF n = 0 THEN FirstTurn ELSE NextTurn(sec, f[n - 1])]
<1>1. \E f : Run(f)
  BY TurnsExist
<1>2. AlertLoop(sec) = CHOOSE f : Run(f)
  BY DEF AlertLoop, FirstTurn, NextTurn
<1>3. Run(AlertLoop(sec))
  BY <1>1, <1>2
<1> QED
  BY <1>3

-----------------------------------------------------------------------------
(* What the tasks say.                                                        *)

TimerTask == [wait : 0 .. MaxSec, say : -1 .. MaxSec]

\* Only the first task says nothing, the last one is the timeout, an alert names the
\* time that the following tasks take, and lies in the second half of sec seconds.
Chained(ts, sec) ==
    /\ ts \in Seq(TimerTask)
    /\ \A i \in 2 .. Len(ts) : ts[i].say # -1
    /\ \A i \in 1 .. Len(ts) : 2 * ts[i].say <= sec
    /\ \A i \in 1 .. Len(ts) - 1 : ts[i].say # -1 => ts[i].say = ts[i + 1].wait + ts[i + 1].say
    /\ ts # <<>> => ts[Len(ts)].say = 0

\* The time that all of the tasks take.
Span(ts) == ts[1].wait + (IF ts[1].say = -1 THEN ts[2].wait + ts[2].say ELSE ts[1].say)

\* No tasks are in order whatever is left of the time.
LEMMA NoTasks ==
  ASSUME NEW sec
  PROVE  Chained(<<>>, sec)
<1>1. Len(<<>>) = 0 /\ <<>> \in Seq(TimerTask)
  OBVIOUS
<1>2. ~\E i \in 2 .. Len(<<>>) : TRUE
  BY <1>1
<1>3. ~\E i \in 1 .. Len(<<>>) : TRUE
  BY <1>1
<1>4. ~\E i \in 1 .. Len(<<>>) - 1 : TRUE
  BY <1>1
<1> QED
  BY <1>1, <1>2, <1>3, <1>4 DEF Chained

\* Without the first task, the rest is in order and takes its wait less.
LEMMA SpanOfTail ==
  ASSUME NEW sec \in Nat, NEW ts, Chained(ts, sec), ts # <<>>
  PROVE  /\ Chained(Tail(ts), sec)
         /\ Tail(ts) # <<>> => Span(Tail(ts)) = Span(ts) - ts[1].wait
         /\ ts[1].say = -1 => Tail(ts) # <<>>
<1> DEFINE n == Len(ts)
           rest == Tail(ts)
<1>1. /\ n \in Nat \ {0} /\ ts \in Seq(TimerTask) /\ ts[n].say = 0
      /\ \A i \in 1 .. n : ts[i] \in TimerTask
  BY DEF Chained
<1>2. rest \in Seq(TimerTask) /\ Len(rest) = n - 1 /\ \A i \in 1 .. (n - 1) : rest[i] = ts[i + 1]
  BY <1>1
<1>3. rest # <<>> <=> n - 1 # 0
  BY <1>2
<1> HIDE DEF rest, n
<1>4. Chained(rest, sec)
  <2>1. \A i \in 1 .. (n - 1) : rest[i].say # -1 /\ 2 * rest[i].say <= sec
    BY <1>1, <1>2 DEF Chained, n
  <2>2. \A i \in 1 .. (n - 1) - 1 : rest[i].say = rest[i + 1].wait + rest[i + 1].say
    BY <1>1, <1>2 DEF Chained, n
  <2>3. rest # <<>> => rest[n - 1].say = 0
    BY <1>1, <1>2, <1>3
  <2> QED
    BY <1>1, <1>2, <2>1, <2>2, <2>3 DEF Chained
<1>5. rest # <<>> => Span(rest) = Span(ts) - ts[1].wait
  <2> SUFFICES ASSUME rest # <<>>
               PROVE  Span(rest) = Span(ts) - ts[1].wait
    OBVIOUS
  <2>1. n - 1 \in Nat /\ 1 \in 1 .. (n - 1) /\ 2 \in 1 .. n /\ 2 \in 2 .. n /\ 1 \in 1 .. n
    BY <1>1, <1>3
  <2>2. rest[1] = ts[2] /\ ts[2].say # -1
    BY <1>2, <2>1 DEF Chained, n
  <2>3. ts[1].say # -1 => ts[1].say = ts[2].wait + ts[2].say
    BY <2>1 DEF Chained, n
  <2>4. ts[1] \in TimerTask /\ ts[2] \in TimerTask
    BY <1>1, <2>1
  <2> QED
    BY <2>2, <2>3, <2>4, TimerAssumption DEF Span, TimerTask, TimerAssumption
<1>6. ts[1].say = -1 => rest # <<>>
  BY <1>1, <1>3
<1> QED
  BY <1>4, <1>5, <1>6 DEF rest

\* A task put before others that says nothing, or says the time that they take.
LEMMA SpanOfMore ==
  ASSUME NEW sec \in Nat, NEW ts, Chained(ts, sec), ts # <<>>, ts[1].say # -1,
         NEW t \in TimerTask, 2 * t.say <= sec, t.say = -1 \/ t.say = Span(ts)
  PROVE  /\ Chained(<<t>> \o ts, sec) /\ <<t>> \o ts # <<>> /\ (<<t>> \o ts)[1] = t
         /\ Span(<<t>> \o ts) = t.wait + Span(ts)
<1> DEFINE n == Len(ts)
           all == <<t>> \o ts
<1>1. /\ n \in Nat \ {0} /\ ts \in Seq(TimerTask) /\ ts[n].say = 0
      /\ \A i \in 1 .. n : ts[i] \in TimerTask
  BY DEF Chained
<1>2. /\ all \in Seq(TimerTask) /\ Len(all) = n + 1 /\ all[1] = t
      /\ \A i \in 2 .. (n + 1) : all[i] = ts[i - 1]
  BY <1>1
<1> HIDE DEF all, n
<1>3. all # <<>>
  BY <1>1, <1>2
<1>4. \A i \in 2 .. (n + 1) : i - 1 \in 1 .. n /\ (i # 2 => i - 1 \in 2 .. n)
  BY <1>1
<1>5. all[2] = ts[1] /\ 1 \in 1 .. n /\ n + 1 \in 2 .. (n + 1) /\ (n + 1) - 1 = n
  BY <1>1, <1>2
<1>6. Span(ts) = ts[1].wait + ts[1].say
  BY DEF Span
<1>7. \A i \in 2 .. Len(all) : all[i].say # -1
  <2> SUFFICES ASSUME NEW i \in 2 .. (n + 1)
               PROVE  all[i].say # -1
    BY <1>2
  <2>1. CASE i = 2
    BY <1>5, <2>1
  <2>2. CASE i # 2
    BY <1>2, <1>4, <2>2 DEF Chained, n
  <2> QED
    BY <2>1, <2>2
<1>8. \A i \in 1 .. Len(all) : 2 * all[i].say <= sec
  <2>1. \A i \in 1 .. (n + 1) : i = 1 \/ i \in 2 .. (n + 1)
    BY <1>1
  <2> QED
    BY <1>2, <1>4, <2>1 DEF Chained, n
<1>9. \A i \in 1 .. Len(all) - 1 : all[i].say # -1 => all[i].say = all[i + 1].wait + all[i + 1].say
  <2>1. ASSUME NEW i \in 1 .. n
        PROVE  all[i].say # -1 => all[i].say = all[i + 1].wait + all[i + 1].say
    <3>1. CASE i = 1
      BY <1>2, <1>5, <1>6, <3>1
    <3>2. CASE i # 1
      <4>1. i \in 2 .. (n + 1) /\ i + 1 \in 2 .. (n + 1) /\ i - 1 \in 1 .. n - 1 /\ (i + 1) - 1 = (i - 1) + 1
        BY <1>1, <3>2
      <4>2. all[i] = ts[i - 1] /\ all[i + 1] = ts[(i - 1) + 1]
        BY <1>2, <4>1
      <4> QED
        BY <4>1, <4>2 DEF Chained, n
    <3> QED
      BY <3>1, <3>2
  <2> QED
    BY <1>1, <1>2, <2>1
<1>10. all[Len(all)].say = 0
  BY <1>1, <1>2, <1>5
<1>11. Chained(all, sec)
  BY <1>2, <1>7, <1>8, <1>9, <1>10 DEF Chained
<1>12. Span(all) = t.wait + Span(ts)
  BY <1>2, <1>5, <1>6 DEF Span
<1> QED
  BY <1>2, <1>3, <1>11, <1>12 DEF all

\* What the loop has made after a turn: alerts that double, which take the sum of
\* seconds that it has counted, and no more than there are.
LoopShape(sec, at) ==
    /\ at.sum \in MinAlertSec .. sec /\ at.alert = at.sum
    /\ Chained(at.tasks, sec) /\ at.tasks # <<>> /\ at.tasks[1].say # -1
    /\ Span(at.tasks) = at.sum

LEMMA LoopKeepsShape ==
  ASSUME NEW sec \in 0 .. MaxSec, MinAlertSec <= sec \div 2
  PROVE  /\ LoopTurns(sec) \in Nat
         /\ \A n \in 0 .. LoopTurns(sec) : LoopShape(sec, AlertLoop(sec)[n])
<1> USE TimerAssumption DEF TimerAssumption
<1>1. sec \div 2 \in Nat /\ 2 * (sec \div 2) <= sec /\ sec \in Nat
  OBVIOUS
<1>2. LoopTurns(sec) \in Nat
  BY DEF LoopTurns
<1> DEFINE T == {n \in Nat : n \in 0 .. LoopTurns(sec) => LoopShape(sec, AlertLoop(sec)[n])}
<1>3. 0 \in T
  <2> DEFINE t == [wait |-> MinAlertSec, say |-> 0]
  <2>1. t \in TimerTask
    BY <1>1 DEF TimerTask
  <2>2. FirstTurn.sum = MinAlertSec /\ FirstTurn.alert = MinAlertSec /\ FirstTurn.tasks = <<t>>
    BY DEF FirstTurn
  <2>3. t.say = 0 /\ t.wait = MinAlertSec
    OBVIOUS
  <2> HIDE DEF t
  <2>4. Len(<<t>>) = 1 /\ <<t>>[1] = t /\ <<t>> \in Seq(TimerTask) /\ <<t>> # <<>>
    BY <2>1
  <2>5. Chained(<<t>>, sec) /\ Span(<<t>>) = MinAlertSec
    BY <1>1, <2>3, <2>4 DEF Chained, Span
  <2>6. LoopShape(sec, FirstTurn)
    BY <1>1, <2>2, <2>3, <2>4, <2>5 DEF LoopShape
  <2> QED
    BY <1>2, <2>6, LoopUnfolds
<1>4. ASSUME NEW n \in Nat, n \in T
      PROVE  n + 1 \in T
  <2> SUFFICES ASSUME n + 1 \in 0 .. LoopTurns(sec)
               PROVE  LoopShape(sec, AlertLoop(sec)[n + 1])
    OBVIOUS
  <2> DEFINE at == AlertLoop(sec)[n]
             next == AlertLoop(sec)[n + 1]
  <2>1. n \in 0 .. LoopTurns(sec) /\ n + 1 \in 1 .. LoopTurns(sec) /\ (n + 1) - 1 = n
    BY <1>2
  <2>2. next = NextTurn(sec, at)
    BY <1>2, <2>1, LoopUnfolds
  <2>3. LoopShape(sec, at)
    BY <1>4, <2>1
  <2> HIDE DEF at, next
  <2>4. CASE at.sum < sec \div 2
    <3>1. at.sum \in Nat /\ at.alert = at.sum /\ at.sum + at.alert \in 0 .. sec /\ at.alert * 2 = at.sum + at.alert
          /\ MinAlertSec <= at.sum
      BY <1>1, <2>3, <2>4 DEF LoopShape
    <3>2. Unsigned(at.sum + at.alert) = at.sum + at.alert
      BY <3>1 DEF Unsigned
    <3> DEFINE t == [wait |-> at.alert, say |-> at.alert]
    <3>3. next.sum = at.sum + at.alert /\ next.alert = next.sum /\ next.tasks = <<t>> \o at.tasks
      BY <2>2, <2>4, <3>1, <3>2 DEF NextTurn
    <3>4. t \in TimerTask /\ t.say = at.sum /\ t.wait = at.sum /\ 2 * t.say <= sec
      BY <3>1 DEF TimerTask
    <3> HIDE DEF t
    <3>5. /\ Chained(<<t>> \o at.tasks, sec) /\ <<t>> \o at.tasks # <<>>
          /\ (<<t>> \o at.tasks)[1] = t /\ Span(<<t>> \o at.tasks) = t.wait + at.sum
      BY <1>1, <2>3, <3>4, SpanOfMore DEF LoopShape
    <3>6. LoopShape(sec, next)
      BY <3>1, <3>3, <3>4, <3>5 DEF LoopShape
    <3> QED
      BY <3>6 DEF next
  <2>5. CASE ~(at.sum < sec \div 2)
    <3>1. next = at
      BY <2>2, <2>5 DEF NextTurn
    <3> QED
      BY <2>3, <3>1 DEF next
  <2> QED
    BY <2>4, <2>5
<1> HIDE DEF T
<1>5. Nat \subseteq T
  BY <1>3, <1>4, Induction
<1> QED
  BY <1>2, <1>5 DEF T

\* LoopTurns are enough: the loop has counted half of the seconds by then.
LEMMA LoopEnds ==
  ASSUME NEW sec \in 0 .. MaxSec, MinAlertSec <= sec \div 2
  PROVE  sec \div 2 <= AlertLoop(sec)[LoopTurns(sec)].sum
<1> USE TimerAssumption DEF TimerAssumption
<1> DEFINE done(n) == sec \div 2 <= AlertLoop(sec)[n].sum
           T == {n \in Nat : n \in 0 .. LoopTurns(sec) =>
                               done(n) \/ MinAlertSec * (n + 1) <= AlertLoop(sec)[n].sum}
<1>1. LoopTurns(sec) \in Nat /\ \A n \in 0 .. LoopTurns(sec) : LoopShape(sec, AlertLoop(sec)[n])
  BY LoopKeepsShape
<1>2. sec \div 2 \in Nat /\ 2 * (sec \div 2) <= sec /\ sec \in Nat
  OBVIOUS
<1>3. 0 \in T
  <2>1. AlertLoop(sec)[0].sum = MinAlertSec
    BY <1>1, LoopUnfolds DEF FirstTurn
  <2> QED
    BY <2>1
<1>4. ASSUME NEW n \in Nat, n \in T
      PROVE  n + 1 \in T
  <2> SUFFICES ASSUME n + 1 \in 0 .. LoopTurns(sec)
               PROVE  done(n + 1) \/ MinAlertSec * ((n + 1) + 1) <= AlertLoop(sec)[n + 1].sum
    OBVIOUS
  <2> DEFINE at == AlertLoop(sec)[n]
             next == AlertLoop(sec)[n + 1]
  <2>1. n \in 0 .. LoopTurns(sec) /\ n + 1 \in 1 .. LoopTurns(sec) /\ (n + 1) - 1 = n
    BY <1>1
  <2>2. next = NextTurn(sec, at)
    BY <1>1, <2>1, LoopUnfolds
  <2>3. LoopShape(sec, at) /\ (sec \div 2 <= at.sum \/ MinAlertSec * (n + 1) <= at.sum)
    BY <1>1, <1>4, <2>1
  <2> HIDE DEF at, next
  <2>4. CASE at.sum < sec \div 2
    <3>1. at.sum \in Nat /\ at.alert = at.sum /\ at.sum + at.alert \in 0 .. sec /\ MinAlertSec <= at.sum
      BY <1>2, <2>3, <2>4 DEF LoopShape
    <3>2. next.sum = at.sum + at.sum
      <4>1. Unsigned(at.sum + at.alert) = at.sum + at.sum
        BY <3>1 DEF Unsigned
      <4> QED
        BY <2>2, <2>4, <4>1 DEF NextTurn
    <3>3. MinAlertSec * ((n + 1) + 1) = MinAlertSec * (n + 1) + MinAlertSec /\ MinAlertSec * (n + 1) \in Nat
      OBVIOUS
    <3>4. MinAlertSec * (n + 1) <= at.sum
      BY <1>2, <2>3, <2>4, <3>1
    <3> QED
      BY <3>1, <3>2, <3>3, <3>4 DEF next
  <2>5. CASE ~(at.sum < sec \div 2)
    <3>1. next = at /\ sec \div 2 <= at.sum
      BY <1>2, <2>2, <2>3, <2>5 DEF NextTurn, LoopShape
    <3> QED
      BY <3>1 DEF next
  <2> QED
    BY <2>4, <2>5
<1> HIDE DEF T
<1>5. Nat \subseteq T
  BY <1>3, <1>4, Induction
<1> DEFINE last == AlertLoop(sec)[LoopTurns(sec)].sum
<1>6. (sec \div 2 <= last \/ MinAlertSec * (LoopTurns(sec) + 1) <= last) /\ last \in 0 .. sec
  BY <1>1, <1>5 DEF T, LoopShape
<1>7. sec < MinAlertSec * (LoopTurns(sec) + 1)
  BY <1>2 DEF LoopTurns
<1>8. MinAlertSec * (LoopTurns(sec) + 1) \in Nat
  BY <1>1
<1> HIDE DEF last
<1> QED
  BY <1>2, <1>6, <1>7, <1>8 DEF last

\* The tasks of a timer take the seconds it is given, and end with the timeout.
LEMMA TasksTakeTheTime ==
  ASSUME NEW sec \in 0 .. MaxSec
  PROVE  /\ Chained(BuildGameTimerTasks(sec), sec)
         /\ BuildGameTimerTasks(sec) # <<>> => Span(BuildGameTimerTasks(sec)) = sec
         /\ BuildGameTimerTasks(sec) = <<>> => sec = 0
<1> USE TimerAssumption DEF TimerAssumption
<1>1. CASE sec = 0
  <2>1. BuildGameTimerTasks(sec) = <<>>
    BY <1>1 DEF BuildGameTimerTasks
  <2> QED
    BY <1>1, <2>1, NoTasks
<1>2. CASE sec # 0 /\ MinAlertSec > sec \div 2
  <2> DEFINE t == [wait |-> sec, say |-> 0]
  <2>1. BuildGameTimerTasks(sec) = <<t>> /\ t \in TimerTask /\ t.say = 0 /\ t.wait = sec
    BY <1>2 DEF BuildGameTimerTasks, TimerTask
  <2> HIDE DEF t
  <2>2. Len(<<t>>) = 1 /\ <<t>>[1] = t /\ <<t>> \in Seq(TimerTask) /\ <<t>> # <<>>
    BY <2>1
  <2> QED
    BY <2>1, <2>2 DEF Chained, Span
<1>3. CASE sec # 0 /\ ~(MinAlertSec > sec \div 2)
  <2> DEFINE end == AlertLoop(sec)[LoopTurns(sec)]
             t == [wait |-> Unsigned(sec - end.sum), say |-> -1]
  <2>1. MinAlertSec <= sec \div 2
    BY <1>3
  <2>2. LoopShape(sec, end)
    BY <2>1, LoopKeepsShape
  <2>3. BuildGameTimerTasks(sec) = <<t>> \o end.tasks
    BY <1>3 DEF BuildGameTimerTasks
  <2> HIDE DEF end
  <2>4. sec - end.sum \in 0 .. sec
    BY <2>2 DEF LoopShape
  <2>5. Unsigned(sec - end.sum) = sec - end.sum
    BY <2>4 DEF Unsigned
  <2>6. t \in TimerTask /\ t.say = -1 /\ t.wait = sec - end.sum
    BY <2>4, <2>5 DEF TimerTask
  <2> HIDE DEF t
  <2>7. /\ Chained(<<t>> \o end.tasks, sec) /\ <<t>> \o end.tasks # <<>>
        /\ Span(<<t>> \o end.tasks) = t.wait + Span(end.tasks)
    BY <2>2, <2>6, SpanOfMore DEF LoopShape
  <2>8. t.wait + Span(end.tasks) = sec
    BY <2>2, <2>4, <2>6 DEF LoopShape
  <2> QED
    BY <2>3, <2>7, <2>8
<1> QED
  BY <1>1, <1>2, <1>3

-----------------------------------------------------------------------------
(* The timer.                                                                 *)

\* The tasks that are still to come take the rest of the time.
TimerInv ==
    /\ duration \in 0 .. MaxSec /\ isOver \in BOOLEAN
    /\ clock \in 0 .. duration
    /\ Chained(tasks, duration)
    /\ tasks # <<>> => clock + Span(tasks) = duration
    /\ AlertsTellTheTruth

\* The timer starts in order.
LEMMA InitTimer == TimerInit => TimerInv
BY NoTasks, TimerAssumption DEF TimerAssumption, TimerInit, TimerInv, AlertsTellTheTruth

\* A task that runs leaves the rest in order, and says the truth.
LEMMA RunKeepsTimer ==
  ASSUME TimerInv, RunTask
  PROVE  TimerInv'
<1> DEFINE now == tasks[1]
           n == Len(tasks)
<1>1. /\ tasks # <<>> /\ ~isOver /\ tasks' = Tail(tasks) /\ UNCHANGED <<duration, isOver>>
      /\ clock' = clock + now.wait /\ told' = told \cup {[say |-> now.say, at |-> clock']}
  BY DEF RunTask, TimerInv, Chained
<1>2. /\ duration \in Nat /\ clock \in Nat /\ duration \in 0 .. MaxSec
      /\ Chained(tasks, duration) /\ clock + Span(tasks) = duration
  BY <1>1, TimerAssumption DEF TimerAssumption, TimerInv
<1>3. n \in Nat \ {0} /\ now \in TimerTask /\ 2 * now.say <= duration
  BY <1>1, <1>2 DEF Chained
<1>4. /\ Chained(tasks', duration)
      /\ tasks' # <<>> => Span(tasks') = Span(tasks) - now.wait
      /\ now.say = -1 => tasks' # <<>>
  BY <1>1, <1>2, SpanOfTail
<1>5. n = 1 => now.say = 0
  BY <1>1, <1>2 DEF Chained
<1>6. now.say = -1 => tasks[2] \in TimerTask /\ tasks[2].say # -1
  <2>1. n # 1 => 2 \in 1 .. n /\ 2 \in 2 .. n
    <3>1. \A k \in Nat \ {0} : k # 1 => 2 \in 1 .. k /\ 2 \in 2 .. k
      OBVIOUS
    <3> QED
      BY <1>3, <3>1
  <2>2. /\ \A i \in 2 .. n : tasks[i].say # -1
        /\ \A i \in 1 .. n : tasks[i] \in TimerTask
    BY <1>2 DEF Chained
  <2>3. now.say = -1 => n # 1
    BY <1>5
  <2> HIDE DEF n, now
  <2> QED
    BY <2>1, <2>2, <2>3
<1>7. now.wait \in Nat /\ now.say \in Int /\ (now.say # -1 => now.say \in Nat)
  BY <1>3, TimerAssumption DEF TimerTask, TimerAssumption
<1>8. now.say = -1 => tasks[2].wait \in Nat /\ tasks[2].say \in Nat
  BY <1>6, TimerAssumption DEF TimerTask, TimerAssumption
<1>9. tasks' = <<>> => n = 1
  <2>1. Len(tasks') = n - 1
    BY <1>1, <1>2 DEF Chained
  <2>2. tasks' = <<>> => Len(tasks') = 0
    OBVIOUS
  <2> QED
    BY <1>3, <2>1, <2>2
<1>10. Span(tasks) = now.wait + (IF now.say = -1 THEN tasks[2].wait + tasks[2].say ELSE now.say)
  BY DEF Span
<1> HIDE DEF now, n
<1>11. Span(tasks) \in Nat /\ now.wait <= Span(tasks)
       /\ (now.say # -1 => Span(tasks) = now.wait + now.say)
  BY <1>7, <1>8, <1>10
<1>12. clock' \in 0 .. duration /\ (now.say # -1 => clock' + now.say = duration)
  BY <1>1, <1>2, <1>7, <1>11
<1>13. now.say # -1 => 2 * clock' >= duration - 1
  <2>1. \A c, s, d \in Nat : c + s = d /\ 2 * s <= d => 2 * c >= d - 1
    OBVIOUS
  <2>2. clock' \in Nat
    BY <1>12
  <2> QED
    BY <1>2, <1>3, <1>7, <1>12, <2>1, <2>2
<1>14. AlertsTellTheTruth'
  <2> DEFINE e == [say |-> now.say, at |-> clock']
  <2>1. e.say = now.say /\ e.at = clock' /\ told' = told \cup {e}
    BY <1>1
  <2> HIDE DEF e
  <2>2. \A d \in told : d.say # -1 => d.at + d.say = duration /\ 2 * d.at >= duration - 1
    BY DEF TimerInv, AlertsTellTheTruth
  <2>3. \A d \in told' : d.say # -1 => d.at + d.say = duration /\ 2 * d.at >= duration - 1
    BY <1>12, <1>13, <2>1, <2>2
  <2>4. tasks' = <<>> => \E d \in told' : d.say = 0
    BY <1>5, <1>9, <2>1 DEF now, n
  <2> QED
    BY <1>1, <2>3, <2>4 DEF AlertsTellTheTruth
<1>15. tasks' # <<>> => clock' + Span(tasks') = duration
  BY <1>1, <1>2, <1>4, <1>7, <1>11
<1> QED
  BY <1>1, <1>2, <1>4, <1>12, <1>14, <1>15 DEF TimerInv

\* Every step of the timer keeps the invariant.
LEMMA TimerStep == TimerInv /\ [TimerNext]_timerVars => TimerInv'
<1> SUFFICES ASSUME TimerInv, [TimerNext]_timerVars
             PROVE  TimerInv'
  OBVIOUS
<1>1. ASSUME NEW sec \in 0 .. MaxSec, StartTimer(sec)
      PROVE  TimerInv'
  <2>1. /\ duration' = sec /\ clock' = 0 /\ told' = {} /\ isOver' = FALSE
        /\ tasks' = BuildGameTimerTasks(sec)
    BY <1>1 DEF StartTimer
  <2>2. /\ Chained(tasks', sec) /\ (tasks' # <<>> => Span(tasks') = sec)
        /\ (tasks' = <<>> => sec = 0)
    BY <2>1, TasksTakeTheTime
  <2>3. sec \in Nat
    BY TimerAssumption DEF TimerAssumption
  <2>4. AlertsTellTheTruth'
    BY <2>1, <2>2, <2>3 DEF AlertsTellTheTruth
  <2>5. clock' \in 0 .. duration' /\ (tasks' # <<>> => clock' + Span(tasks') = duration')
    BY <2>1, <2>2, <2>3
  <2> QED
    BY <2>1, <2>2, <2>4, <2>5 DEF TimerInv
<1>2. CASE RequestStop
  BY <1>2 DEF RequestStop, TimerInv, AlertsTellTheTruth
<1>3. CASE UNCHANGED timerVars
  BY <1>3 DEF timerVars, TimerInv, AlertsTellTheTruth
<1> QED
  BY <1>1, <1>2, <1>3, RunKeepsTimer DEF TimerNext

\* Whatever its duration and the first alert are, a timer says what is left when it
\* says so, in the second half, and times out at its end.
THEOREM AlertsAreTrue == TimerSpec => []AlertsTellTheTruth
<1>1. TimerInv => AlertsTellTheTruth
  BY DEF TimerInv
<1> QED
  BY <1>1, InitTimer, TimerStep, PTL DEF TimerSpec

-----------------------------------------------------------------------------
(* Frames: streams of bytes.                                                *)

\* The bytes, whatever a byte can be.
Stream == Seq(Nat)

\* One stream after the other.
Then(s, t) == s \o t

\* The first n bytes, and those after them.
FirstOf(s, n) == SubSeq(s, 1, n)
After(s, n) == SubSeq(s, n + 1, Len(s))

\* Streams one after the other.
LEMMA ThenJoins ==
  ASSUME NEW s \in Stream, NEW t \in Stream
  PROVE  /\ Then(s, t) \in Stream /\ Len(Then(s, t)) = Len(s) + Len(t)
         /\ Len(s) \in Nat /\ Len(t) \in Nat
         /\ \A i \in 1 .. Len(s) : Then(s, t)[i] = s[i]
         /\ \A i \in 1 .. Len(t) : Then(s, t)[Len(s) + i] = t[i]
<1>1. /\ s \o t \in Stream /\ Len(s \o t) = Len(s) + Len(t)
      /\ Len(s) \in Nat /\ Len(t) \in Nat
      /\ \A i \in 1 .. Len(s) + Len(t) :
            (s \o t)[i] = IF i <= Len(s) THEN s[i] ELSE t[i - Len(s)]
  BY ConcatProperties, LenProperties DEF Stream
<1>2. ASSUME NEW i \in 1 .. Len(s)
      PROVE  Then(s, t)[i] = s[i]
  BY <1>1 DEF Then
<1>3. ASSUME NEW i \in 1 .. Len(t)
      PROVE  Then(s, t)[Len(s) + i] = t[i]
  <2>1. Len(s) + i \in 1 .. Len(s) + Len(t) /\ ~(Len(s) + i <= Len(s)) /\ (Len(s) + i) - Len(s) = i
    BY <1>1
  <2> QED
    BY <1>1, <2>1 DEF Then
<1> QED
  BY <1>1, <1>2, <1>3 DEF Then

\* One after another is the same however it is bracketed.
LEMMA JoinedTwice ==
  ASSUME NEW s \in Stream, NEW t \in Stream, NEW u \in Stream
  PROVE  Then(Then(s, t), u) = Then(s, Then(t, u))
BY ConcatAssociative DEF Stream, Then

\* Nothing before or after a stream.
LEMMA JoinedToNone ==
  ASSUME NEW s \in Stream
  PROVE  /\ <<>> \in Stream /\ Then(s, <<>>) = s /\ Then(<<>>, s) = s
         /\ \A t \in Stream : Then(s, t) = <<>> <=> s = <<>> /\ t = <<>>
BY ConcatEmptySeq, ConcatEqualIffEmpty, EmptySeq DEF Stream, Then

\* Streams are the same that have the same bytes.
LEMMA Alike ==
  ASSUME NEW s \in Stream, NEW t \in Stream, Len(s) = Len(t),
         \A i \in 1 .. Len(s) : s[i] = t[i]
  PROVE  s = t
BY SeqEqual DEF Stream

\* What was cut can be put together again.
LEMMA CutInTwo ==
  ASSUME NEW s \in Stream, NEW n \in 0 .. Len(s)
  PROVE  /\ FirstOf(s, n) \in Stream /\ Len(FirstOf(s, n)) = n
         /\ After(s, n) \in Stream /\ Len(After(s, n)) = Len(s) - n
         /\ Then(FirstOf(s, n), After(s, n)) = s
         /\ \A i \in 1 .. Len(s) - n : After(s, n)[i] = s[n + i]
<1>1. Len(s) \in Nat /\ n \in Nat /\ n <= Len(s)
  BY LenProperties DEF Stream
<1>2. ASSUME NEW m \in 1 .. Len(s) + 1, NEW k \in Int, k <= Len(s), k >= m - 1
      PROVE  /\ SubSeq(s, m, k) \in Stream /\ Len(SubSeq(s, m, k)) = k - m + 1
             /\ \A i \in 1 .. k - m + 1 : SubSeq(s, m, k)[i] = s[m + i - 1]
  <2>1. \A i \in m .. k : s[i] \in Nat
    BY <1>1, <1>2, ElementOfSeq DEF Stream
  <2>2. m \in Int
    BY <1>1
  <2>3. /\ SubSeq(s, m, k) \in Seq(Nat)
        /\ Len(SubSeq(s, m, k)) = IF m <= k THEN k - m + 1 ELSE 0
        /\ \A i \in 1 .. k - m + 1 : SubSeq(s, m, k)[i] = s[m + i - 1]
    BY <2>1, <2>2, SubSeqProperties
  <2> QED
    BY <1>1, <1>2, <2>2, <2>3 DEF Stream
<1>3. FirstOf(s, n) \in Stream /\ Len(FirstOf(s, n)) = n - 1 + 1
  <2>1. 1 \in 1 .. Len(s) + 1 /\ n \in Int /\ n >= 1 - 1
    BY <1>1
  <2> QED
    BY <1>1, <1>2, <2>1 DEF FirstOf
<1>4. /\ After(s, n) \in Stream /\ Len(After(s, n)) = Len(s) - (n + 1) + 1
      /\ \A i \in 1 .. Len(s) - (n + 1) + 1 : After(s, n)[i] = s[(n + 1) + i - 1]
  <2>1. n + 1 \in 1 .. Len(s) + 1 /\ Len(s) \in Int /\ Len(s) >= (n + 1) - 1 /\ Len(s) <= Len(s)
    BY <1>1
  <2> QED
    BY <1>2, <2>1 DEF After
<1>5. SubSeq(s, 1, n) \o SubSeq(s, n + 1, Len(s)) = SubSeq(s, 1, Len(s))
  <2>1. 1 \in 1 .. Len(s) + 1 /\ n \in 1 - 1 .. Len(s) /\ Len(s) \in n .. Len(s)
    BY <1>1
  <2> QED
    BY <2>1, ConcatAdjacentSubSeq DEF Stream
<1>6. SubSeq(s, 1, Len(s)) = s
  BY SubSeqFull DEF Stream
<1>7. n - 1 + 1 = n /\ Len(s) - (n + 1) + 1 = Len(s) - n
  BY <1>1
<1>8. \A i \in 1 .. Len(s) - n : (n + 1) + i - 1 = n + i
  BY <1>1
<1>9. Then(FirstOf(s, n), After(s, n)) = s
  BY <1>5, <1>6 DEF Then, FirstOf, After
<1>10. \A i \in 1 .. Len(s) - n : After(s, n)[i] = s[n + i]
  BY <1>4, <1>7, <1>8
<1> QED
  BY <1>3, <1>4, <1>7, <1>9, <1>10

\* Streams that are the same begin alike, and after the same beginning go on alike.
LEMMA BeginsAlike ==
  ASSUME NEW s \in Stream, NEW t \in Stream, NEW u \in Stream, NEW v \in Stream,
         Then(s, t) = Then(u, v), Len(s) <= Len(u)
  PROVE  /\ \A i \in 1 .. Len(s) : s[i] = u[i]
         /\ s = u => t = v
<1>1. ASSUME NEW i \in 1 .. Len(s)
      PROVE  s[i] = u[i]
  <2>1. Then(s, t)[i] = s[i]
    BY ThenJoins
  <2>2. i \in 1 .. Len(u)
    BY ThenJoins
  <2>3. Then(u, v)[i] = u[i]
    BY <2>2, ThenJoins
  <2> QED
    BY <2>1, <2>3
<1>2. s = u => t = v
  BY ConcatSimplifications, Zenon DEF Stream, Then
<1> QED
  BY <1>1, <1>2

-----------------------------------------------------------------------------
(* Frames: what a header says.                                              *)

\* The payloads that are sent.
Short == {p \in Payloads : SizeValid(p)}

\* Whole division and its rest make up the number.
LEMMA Parted ==
  ASSUME NEW a \in Nat, NEW b \in Nat \ {0}
  PROVE  a \div b \in Nat /\ a % b \in Nat /\ (a \div b) * b + (a % b) = a
OBVIOUS

\* A frame tells the length of its payload, and ends with it.
LEMMA FrameTells ==
  ASSUME NEW p \in Short
  PROVE  /\ p \in Stream /\ Frame(p) \in Stream /\ Len(p) \in Nat /\ Len(p) <= MaxPayload
         /\ Len(Frame(p)) = 2 + Len(p)
         /\ Length(Frame(p)) = Len(p)
         /\ After(Frame(p), Digits) = p
<1> DEFINE h == <<Len(p) \div Radix, Len(p) % Radix>>
<1>1. p \in Stream /\ Len(p) \in Nat
  <2>1. p \in Seq(Bytes) /\ Bytes \subseteq Nat
    BY FramesAssumption DEF FramesAssumption, Short, Bytes
  <2>2. p \in Stream
    BY <2>1, SeqMonotonic DEF Stream
  <2> QED
    BY <2>2, LenProperties DEF Stream
<1>2. /\ Len(p) \div Radix \in Nat /\ Len(p) % Radix \in Nat
      /\ (Len(p) \div Radix) * Radix + (Len(p) % Radix) = Len(p)
  BY <1>1, Parted, FramesAssumption DEF FramesAssumption
<1>3. h \in Stream /\ Len(h) = 2
  BY <1>2 DEF Stream
<1>4. h[1] = Len(p) \div Radix /\ h[2] = Len(p) % Radix
  OBVIOUS
<1>5. Frame(p) = Then(h, p)
  BY DEF Frame, Then
<1> HIDE DEF h
<1>6. /\ Frame(p) \in Stream /\ Len(Frame(p)) = 2 + Len(p)
      /\ Frame(p)[1] = h[1] /\ Frame(p)[2] = h[2]
      /\ \A i \in 1 .. Len(p) : Frame(p)[2 + i] = p[i]
  <2>1. /\ \A i \in 1 .. Len(h) : Then(h, p)[i] = h[i]
        /\ \A i \in 1 .. Len(p) : Then(h, p)[Len(h) + i] = p[i]
        /\ Then(h, p) \in Stream /\ Len(Then(h, p)) = Len(h) + Len(p)
    BY <1>1, <1>3, ThenJoins
  <2> QED
    BY <1>3, <1>5, <2>1
<1>7. Length(Frame(p)) = Len(p)
  BY <1>2, <1>4, <1>6 DEF Length
<1>8. After(Frame(p), 2) = p
  <2>1. 2 \in 0 .. Len(Frame(p)) /\ Len(Frame(p)) - 2 = Len(p)
    BY <1>1, <1>6
  <2>2. /\ After(Frame(p), 2) \in Stream /\ Len(After(Frame(p), 2)) = Len(p)
        /\ \A i \in 1 .. Len(p) : After(Frame(p), 2)[i] = Frame(p)[2 + i]
    BY <1>6, <2>1, CutInTwo
  <2> QED
    BY <1>1, <1>6, <2>2, Alike
<1> QED
  BY <1>1, <1>6, <1>7, <1>8 DEF Digits, Short, SizeValid

\* What is read of a frame tells how much of it is missing.
LEMMA SoFar ==
  ASSUME NEW p \in Short, NEW f, f = Frame(p), NEW in \in Stream, Len(in) <= Len(f),
         \A i \in 1 .. Len(in) : in[i] = f[i]
  PROVE  /\ Missing(in) = IF Len(in) < 2 THEN 2 - Len(in) ELSE Len(f) - Len(in)
         /\ ~TooLong(in)
         /\ Complete(in) <=> Len(in) = Len(f)
         /\ Complete(in) => Payload(in) = p /\ in = f
<1>1. /\ f \in Stream /\ Len(p) \in Nat /\ Len(p) <= MaxPayload /\ MaxPayload \in Nat
      /\ Len(f) = 2 + Len(p) /\ Length(f) = Len(p)
  BY FrameTells, FramesAssumption DEF FramesAssumption
<1>2. Len(in) \in Nat
  BY LenProperties DEF Stream
<1>3. Len(in) >= 2 => Length(in) = Len(p)
  <2>1. Len(in) >= 2 => in[1] = f[1] /\ in[2] = f[2]
    BY <1>2
  <2> QED
    BY <1>1, <2>1 DEF Length
<1>4. Len(in) = Len(f) => in = f
  BY <1>1, Alike
<1>5. Payload(f) = p
  BY FrameTells DEF After, Payload
<1> QED
  BY <1>1, <1>2, <1>3, <1>4, <1>5 DEF Missing, TooLong, Complete, Digits

\* A read never goes past the frame that it began, knows when it has all of it, and then
\* has its payload.
LEMMA ReadStep ==
  ASSUME NEW p \in Short, NEW later \in Stream, NEW in \in Stream, NEW pipe \in Stream,
         NEW rest \in Stream, Then(Then(in, pipe), rest) = Then(Frame(p), later),
         Len(in) < Len(Frame(p)), NEW n \in Parts(pipe, in),
         NEW have, have = Then(in, FirstOf(pipe, n)),
         NEW left, left = After(pipe, n)
  PROVE  /\ have \in Stream /\ left \in Stream /\ Len(left) <= Len(pipe)
         /\ ~TooLong(have) /\ Len(have) <= Len(Frame(p))
         /\ Then(Then(have, left), rest) = Then(Frame(p), later)
         /\ Complete(have) <=> Len(have) = Len(Frame(p))
         /\ Complete(have) => Payload(have) = p /\ Then(left, rest) = later
<1>1. PICK f : f = Frame(p)
  OBVIOUS
<1>2. f \in Stream /\ Len(f) \in Nat /\ Len(f) >= 2
  BY <1>1, FrameTells
<1>3. /\ Len(in) \in Nat /\ Len(pipe) \in Nat
      /\ Then(in, pipe) \in Stream /\ Then(pipe, rest) \in Stream
  BY ThenJoins
<1>4. \A i \in 1 .. Len(in) : in[i] = f[i]
  <2>1. Then(in, Then(pipe, rest)) = Then(f, later)
    BY <1>1, JoinedTwice
  <2> QED
    BY <1>1, <1>2, <1>3, <2>1, BeginsAlike
<1>5. n \in 0 .. Len(pipe) /\ Len(in) + n <= Len(f)
  <2>1. Missing(in) = IF Len(in) < 2 THEN 2 - Len(in) ELSE Len(f) - Len(in)
    BY <1>1, <1>2, <1>3, <1>4, SoFar
  <2>2. n \in 1 .. (IF Missing(in) < Len(pipe) THEN Missing(in) ELSE Len(pipe))
    BY DEF Parts
  <2> QED
    BY <1>1, <1>2, <1>3, <2>1, <2>2
<1>6. /\ FirstOf(pipe, n) \in Stream /\ Len(FirstOf(pipe, n)) = n
      /\ left \in Stream /\ Len(left) = Len(pipe) - n
      /\ Then(FirstOf(pipe, n), left) = pipe
  BY <1>5, CutInTwo
<1>7. have \in Stream /\ Len(have) = Len(in) + n
  <2>1. PICK part \in Stream : part = FirstOf(pipe, n) /\ Len(part) = n
    BY <1>6
  <2>2. Then(in, part) \in Stream /\ Len(Then(in, part)) = Len(in) + Len(part)
    BY ThenJoins
  <2> QED
    BY <2>1, <2>2
<1>8. Then(Then(have, left), rest) = Then(f, later)
  <2>1. Then(have, left) = Then(in, Then(FirstOf(pipe, n), left))
    BY <1>6, JoinedTwice
  <2> QED
    BY <1>1, <1>6, <2>1
<1>9. Then(left, rest) \in Stream /\ Then(have, Then(left, rest)) = Then(f, later)
  BY <1>6, <1>7, <1>8, ThenJoins, JoinedTwice
<1>10. Len(have) <= Len(f)
  BY <1>5, <1>7
<1>11. /\ \A i \in 1 .. Len(have) : have[i] = f[i]
       /\ have = f => Then(left, rest) = later
  BY <1>2, <1>7, <1>9, <1>10, BeginsAlike
<1>12. /\ ~TooLong(have)
       /\ Complete(have) <=> Len(have) = Len(f)
       /\ Complete(have) => Payload(have) = p /\ have = f
  BY <1>1, <1>7, <1>10, <1>11, SoFar
<1>13. Len(left) <= Len(pipe)
  BY <1>3, <1>5, <1>6
<1> QED
  BY <1>1, <1>6, <1>7, <1>8, <1>10, <1>11, <1>12, <1>13

-----------------------------------------------------------------------------
(* Frames: what the session writes for a reply.                             *)

\* The bytes of some payloads.
Flat(ps) == FlattenSeq([i \in DOMAIN ps |-> Frame(ps[i])])

\* How g puts the first n of some sequences one after the other.
Flattens(g, s, n) == g = [i \in 1 .. n |-> IF i = 1 THEN s[i] ELSE g[i - 1] \o s[i]]

\* That can be done however many they are.
LEMMA FlattenExists ==
  ASSUME NEW s, NEW N \in Nat
  PROVE  \E g : Flattens(g, s, N)
<1> DEFINE T == {k \in Nat : \E g : Flattens(g, s, k)}
<1>1. 0 \in T
  <2>1. Flattens([i \in 1 .. 0 |-> s[i]], s, 0)
    BY DEF Flattens
  <2> QED
    BY <2>1
<1>2. ASSUME NEW k \in Nat, k \in T
      PROVE  k + 1 \in T
  <2>1. PICK g : Flattens(g, s, k)
    BY <1>2
  <2> DEFINE last == IF k + 1 = 1 THEN s[k + 1] ELSE g[k] \o s[k + 1]
             h == [i \in 1 .. k + 1 |-> IF i = k + 1 THEN last ELSE g[i]]
  <2>2. ASSUME NEW i \in 1 .. k + 1
        PROVE  h[i] = IF i = 1 THEN s[i] ELSE h[i - 1] \o s[i]
    <3>1. CASE i = k + 1
      <4>1. i # 1 => i - 1 = k /\ k \in 1 .. k + 1 /\ k # k + 1
        BY <3>1
      <4> HIDE DEF last
      <4>2. h[i] = last /\ (i # 1 => h[i - 1] = g[k])
        BY <3>1, <4>1
      <4> QED
        BY <3>1, <4>1, <4>2 DEF last
    <3>2. CASE i # k + 1
      <4>1. i \in 1 .. k /\ (i # 1 => i - 1 \in 1 .. k + 1 /\ i - 1 # k + 1)
        BY <3>2
      <4>2. g[i] = IF i = 1 THEN s[i] ELSE g[i - 1] \o s[i]
        BY <2>1, <4>1 DEF Flattens
      <4> HIDE DEF last
      <4> QED
        BY <3>2, <4>1, <4>2
    <3> QED
      BY <3>1, <3>2
  <2>3. Flattens(h, s, k + 1)
    BY <2>2 DEF Flattens
  <2> HIDE DEF h
  <2> QED
    BY <2>3
<1> HIDE DEF T
<1>3. N \in T
  BY <1>1, <1>2, Induction
<1> QED
  BY <1>3 DEF T

\* The bytes of some payloads are made frame by frame.
LEMMA FlatUnfolds ==
  ASSUME NEW ps \in Seq(Short), ps # <<>>
  PROVE  \E g : /\ g[1] = Frame(ps[1])
                /\ \A i \in 2 .. Len(ps) : g[i] = Then(g[i - 1], Frame(ps[i]))
                /\ \A i \in 1 .. Len(ps) : g[i] \in Stream
                /\ Flat(ps) = g[Len(ps)]
<1> DEFINE s == [i \in DOMAIN ps |-> Frame(ps[i])]
<1>1. /\ DOMAIN ps = 1 .. Len(ps) /\ Len(ps) \in Nat \ {0}
      /\ \A i \in 1 .. Len(ps) : ps[i] \in Short
  BY LenProperties, EmptySeq, ElementOfSeq
<1>2. Len(s) = Len(ps) /\ \A i \in 1 .. Len(ps) : s[i] = Frame(ps[i]) /\ s[i] \in Stream
  <2>1. \A i \in 1 .. Len(ps) : Frame(ps[i]) \in Stream
    BY <1>1, FrameTells
  <2> QED
    BY <1>1, <2>1
<1>3. Flat(ps) = FlattenSeq(s)
  BY DEF Flat
<1> HIDE DEF s
<1>4. \E g : Flattens(g, s, Len(s))
  BY <1>1, <1>2, FlattenExists
<1>5. FlattenSeq(s) = (CHOOSE g : Flattens(g, s, Len(s)))[Len(s)]
  BY <1>1, <1>2 DEF FlattenSeq, Flattens
<1>6. PICK g : Flattens(g, s, Len(s)) /\ FlattenSeq(s) = g[Len(s)]
  BY <1>4, <1>5
<1>7. g[1] = Frame(ps[1])
  <2>1. 1 \in 1 .. Len(ps)
    BY <1>1
  <2> QED
    BY <1>2, <1>6, <2>1 DEF Flattens
<1>8. \A i \in 2 .. Len(ps) : g[i] = Then(g[i - 1], Frame(ps[i]))
  <2> TAKE i \in 2 .. Len(ps)
  <2>1. i \in 1 .. Len(ps) /\ i # 1
    BY <1>1
  <2> QED
    BY <1>2, <1>6, <2>1 DEF Then, Flattens
<1>9. \A i \in 1 .. Len(ps) : g[i] \in Stream
  <2> DEFINE T == {k \in Nat : k \in 1 .. Len(ps) => g[k] \in Stream}
  <2>1. 0 \in T
    OBVIOUS
  <2>2. ASSUME NEW k \in Nat, k \in T
        PROVE  k + 1 \in T
    <3>1. CASE k = 0
      BY <1>2, <1>7, <3>1
    <3>2. CASE k # 0 /\ k + 1 \in 1 .. Len(ps)
      <4>1. k + 1 \in 2 .. Len(ps) /\ k \in 1 .. Len(ps) /\ (k + 1) - 1 = k
        BY <1>1, <3>2
      <4>2. g[k] \in Stream /\ Frame(ps[k + 1]) \in Stream
        BY <1>2, <2>2, <3>2, <4>1
      <4>3. g[k + 1] = Then(g[k], Frame(ps[k + 1]))
        BY <1>8, <4>1
      <4>4. g[k + 1] \in Stream
        BY <4>2, <4>3, ThenJoins
      <4> QED
        BY <4>4
    <3>3. CASE ~(k + 1 \in 1 .. Len(ps))
      BY <3>3
    <3> QED
      BY <3>1, <3>2, <3>3
  <2> HIDE DEF T
  <2>3. Nat \subseteq T
    BY <2>1, <2>2, Induction
  <2>4. \A i \in 1 .. Len(ps) : i \in T
    BY <1>1, <2>3
  <2> QED
    BY <1>1, <2>4 DEF T
<1> QED
  BY <1>2, <1>3, <1>6, <1>7, <1>8, <1>9

\* The bytes of no payload, and those of a first payload and of others.
LEMMA FlatFirst ==
  /\ Flat(<<>>) = <<>>
  /\ \A ps \in Seq(Short) : Flat(ps) \in Stream
  /\ \A ps \in Seq(Short) : ps # <<>> =>
        /\ Head(ps) \in Short /\ Tail(ps) \in Seq(Short)
        /\ Flat(ps) = Then(Frame(Head(ps)), Flat(Tail(ps)))
<1>1. Flat(<<>>) = <<>>
  <2>1. [i \in DOMAIN <<>> |-> Frame(<<>>[i])] = <<>>
    OBVIOUS
  <2>2. Len(<<>>) = 0
    OBVIOUS
  <2> QED
    BY <2>1, <2>2 DEF Flat, FlattenSeq
<1>2. ASSUME NEW ps \in Seq(Short)
      PROVE  Flat(ps) \in Stream
  <2>1. CASE ps = <<>>
    BY <1>1, <2>1, EmptySeq DEF Stream
  <2>2. CASE ps # <<>>
    <3>1. Len(ps) \in Nat \ {0}
      BY <2>2, EmptySeq
    <3> QED
      BY <2>2, <3>1, FlatUnfolds
  <2> QED
    BY <2>1, <2>2
<1>3. ASSUME NEW ps \in Seq(Short), ps # <<>>
      PROVE  /\ Head(ps) \in Short /\ Tail(ps) \in Seq(Short)
             /\ Flat(ps) = Then(Frame(Head(ps)), Flat(Tail(ps)))
  <2>1. PICK qs : qs = Tail(ps)
    OBVIOUS
  <2>2. /\ qs \in Seq(Short) /\ Len(qs) = Len(ps) - 1 /\ Len(qs) \in Nat
        /\ \A i \in 1 .. Len(qs) : qs[i] = ps[i + 1]
        /\ Head(ps) = ps[1] /\ Head(ps) \in Short
    BY <1>3, <2>1, HeadTailProperties, LenProperties
  <2>3. PICK g : /\ g[1] = Frame(ps[1])
                 /\ \A i \in 2 .. Len(ps) : g[i] = Then(g[i - 1], Frame(ps[i]))
                 /\ Flat(ps) = g[Len(ps)]
    BY <1>3, FlatUnfolds
  <2>4. PICK f \in Stream : f = Frame(Head(ps))
    BY <2>2, FrameTells
  <2>5. CASE qs = <<>>
    <3>1. Len(ps) = 1
      BY <2>2, <2>5, EmptySeq
    <3>2. Flat(ps) = f
      BY <2>2, <2>3, <2>4, <3>1
    <3>3. Then(f, Flat(qs)) = f
      BY <1>1, <2>5, JoinedToNone
    <3> QED
      BY <2>1, <2>2, <2>4, <3>2, <3>3
  <2>6. CASE qs # <<>>
    <3>1. PICK h : /\ h[1] = Frame(qs[1])
                   /\ \A i \in 2 .. Len(qs) : h[i] = Then(h[i - 1], Frame(qs[i]))
                   /\ \A i \in 1 .. Len(qs) : h[i] \in Stream
                   /\ Flat(qs) = h[Len(qs)]
      BY <2>2, <2>6, FlatUnfolds
    <3>2. Len(qs) \in Nat \ {0}
      BY <2>2, <2>6, EmptySeq
    <3>3. \A i \in 1 .. Len(qs) : Frame(qs[i]) \in Stream
      BY <2>2, ElementOfSeq, FrameTells
    <3> DEFINE T == {k \in Nat : k \in 1 .. Len(qs) => g[k + 1] = Then(f, h[k])}
    <3>4. 0 \in T
      OBVIOUS
    <3>5. ASSUME NEW k \in Nat, k \in T
          PROVE  k + 1 \in T
      <4>1. SUFFICES ASSUME k + 1 \in 1 .. Len(qs)
                     PROVE  g[(k + 1) + 1] = Then(f, h[k + 1])
        OBVIOUS
      <4>2. (k + 1) + 1 \in 2 .. Len(ps) /\ ((k + 1) + 1) - 1 = k + 1
        BY <2>2, <4>1
      <4>3. g[(k + 1) + 1] = Then(g[k + 1], Frame(qs[k + 1]))
        BY <2>2, <2>3, <4>1, <4>2
      <4>4. CASE k = 0
        BY <2>2, <2>3, <2>4, <3>1, <4>3, <4>4
      <4>5. CASE k # 0
        <5>1. k \in 1 .. Len(qs) /\ k + 1 \in 2 .. Len(qs) /\ (k + 1) - 1 = k
          BY <2>2, <4>1, <4>5
        <5>2. g[k + 1] = Then(f, h[k])
          BY <3>5, <5>1
        <5>3. h[k + 1] = Then(h[k], Frame(qs[k + 1]))
          BY <3>1, <5>1
        <5>4. h[k] \in Stream /\ Frame(qs[k + 1]) \in Stream
          BY <3>1, <3>3, <4>1, <5>1
        <5> QED
          BY <4>3, <5>2, <5>3, <5>4, JoinedTwice
      <4> QED
        BY <4>4, <4>5
    <3> HIDE DEF T
    <3>6. Nat \subseteq T
      BY <3>4, <3>5, Induction
    <3>7. Len(qs) \in T
      BY <3>2, <3>6
    <3>8. g[Len(qs) + 1] = Then(f, h[Len(qs)])
      BY <3>2, <3>7 DEF T
    <3>9. Len(qs) + 1 = Len(ps)
      BY <2>2, LenProperties
    <3> QED
      BY <2>1, <2>2, <2>3, <2>4, <3>1, <3>8, <3>9
  <2> QED
    BY <2>5, <2>6
<1> QED
  BY <1>1, <1>2, <1>3

\* Of what it is to be told the bot takes the first result for the last frame.
ResultLast(ps) == \A i \in 1 .. Len(ps) : ps[i] = Result <=> i = Len(ps)

\* What is sent of the first n payloads of a reply.
Sends(g, reply, n) ==
    g = [i \in 0 .. n |->
            IF i = 0 THEN <<>>
            ELSE IF SizeValid(reply[i]) THEN Append(g[i - 1], reply[i])
            ELSE g[i - 1]]

\* What is sent can be told however many payloads there are.
LEMMA SentExists ==
  ASSUME NEW reply, NEW N \in Nat
  PROVE  \E g : Sends(g, reply, N)
<1> DEFINE T == {k \in Nat : \E g : Sends(g, reply, k)}
<1>1. 0 \in T
  <2>1. Sends([i \in 0 .. 0 |-> <<>>], reply, 0)
    BY DEF Sends
  <2> QED
    BY <2>1
<1>2. ASSUME NEW k \in Nat, k \in T
      PROVE  k + 1 \in T
  <2>1. PICK g : Sends(g, reply, k)
    BY <1>2
  <2> DEFINE last == IF SizeValid(reply[k + 1]) THEN Append(g[k], reply[k + 1]) ELSE g[k]
             h == [i \in 0 .. k + 1 |-> IF i = k + 1 THEN last ELSE g[i]]
  <2>2. ASSUME NEW i \in 0 .. k + 1
        PROVE  h[i] = IF i = 0 THEN <<>>
                      ELSE IF SizeValid(reply[i]) THEN Append(h[i - 1], reply[i])
                      ELSE h[i - 1]
    <3>1. CASE i = k + 1
      <4>1. i # 0 /\ i - 1 = k /\ k \in 0 .. k + 1 /\ k # k + 1
        BY <3>1
      <4> HIDE DEF last
      <4>2. h[i] = last /\ h[i - 1] = g[k]
        BY <3>1, <4>1
      <4> QED
        BY <3>1, <4>1, <4>2 DEF last
    <3>2. CASE i # k + 1
      <4>1. i \in 0 .. k /\ (i # 0 => i - 1 \in 0 .. k + 1 /\ i - 1 # k + 1)
        BY <3>2
      <4>2. g[i] = IF i = 0 THEN <<>>
                   ELSE IF SizeValid(reply[i]) THEN Append(g[i - 1], reply[i])
                   ELSE g[i - 1]
        BY <2>1, <4>1 DEF Sends
      <4> HIDE DEF last
      <4> QED
        BY <3>2, <4>1, <4>2
    <3> QED
      BY <3>1, <3>2
  <2>3. Sends(h, reply, k + 1)
    BY <2>2 DEF Sends
  <2> HIDE DEF h
  <2> QED
    BY <2>3
<1> HIDE DEF T
<1>3. N \in T
  BY <1>1, <1>2, Induction
<1> QED
  BY <1>3 DEF T

\* What is sent of a reply ends with the result, and has it nowhere else.
LEMMA SentEnds ==
  ASSUME NEW reply \in Replies
  PROVE  Sent(reply) \in Seq(Short) /\ Sent(reply) # <<>> /\ ResultLast(Sent(reply))
<1> DEFINE Others == Short \ {Result}
<1>1. PICK n \in Nat : \E q \in [1 .. n -> Payloads \ {Result}] : reply = q \o <<Result>>
  <2>1. MaxPushes \in Nat
    BY FramesAssumption DEF FramesAssumption
  <2>2. PICK p \in UNION {[1 .. n -> Payloads \ {Result}] : n \in 0 .. MaxPushes} :
                reply = p \o <<Result>>
    BY DEF Replies
  <2>3. PICK n \in 0 .. MaxPushes : p \in [1 .. n -> Payloads \ {Result}]
    OBVIOUS
  <2>4. n \in Nat
    BY <2>1
  <2> QED
    BY <2>2, <2>3, <2>4
<1>2. Result \in Short /\ SizeValid(Result)
  BY FramesAssumption DEF FramesAssumption, Short, SizeValid
<1>3. /\ Len(reply) = n + 1 /\ reply[n + 1] = Result
      /\ \A i \in 1 .. n : reply[i] \in Payloads \ {Result}
  <2> PICK q \in [1 .. n -> Payloads \ {Result}] : reply = q \o <<Result>>
    BY <1>1
  <2>1. q \in Seq(Payloads) /\ Len(q) = n
    OBVIOUS
  <2>2. <<Result>> \in Seq(Payloads) /\ Len(<<Result>>) = 1 /\ <<Result>>[1] = Result
    BY <1>2 DEF Short
  <2>3. /\ Len(q \o <<Result>>) = n + 1
        /\ \A i \in 1 .. n + 1 : (q \o <<Result>>)[i] = IF i <= n THEN q[i] ELSE <<Result>>[i - n]
    <3>1. PICK r \in Seq(Payloads) : r = <<Result>>
      BY <2>2
    <3>2. /\ Len(q \o r) = Len(q) + Len(r)
          /\ \A i \in 1 .. Len(q) + Len(r) : (q \o r)[i] = IF i <= Len(q) THEN q[i] ELSE r[i - Len(q)]
      BY <2>1, ConcatProperties
    <3> QED
      BY <2>1, <2>2, <3>1, <3>2
  <2>4. n + 1 \in 1 .. n + 1 /\ ~(n + 1 <= n) /\ (n + 1) - n = 1
    BY <1>1
  <2>5. \A i \in 1 .. n : i \in 1 .. n + 1 /\ i <= n /\ q[i] \in Payloads \ {Result}
    BY <1>1
  <2> QED
    BY <1>1, <2>2, <2>3, <2>4, <2>5
<1>4. n + 1 \in Nat
  BY <1>1
<1>5. PICK g : Sends(g, reply, n + 1) /\ Sent(reply) = g[n + 1]
  <2>1. \E g : Sends(g, reply, n + 1)
    BY <1>4, SentExists
  <2>2. Sent(reply) = (CHOOSE g : Sends(g, reply, n + 1))[n + 1]
    BY <1>3 DEF Sent, Sends
  <2> QED
    BY <2>1, <2>2
<1>6. g[n] \in Seq(Others)
  <2> DEFINE T == {k \in Nat : k <= n => g[k] \in Seq(Others)}
  <2>1. 0 \in T
    <3>1. g[0] = <<>>
      BY <1>4, <1>5 DEF Sends
    <3> QED
      BY <3>1, EmptySeq
  <2>2. ASSUME NEW k \in Nat, k \in T
        PROVE  k + 1 \in T
    <3>1. SUFFICES ASSUME k + 1 <= n
                   PROVE  g[k + 1] \in Seq(Others)
      OBVIOUS
    <3>2. g[k] \in Seq(Others)
      BY <2>2, <3>1
    <3>3. g[k + 1] = IF SizeValid(reply[k + 1]) THEN Append(g[k], reply[k + 1]) ELSE g[k]
      <4>1. k + 1 \in 0 .. n + 1 /\ k + 1 # 0 /\ (k + 1) - 1 = k
        BY <1>1, <3>1
      <4> QED
        BY <1>5, <4>1 DEF Sends
    <3>4. SizeValid(reply[k + 1]) => reply[k + 1] \in Others
      <4>1. k + 1 \in 1 .. n
        BY <1>1, <3>1
      <4> QED
        BY <1>3, <4>1 DEF Short
    <3> HIDE DEF Others
    <3> QED
      BY <3>2, <3>3, <3>4, AppendProperties
  <2> HIDE DEF T
  <2>3. n \in T
    BY <2>1, <2>2, Induction
  <2> QED
    BY <1>1, <2>3 DEF T
<1>7. Sent(reply) = Append(g[n], Result)
  <2>1. n + 1 \in 0 .. n + 1 /\ n + 1 # 0 /\ (n + 1) - 1 = n
    BY <1>1
  <2>2. g[n + 1] = Append(g[n], Result)
    BY <1>2, <1>3, <1>5, <2>1 DEF Sends
  <2> QED
    BY <1>5, <2>2
<1>8. PICK s : s = g[n]
  OBVIOUS
<1>9. s \in Seq(Short) /\ \A i \in 1 .. Len(s) : s[i] \in Others
  BY <1>6, <1>8, SeqMonotonic, ElementOfSeq
<1>10. Len(s) \in Nat
  BY <1>9, LenProperties
<1>11. /\ Append(s, Result) \in Seq(Short) /\ Append(s, Result) # <<>>
       /\ Len(Append(s, Result)) = Len(s) + 1
       /\ \A i \in 1 .. Len(s) : Append(s, Result)[i] = s[i]
       /\ Append(s, Result)[Len(s) + 1] = Result
  BY <1>2, <1>9, AppendProperties
<1>12. ResultLast(Append(s, Result))
  <2> SUFFICES ASSUME NEW i \in 1 .. Len(s) + 1
               PROVE  Append(s, Result)[i] = Result <=> i = Len(s) + 1
    BY <1>11 DEF ResultLast
  <2>1. CASE i = Len(s) + 1
    BY <1>11, <2>1
  <2>2. CASE i # Len(s) + 1
    <3>1. i \in 1 .. Len(s)
      BY <1>10, <2>2
    <3> QED
      BY <1>9, <1>11, <2>2, <3>1
  <2> QED
    BY <2>1, <2>2
<1> QED
  BY <1>7, <1>8, <1>11, <1>12

-----------------------------------------------------------------------------
(* Frames: the invariant.                                                   *)

\* What a reader has of a frame, what is in the pipe and what the writer still has.
Caught(in, pipe, out) == Then(Then(in, pipe), out)

\* One side: it has something to write exactly while it writes, and has read of a frame only
\* while it reads.
EndShape(e, places) ==
    /\ e \in [at : places, out : Stream, in : Stream]
    /\ e.out # <<>> <=> e.at = "write"
    /\ e.in # <<>> => e.at = "read"

\* A session that lives has read every request, or what it has read, what is in the pipe
\* and what the bot still has to write are one request.
AskShape ==
    \/ asked = got /\ child.in = <<>> /\ toChild = <<>> /\ host.at # "write"
    \/ \E p \in Short :
          /\ asked = Append(got, p)
          /\ Caught(child.in, toChild, host.out) = Frame(p)
          /\ Len(child.in) < Len(Frame(p))
          /\ child.at = "read" /\ host.at \in {"write", "read"}

\* Of what the session has sent, the bot has heard all but the payloads reps, whose bytes are
\* what it has read, what is in the pipe and, if the session lives, what that still has to
\* write; rest is lost with a session that is dead.
ReplyShape(reps, rest) ==
    /\ replied = Then(heard, reps) /\ ResultLast(reps)
    /\ Alive \/ host.at = "read" =>
          /\ Caught(host.in, toHost, rest) = Flat(reps)
          /\ reps # <<>> => Len(host.in) < Len(Frame(Head(reps)))
    /\ Alive => /\ rest = child.out
                /\ reps # <<>> <=> host.at = "read" /\ asked = got

\* What is asked is read whole and in order, and so is what is said.
FramesInv ==
    /\ EndShape(host, {"idle", "write", "read", "lost", "closed"})
    /\ EndShape(child, {"read", "write", "dead"})
    /\ toChild \in Stream /\ toHost \in Stream
    /\ asked \in Seq(Short) /\ got \in Seq(Short)
    /\ replied \in Seq(Short) /\ heard \in Seq(Short)
    /\ IsPrefix(got, asked)
    /\ Alive => AskShape
    /\ \E reps \in Seq(Short), rest \in Stream : ReplyShape(reps, rest)

\* What it is to be a prefix, element by element.
LEMMA SamePrefix ==
  ASSUME NEW s \in Seq(Short), NEW t \in Seq(Short)
  PROVE  IsPrefix(s, t) <=> Len(s) <= Len(t) /\ \A i \in 1 .. Len(s) : s[i] = t[i]
<1>1. Len(s) \in Nat /\ Len(t) \in Nat
  BY LenProperties
<1>2. SubSeq(s, 1, Len(s)) = s
  BY SubSeqFull
<1>3. ASSUME Len(s) <= Len(t)
      PROVE  SubSeq(t, 1, Len(s)) = s <=> \A i \in 1 .. Len(s) : s[i] = t[i]
  <2>1. PICK u : u = SubSeq(t, 1, Len(s))
    OBVIOUS
  <2>2. \A i \in 1 .. Len(s) : t[i] \in Short
    BY <1>1, <1>3, ElementOfSeq
  <2>3. /\ u \in Seq(Short) /\ Len(u) = IF 1 <= Len(s) THEN Len(s) - 1 + 1 ELSE 0
        /\ \A i \in 1 .. Len(s) - 1 + 1 : u[i] = t[1 + i - 1]
    BY <1>1, <2>1, <2>2, SubSeqProperties
  <2>4. Len(u) = Len(s) /\ \A i \in 1 .. Len(s) : u[i] = t[i]
    BY <1>1, <2>3
  <2>5. u = s => \A i \in 1 .. Len(s) : s[i] = t[i]
    BY <2>4
  <2>6. (\A i \in 1 .. Len(s) : s[i] = t[i]) => u = s
    BY <2>3, <2>4, SeqEqual
  <2> QED
    BY <2>1, <2>5, <2>6
<1> QED
  BY <1>2, <1>3 DEF IsPrefix

\* The payloads of a history and those that follow.
LEMMA Histories ==
  ASSUME NEW s \in Seq(Short)
  PROVE  /\ Then(s, <<>>) = s /\ IsPrefix(s, s) /\ <<>> \in Seq(Short)
         /\ \A p \in Short : /\ Append(s, p) \in Seq(Short) /\ Append(s, p) # s
                             /\ IsPrefix(s, Append(s, p))
                             /\ \A t \in Seq(Short) : IsPrefix(t, s) => IsPrefix(t, Append(s, p))
         /\ \A t \in Seq(Short) : Then(s, t) \in Seq(Short) /\ IsPrefix(s, Then(s, t))
<1>1. Then(s, <<>>) = s /\ <<>> \in Seq(Short) /\ Len(s) \in Nat
  BY ConcatEmptySeq, EmptySeq, LenProperties DEF Then
<1>2. ASSUME NEW t \in Seq(Short)
      PROVE  Then(s, t) \in Seq(Short) /\ IsPrefix(s, Then(s, t))
  <2>1. PICK u \in Seq(Short) : u = s \o t
    BY ConcatProperties
  <2>2. Len(u) = Len(s) + Len(t) /\ \A i \in 1 .. Len(s) : u[i] = s[i]
    <3>1. /\ Len(s \o t) = Len(s) + Len(t) /\ Len(t) \in Nat
          /\ \A i \in 1 .. Len(s) + Len(t) : (s \o t)[i] = IF i <= Len(s) THEN s[i] ELSE t[i - Len(s)]
      BY ConcatProperties, LenProperties
    <3> QED
      BY <1>1, <2>1, <3>1
  <2>3. Len(t) \in Nat
    BY LenProperties
  <2>4. IsPrefix(s, u)
    BY <1>1, <2>2, <2>3, SamePrefix
  <2> QED
    BY <2>1, <2>4 DEF Then
<1>3. ASSUME NEW p \in Short
      PROVE  /\ Append(s, p) \in Seq(Short) /\ Append(s, p) # s
             /\ IsPrefix(s, Append(s, p))
             /\ \A t \in Seq(Short) : IsPrefix(t, s) => IsPrefix(t, Append(s, p))
  <2>1. PICK u : u = Append(s, p)
    OBVIOUS
  <2>2. u \in Seq(Short) /\ Len(u) = Len(s) + 1 /\ \A i \in 1 .. Len(s) : u[i] = s[i]
    BY <2>1, AppendProperties
  <2>3. ASSUME NEW t \in Seq(Short), IsPrefix(t, s)
        PROVE  IsPrefix(t, u)
    <3>1. Len(t) <= Len(s) /\ \A i \in 1 .. Len(t) : t[i] = s[i]
      BY <2>3, SamePrefix
    <3>2. Len(t) \in Nat
      BY LenProperties
    <3>3. \A i \in 1 .. Len(t) : t[i] = u[i]
      BY <1>1, <2>2, <3>1, <3>2
    <3> QED
      BY <1>1, <2>2, <3>1, <3>2, <3>3, SamePrefix
  <2>4. IsPrefix(s, s)
    BY <1>1, SamePrefix
  <2> QED
    BY <1>1, <2>1, <2>2, <2>3, <2>4
<1>4. IsPrefix(s, s)
  BY <1>1, SamePrefix
<1> QED
  BY <1>1, <1>2, <1>3, <1>4

\* Hearing the first of the payloads that are on their way.
LEMMA HearFirst ==
  ASSUME NEW s \in Seq(Short), NEW reps \in Seq(Short), reps # <<>>
  PROVE  /\ Head(reps) \in Short /\ Tail(reps) \in Seq(Short)
         /\ Then(s, reps) = Then(Append(s, Head(reps)), Tail(reps))
         /\ ResultLast(reps) => /\ ResultLast(Tail(reps))
                                /\ Head(reps) = Result <=> Tail(reps) = <<>>
<1>1. PICK p, qs : p = Head(reps) /\ qs = Tail(reps)
  OBVIOUS
<1>2. /\ p \in Short /\ qs \in Seq(Short) /\ Len(qs) = Len(reps) - 1
      /\ \A i \in 1 .. Len(qs) : qs[i] = reps[i + 1]
      /\ p = reps[1]
  BY <1>1, HeadTailProperties
<1>3. Len(reps) \in Nat \ {0} /\ Len(qs) \in Nat /\ (qs = <<>> <=> Len(qs) = 0)
  BY <1>2, EmptySeq, LenProperties
<1>4. Then(s, reps) = Then(Append(s, p), qs)
  <2> PICK u : u = <<p>>
    OBVIOUS
  <2>1. u \in Seq(Short) /\ Len(u) = 1 /\ u[1] = p
    BY <1>2
  <2>2. reps = u \o qs
    <3>1. /\ u \o qs \in Seq(Short) /\ Len(u \o qs) = Len(u) + Len(qs)
          /\ \A i \in 1 .. Len(u) + Len(qs) : (u \o qs)[i] = IF i <= Len(u) THEN u[i] ELSE qs[i - Len(u)]
      BY <1>2, <2>1, ConcatProperties
    <3>2. Len(u \o qs) = Len(reps)
      BY <1>2, <1>3, <2>1, <3>1
    <3>3. ASSUME NEW i \in 1 .. Len(reps)
          PROVE  reps[i] = (u \o qs)[i]
      <4>1. i \in 1 .. Len(u) + Len(qs)
        BY <1>2, <1>3, <2>1
      <4>2. CASE i = 1
        BY <1>2, <2>1, <3>1, <4>1, <4>2
      <4>3. CASE i # 1
        <5>1. i - 1 \in 1 .. Len(qs) /\ (i - 1) + 1 = i /\ ~(i <= 1)
          BY <1>2, <1>3, <4>3
        <5> QED
          BY <1>2, <2>1, <3>1, <4>1, <5>1
      <4> QED
        BY <4>2, <4>3
    <3> QED
      BY <3>1, <3>2, <3>3, SeqEqual
  <2>3. Append(s, p) = s \o u
    BY <1>2, AppendIsConcat
  <2>4. (s \o u) \o qs = s \o (u \o qs)
    BY <1>2, <2>1, ConcatAssociative
  <2> QED
    BY <2>2, <2>3, <2>4 DEF Then
<1>5. ASSUME ResultLast(reps)
      PROVE  ResultLast(qs) /\ (p = Result <=> qs = <<>>)
  <2>1. ResultLast(qs)
    <3> SUFFICES ASSUME NEW i \in 1 .. Len(qs)
                 PROVE  qs[i] = Result <=> i = Len(qs)
      BY DEF ResultLast
    <3>1. i + 1 \in 1 .. Len(reps) /\ qs[i] = reps[i + 1] /\ (i + 1 = Len(reps) <=> i = Len(qs))
      BY <1>2, <1>3
    <3> QED
      BY <1>5, <3>1 DEF ResultLast
  <2>2. 1 \in 1 .. Len(reps) /\ (1 = Len(reps) <=> Len(qs) = 0)
    BY <1>2, <1>3
  <2>3. p = Result <=> qs = <<>>
    BY <1>2, <1>3, <1>5, <2>2 DEF ResultLast
  <2> QED
    BY <2>1, <2>3
<1> QED
  BY <1>1, <1>2, <1>4, <1>5

\* A write takes bytes from the writer to the pipe.
LEMMA WriteStep ==
  ASSUME NEW in \in Stream, NEW pipe \in Stream, NEW out \in Stream,
         NEW n \in Space(pipe, out)
  PROVE  /\ Then(pipe, FirstOf(out, n)) \in Stream /\ After(out, n) \in Stream
         /\ Caught(in, Then(pipe, FirstOf(out, n)), After(out, n)) = Caught(in, pipe, out)
<1>1. Len(pipe) \in Nat /\ Len(out) \in Nat
  BY ThenJoins
<1>2. n \in 0 .. Len(out)
  BY <1>1, FramesAssumption DEF Space, FramesAssumption
<1>3. PICK a \in Stream, b \in Stream : a = FirstOf(out, n) /\ b = After(out, n) /\ Then(a, b) = out
  BY <1>2, CutInTwo
<1>4. Then(pipe, a) \in Stream /\ Then(in, pipe) \in Stream
  BY <1>3, ThenJoins
<1>5. Then(in, Then(pipe, a)) = Then(Then(in, pipe), a)
  BY <1>3, JoinedTwice
<1>6. Then(Then(Then(in, pipe), a), b) = Then(Then(in, pipe), Then(a, b))
  BY <1>3, <1>4, JoinedTwice
<1> QED
  BY <1>3, <1>4, <1>5, <1>6 DEF Caught

\* Nothing at all.
LEMMA NothingCaught ==
  ASSUME NEW in \in Stream, NEW pipe \in Stream, NEW out \in Stream
  PROVE  /\ Caught(in, pipe, out) \in Stream /\ <<>> \in Stream
         /\ Caught(in, pipe, out) = <<>> <=> in = <<>> /\ pipe = <<>> /\ out = <<>>
         /\ Caught(<<>>, <<>>, out) = out
         /\ Caught(in, <<>>, <<>>) = in
<1>1. /\ Then(in, pipe) \in Stream /\ <<>> \in Stream
      /\ Then(in, <<>>) = in /\ Then(<<>>, out) = out /\ Then(<<>>, <<>>) = <<>>
  BY ThenJoins, JoinedToNone
<1>2. /\ Then(in, pipe) = <<>> <=> in = <<>> /\ pipe = <<>>
      /\ Then(Then(in, pipe), out) = <<>> <=> Then(in, pipe) = <<>> /\ out = <<>>
  BY <1>1, JoinedToNone
<1>3. Then(Then(in, pipe), out) \in Stream
  BY <1>1, ThenJoins
<1> QED
  BY <1>1, <1>2, <1>3 DEF Caught

\* While the bot does not read, a session that lives has nothing more to say; and it is
\* asked nothing while the bot neither writes nor reads.
LEMMA BetweenCalls ==
  ASSUME FramesInv, Alive, NEW reps \in Seq(Short), NEW rest \in Stream, ReplyShape(reps, rest)
  PROVE  /\ reps = <<>> => host.in = <<>> /\ toHost = <<>> /\ child.at = "read"
         /\ host.at # "read" => reps = <<>>
         /\ host.at \notin {"write", "read"} =>
              asked = got /\ child.in = <<>> /\ toChild = <<>>
<1>1. reps = <<>> => host.in = <<>> /\ toHost = <<>> /\ child.at = "read"
  <2> SUFFICES ASSUME reps = <<>>
               PROVE  host.in = <<>> /\ toHost = <<>> /\ child.at = "read"
    OBVIOUS
  <2>1. Caught(host.in, toHost, rest) = <<>> /\ rest = child.out
    BY FlatFirst DEF ReplyShape
  <2>2. host.in \in Stream /\ toHost \in Stream
    BY DEF FramesInv, EndShape
  <2>3. host.in = <<>> /\ toHost = <<>> /\ child.out = <<>>
    BY <2>1, <2>2, NothingCaught
  <2> QED
    BY <2>3 DEF FramesInv, EndShape, Alive
<1>2. host.at # "read" => reps = <<>>
  BY DEF ReplyShape
<1>3. host.at \notin {"write", "read"} => asked = got /\ child.in = <<>> /\ toChild = <<>>
  BY DEF FramesInv, AskShape
<1> QED
  BY <1>1, <1>2, <1>3

\* The bytes of a frame are some.
LEMMA FrameIsSome ==
  ASSUME NEW p \in Short
  PROVE  Frame(p) \in Stream /\ Frame(p) # <<>> /\ 0 < Len(Frame(p)) /\ Len(<<>>) = 0
<1>1. Frame(p) \in Stream /\ Len(Frame(p)) = 2 + Len(p) /\ Len(p) \in Nat
  BY FrameTells
<1>2. Len(<<>>) = 0
  OBVIOUS
<1> QED
  BY <1>1, <1>2

\* At first the session waits to be asked and nothing is on its way.
LEMMA InitFrames == FramesInit => FramesInv
<1> SUFFICES ASSUME FramesInit
             PROVE  FramesInv
  OBVIOUS
<1>1. <<>> \in Stream /\ <<>> \in Seq(Short)
  BY EmptySeq DEF Stream
<1>2. /\ host = [at |-> "idle", out |-> <<>>, in |-> <<>>]
      /\ child = [at |-> "read", out |-> <<>>, in |-> <<>>]
      /\ toChild = <<>> /\ toHost = <<>>
      /\ asked = <<>> /\ got = <<>> /\ replied = <<>> /\ heard = <<>>
  BY DEF FramesInit, Side
<1>3. EndShape(host, {"idle", "write", "read", "lost", "closed"})
  BY <1>1, <1>2 DEF EndShape
<1>4. EndShape(child, {"read", "write", "dead"})
  BY <1>1, <1>2 DEF EndShape
<1>5. AskShape
  BY <1>2 DEF AskShape
<1>6. IsPrefix(got, asked) /\ replied = Then(heard, <<>>)
  BY <1>1, <1>2, Histories
<1>7. ResultLast(<<>>)
  BY DEF ResultLast
<1>8. ReplyShape(<<>>, <<>>)
  <2>1. Caught(host.in, toHost, <<>>) = Flat(<<>>)
    BY <1>1, <1>2, NothingCaught, FlatFirst
  <2> QED
    BY <1>2, <1>6, <1>7, <2>1 DEF ReplyShape, Alive
<1> QED
  BY <1>1, <1>2, <1>3, <1>4, <1>5, <1>6, <1>8 DEF FramesInv

\* A request is written only when nothing is left of the one before; one that is too long
\* is never begun.
LEMMA SendRequestKeepsFrames ==
  ASSUME FramesInv, NEW p \in Payloads, SendRequest(p)
  PROVE  FramesInv'
<1>1. PICK reps \in Seq(Short), rest \in Stream : ReplyShape(reps, rest)
  BY DEF FramesInv
<1>2. /\ host.at \in {"idle", "lost"} /\ host.in = <<>>
      /\ UNCHANGED <<child, toChild, toHost, got, replied, heard>> /\ Alive' = Alive
      /\ <<>> \in Stream
  BY EmptySeq DEF SendRequest, FramesInv, EndShape, Alive, Stream
<1>3. Alive => /\ reps = <<>> /\ child.at = "read"
               /\ asked = got /\ child.in = <<>> /\ toChild = <<>>
  BY <1>1, <1>2, BetweenCalls
<1>4. CASE SizeValid(p)
  <2>1. p \in Short
    BY <1>4 DEF Short
  <2>2. /\ host' = [at |-> "write", out |-> Frame(p), in |-> <<>>]
        /\ asked' = Append(asked, p)
    BY <1>4 DEF SendRequest, Side
  <2>3. EndShape(host, {"idle", "write", "read", "lost", "closed"})'
    BY <1>2, <2>1, <2>2, FrameIsSome DEF EndShape
  <2>4. asked' \in Seq(Short) /\ IsPrefix(got, asked)'
    BY <1>2, <2>1, <2>2, Histories DEF FramesInv
  <2>5. Alive => AskShape'
    <3>1. Caught(<<>>, <<>>, Frame(p)) = Frame(p)
      BY <1>2, <2>1, FrameIsSome, NothingCaught
    <3>2. Len(<<>>) < Len(Frame(p))
      BY <2>1, FrameIsSome
    <3> QED
      BY <1>2, <1>3, <2>1, <2>2, <3>1, <3>2 DEF AskShape
  <2>6. ReplyShape(reps, rest)'
    BY <1>1, <1>2, <1>3, <2>2 DEF ReplyShape
  <2> QED
    BY <1>2, <2>3, <2>4, <2>5, <2>6 DEF FramesInv
<1>5. CASE ~SizeValid(p)
  <2>1. host' = [at |-> "lost", out |-> <<>>, in |-> <<>>] /\ asked' = asked
    BY <1>5 DEF SendRequest, Side
  <2>2. EndShape(host, {"idle", "write", "read", "lost", "closed"})'
    BY <1>2, <2>1 DEF EndShape
  <2>3. Alive => AskShape'
    BY <1>2, <1>3, <2>1 DEF AskShape
  <2>4. ReplyShape(reps, rest)'
    BY <1>1, <1>2, <1>3, <2>1 DEF ReplyShape
  <2> QED
    BY <1>2, <2>1, <2>2, <2>3, <2>4 DEF FramesInv
<1> QED
  BY <1>4, <1>5

\* Writing a part of a request leaves the request as a whole as it is.
LEMMA HostWriteKeepsFrames ==
  ASSUME FramesInv, HostWrite
  PROVE  FramesInv'
<1>1. PICK reps \in Seq(Short), rest \in Stream : ReplyShape(reps, rest)
  BY DEF FramesInv
<1>2. /\ host.at = "write" /\ host.in = <<>> /\ host.out \in Stream
      /\ UNCHANGED <<child, toHost, asked, got, replied, heard>> /\ Alive' = Alive
      /\ <<>> \in Stream
  BY EmptySeq DEF HostWrite, FramesInv, EndShape, Alive, Stream
<1>3. CASE Alive
  <2>1. PICK n \in Space(toChild, host.out) :
           /\ toChild' = Then(toChild, FirstOf(host.out, n))
           /\ host' = IF After(host.out, n) = <<>> THEN Side("read")
                      ELSE [host EXCEPT !.out = After(host.out, n)]
    BY <1>3 DEF HostWrite, Then, FirstOf, After
  <2>2. PICK left \in Stream : left = After(host.out, n)
    BY <1>2, WriteStep DEF FramesInv
  <2>3. /\ toChild' \in Stream /\ child.in \in Stream
        /\ Caught(child.in, toChild', left) = Caught(child.in, toChild, host.out)
    <3>1. child.in \in Stream /\ toChild \in Stream
      BY DEF FramesInv, EndShape
    <3> QED
      BY <1>2, <2>1, <2>2, <3>1, WriteStep
  <2>4. host' = [at |-> IF left = <<>> THEN "read" ELSE "write", out |-> left, in |-> <<>>]
    BY <1>2, <2>1, <2>2 DEF Side, FramesInv, EndShape
  <2>5. EndShape(host, {"idle", "write", "read", "lost", "closed"})'
    BY <1>2, <2>2, <2>4 DEF EndShape
  <2>6. PICK p \in Short :
           /\ asked = Append(got, p)
           /\ Caught(child.in, toChild, host.out) = Frame(p)
           /\ Len(child.in) < Len(Frame(p)) /\ child.at = "read"
    BY <1>2, <1>3 DEF FramesInv, AskShape
  <2>7. AskShape'
    BY <1>2, <2>3, <2>4, <2>6 DEF AskShape
  <2>8. ReplyShape(reps, rest)'
    <3>1. asked # got
      BY <2>6, Histories DEF FramesInv
    <3>2. reps = <<>>
      BY <1>1, <1>2, <1>3 DEF ReplyShape
    <3> QED
      BY <1>1, <1>2, <1>3, <2>4, <3>1, <3>2 DEF ReplyShape
  <2> QED
    BY <1>2, <2>3, <2>5, <2>7, <2>8 DEF FramesInv
<1>4. CASE ~Alive
  <2>1. host' = [at |-> "lost", out |-> <<>>, in |-> <<>>] /\ toChild' = toChild
    BY <1>4 DEF HostWrite, Side
  <2>2. EndShape(host, {"idle", "write", "read", "lost", "closed"})'
    BY <1>2, <2>1 DEF EndShape
  <2>3. ReplyShape(reps, rest)'
    BY <1>1, <1>2, <1>4, <2>1 DEF ReplyShape
  <2> QED
    BY <1>2, <1>4, <2>1, <2>2, <2>3 DEF FramesInv
<1> QED
  BY <1>3, <1>4

\* Whatever has been read of a frame, an empty pipe hands over nothing.
LEMMA NothingToRead ==
  ASSUME NEW in \in Stream, NEW pipe, NEW n \in Parts(pipe, in)
  PROVE  pipe # <<>>
<1>1. Len(in) \in Nat
  BY LenProperties DEF Stream
<1>2. Missing(in) \in Int
  <2>1. CASE Len(in) < 2
    BY <1>1, <2>1 DEF Missing, Digits
  <2>2. CASE Len(in) >= 2
    <3>1. 1 \in 1 .. Len(in) /\ 2 \in 1 .. Len(in)
      BY <1>1, <2>2
    <3>2. in[1] \in Nat /\ in[2] \in Nat
      BY <3>1, ElementOfSeq DEF Stream
    <3>3. Length(in) \in Nat
      BY <3>2, FramesAssumption DEF Length, FramesAssumption
    <3> QED
      BY <1>1, <2>2, <3>3 DEF Missing, Digits
  <2> QED
    BY <1>1, <2>1, <2>2
<1>3. ASSUME pipe = <<>>
      PROVE  FALSE
  <2>1. Len(pipe) = 0
    BY <1>3
  <2>2. n \in 1 .. (IF Missing(in) < 0 THEN Missing(in) ELSE 0)
    BY <2>1 DEF Parts
  <2> QED
    BY <1>2, <2>2
<1> QED
  BY <1>3

\* A read takes the first frame that is on its way further, or finishes it and hears its
\* payload.
LEMMA HostReadKeepsFrames ==
  ASSUME FramesInv, HostRead
  PROVE  FramesInv'
<1>1. PICK reps \in Seq(Short), rest \in Stream : ReplyShape(reps, rest)
  BY DEF FramesInv
<1>2. /\ host.at = "read" /\ host.in \in Stream /\ host.out = <<>> /\ toHost \in Stream
      /\ UNCHANGED <<child, toChild, asked, got, replied>> /\ Alive' = Alive
      /\ <<>> \in Stream
  BY EmptySeq DEF HostRead, FramesInv, EndShape, Alive, Stream
<1>3. ASSUME NEW n \in Parts(toHost, host.in),
             HostFrame(Then(host.in, FirstOf(toHost, n))), toHost' = After(toHost, n)
      PROVE  FramesInv'
  <2>1. Caught(host.in, toHost, rest) = Flat(reps)
    BY <1>1, <1>2 DEF ReplyShape
  <2>2. reps # <<>>
    <3>1. toHost # <<>>
      BY <1>2, NothingToRead
    <3> QED
      BY <1>2, <2>1, <3>1, NothingCaught, FlatFirst
  <2>3. PICK p, qs : p = Head(reps) /\ qs = Tail(reps)
    OBVIOUS
  <2>4. /\ p \in Short /\ qs \in Seq(Short)
        /\ replied = Then(Append(heard, p), qs) /\ replied = Then(heard, reps)
        /\ ResultLast(qs) /\ ResultLast(reps) /\ (p = Result <=> qs = <<>>)
    BY <1>1, <2>2, <2>3, HearFirst DEF ReplyShape, FramesInv
  <2>5. Flat(qs) \in Stream /\ Flat(reps) = Then(Frame(p), Flat(qs))
    BY <2>2, <2>3, <2>4, FlatFirst
  <2>6. PICK have, left : have = Then(host.in, FirstOf(toHost, n)) /\ left = After(toHost, n)
    OBVIOUS
  <2>7. Len(host.in) < Len(Frame(p))
    BY <1>1, <1>2, <2>2, <2>3 DEF ReplyShape
  <2>8. /\ have \in Stream /\ left \in Stream
        /\ ~TooLong(have) /\ Len(have) <= Len(Frame(p))
        /\ Then(Then(have, left), rest) = Then(Frame(p), Flat(qs))
        /\ Complete(have) <=> Len(have) = Len(Frame(p))
        /\ Complete(have) => Payload(have) = p /\ Then(left, rest) = Flat(qs)
    BY <1>2, <2>1, <2>4, <2>5, <2>6, <2>7, ReadStep DEF Caught
  <2>9. toHost' = left
    BY <1>3, <2>6
  <2>10. CASE Complete(have)
    <3>1. /\ heard' = Append(heard, p)
          /\ host' = [at |-> IF p = Result THEN "idle" ELSE "read", out |-> <<>>, in |-> <<>>]
      BY <1>3, <2>6, <2>8, <2>10 DEF HostFrame, Side
    <3>2. EndShape(host, {"idle", "write", "read", "lost", "closed"})'
      BY <1>2, <3>1 DEF EndShape
    <3>3. heard' \in Seq(Short)
      BY <2>4, <3>1, Histories DEF FramesInv
    <3>4. Caught(<<>>, left, rest) = Flat(qs)
      <4>1. Then(<<>>, left) = left
        BY <2>8, JoinedToNone
      <4> QED
        BY <2>8, <2>10, <4>1 DEF Caught
    <3>5. qs # <<>> => Len(<<>>) < Len(Frame(Head(qs)))
      BY <2>4, FlatFirst, FrameIsSome
    <3>6. Alive => asked = got
      BY <1>1, <2>2 DEF ReplyShape
    <3>7. Alive => AskShape'
      <4>1. ASSUME Alive, NEW s \in Short
            PROVE  asked # Append(got, s)
        BY <3>6, <4>1, Histories DEF FramesInv
      <4> QED
        BY <1>2, <3>1, <3>6, <4>1 DEF AskShape, FramesInv
    <3>8. ReplyShape(qs, rest)'
      BY <1>1, <1>2, <2>4, <2>9, <3>1, <3>4, <3>5, <3>6 DEF ReplyShape
    <3> QED
      BY <1>2, <2>4, <2>8, <2>9, <3>2, <3>3, <3>7, <3>8 DEF FramesInv
  <2>11. CASE ~Complete(have)
    <3>1. /\ heard' = heard
          /\ host' = [at |-> "read", out |-> <<>>, in |-> have]
      BY <1>2, <1>3, <2>6, <2>8, <2>11 DEF HostFrame, FramesInv, EndShape
    <3>2. EndShape(host, {"idle", "write", "read", "lost", "closed"})'
      BY <1>2, <2>8, <3>1 DEF EndShape
    <3>3. Len(have) < Len(Frame(p))
      <4>1. Len(have) \in Nat /\ Len(Frame(p)) \in Nat
        BY <2>4, <2>8, FrameIsSome, ThenJoins
      <4> QED
        BY <2>8, <2>11, <4>1
    <3>4. Alive => AskShape'
      BY <1>2, <3>1 DEF AskShape, FramesInv
    <3>5. ReplyShape(reps, rest)'
      <4>1. Caught(have, left, rest) = Flat(reps)
        BY <2>5, <2>8 DEF Caught
      <4> QED
        BY <1>1, <1>2, <2>3, <2>9, <3>1, <3>3, <4>1 DEF ReplyShape
    <3> QED
      BY <1>2, <2>8, <2>9, <3>1, <3>2, <3>4, <3>5 DEF FramesInv
  <2> QED
    BY <2>10, <2>11
<1>4. CASE ~Alive /\ host' = Side("lost") /\ UNCHANGED <<toHost, heard>>
  <2>1. host' = [at |-> "lost", out |-> <<>>, in |-> <<>>]
    BY <1>4 DEF Side
  <2>2. EndShape(host, {"idle", "write", "read", "lost", "closed"})'
    BY <1>2, <2>1 DEF EndShape
  <2>3. ReplyShape(reps, rest)'
    BY <1>1, <1>2, <1>4, <2>1 DEF ReplyShape
  <2> QED
    BY <1>2, <1>4, <2>2, <2>3 DEF FramesInv
<1>5. \/ \E n \in Parts(toHost, host.in) :
            HostFrame(Then(host.in, FirstOf(toHost, n))) /\ toHost' = After(toHost, n)
      \/ ~Alive /\ host' = Side("lost") /\ UNCHANGED <<toHost, heard>>
  BY DEF HostRead, Then, FirstOf, After
<1> QED
  BY <1>3, <1>4, <1>5

\* Closing leaves nothing that has been asked and not read.
LEMMA CloseKeepsFrames ==
  ASSUME FramesInv, Close
  PROVE  FramesInv'
<1>1. PICK reps \in Seq(Short), rest \in Stream : ReplyShape(reps, rest)
  BY DEF FramesInv
<1>2. /\ host.at \in {"idle", "lost"} /\ host.in = <<>>
      /\ UNCHANGED <<child, toChild, toHost, asked, got, replied, heard>> /\ Alive' = Alive
      /\ host' = [at |-> "closed", out |-> <<>>, in |-> <<>>] /\ <<>> \in Stream
  BY EmptySeq DEF Close, FramesInv, EndShape, Alive, Side, Stream
<1>3. Alive => reps = <<>> /\ asked = got /\ child.in = <<>> /\ toChild = <<>>
  BY <1>1, <1>2, BetweenCalls
<1>4. EndShape(host, {"idle", "write", "read", "lost", "closed"})'
  BY <1>2 DEF EndShape
<1>5. Alive => AskShape'
  BY <1>2, <1>3 DEF AskShape
<1>6. ReplyShape(reps, rest)'
  BY <1>1, <1>2, <1>3 DEF ReplyShape
<1> QED
  BY <1>2, <1>4, <1>5, <1>6 DEF FramesInv

\* A read takes the request further, or finishes it and has a whole reply to write.
LEMMA ChildReadKeepsFrames ==
  ASSUME FramesInv, ChildRead
  PROVE  FramesInv'
<1>1. PICK reps \in Seq(Short), rest \in Stream : ReplyShape(reps, rest)
  BY DEF FramesInv
<1>2. /\ child.at = "read" /\ Alive /\ child.in \in Stream /\ child.out = <<>>
      /\ toChild \in Stream /\ host.out \in Stream /\ host.in \in Stream /\ toHost \in Stream
      /\ UNCHANGED <<host, toHost, asked, heard>> /\ <<>> \in Stream
  BY EmptySeq DEF ChildRead, FramesInv, EndShape, Alive, Stream
<1>3. ASSUME NEW n \in Parts(toChild, child.in),
             ChildFrame(Then(child.in, FirstOf(toChild, n))), toChild' = After(toChild, n)
      PROVE  FramesInv'
  <2>1. toChild # <<>>
    BY <1>2, NothingToRead
  <2>2. PICK p \in Short :
           /\ asked = Append(got, p)
           /\ Caught(child.in, toChild, host.out) = Frame(p)
           /\ Len(child.in) < Len(Frame(p)) /\ host.at \in {"write", "read"}
    BY <1>2, <2>1 DEF FramesInv, AskShape
  <2>3. PICK have, left : have = Then(child.in, FirstOf(toChild, n)) /\ left = After(toChild, n)
    OBVIOUS
  <2>4. Then(Then(child.in, toChild), host.out) = Then(Frame(p), <<>>)
    BY <2>2, FrameIsSome, JoinedToNone DEF Caught
  <2>5. /\ have \in Stream /\ left \in Stream
        /\ ~TooLong(have) /\ Len(have) <= Len(Frame(p))
        /\ Then(Then(have, left), host.out) = Then(Frame(p), <<>>)
        /\ Complete(have) <=> Len(have) = Len(Frame(p))
        /\ Complete(have) => Payload(have) = p /\ Then(left, host.out) = <<>>
    BY <1>2, <2>2, <2>3, <2>4, ReadStep
  <2>6. toChild' = left
    BY <1>3, <2>3
  <2>7. asked # got
    BY <2>2, Histories DEF FramesInv
  <2>8. reps = <<>> /\ host.in = <<>> /\ toHost = <<>> /\ replied = heard
    <3>1. reps = <<>>
      BY <1>1, <1>2, <2>7 DEF ReplyShape
    <3> QED
      BY <1>1, <1>2, <3>1, BetweenCalls, Histories DEF ReplyShape, FramesInv
  <2>9. CASE Complete(have)
    <3>1. PICK reply \in Replies :
             /\ got' = Append(got, p) /\ replied' = Then(replied, Sent(reply))
             /\ child' = [Side("write") EXCEPT !.out = Flat(Sent(reply))]
      BY <1>3, <2>3, <2>5, <2>9 DEF ChildFrame, Flat, Then
    <3>2. PICK sent \in Seq(Short) : sent = Sent(reply) /\ sent # <<>> /\ ResultLast(sent)
      BY SentEnds
    <3>3. child' = [at |-> "write", out |-> Flat(sent), in |-> <<>>] /\ Alive'
      BY <3>1, <3>2 DEF Side, Alive
    <3>4. Flat(sent) \in Stream /\ Flat(sent) # <<>> /\ Len(<<>>) < Len(Frame(Head(sent)))
      <4>1. /\ Head(sent) \in Short /\ Tail(sent) \in Seq(Short) /\ Flat(sent) \in Stream
            /\ Flat(sent) = Then(Frame(Head(sent)), Flat(Tail(sent)))
        BY <3>2, FlatFirst
      <4>2. Flat(Tail(sent)) \in Stream
        BY <4>1, FlatFirst
      <4> QED
        BY <4>1, <4>2, FrameIsSome, JoinedToNone
    <3>5. EndShape(child, {"read", "write", "dead"})'
      BY <1>2, <3>3, <3>4 DEF EndShape
    <3>6. got' = asked
      BY <2>2, <3>1
    <3>7. left = <<>> /\ host.at = "read"
      <4>1. left = <<>> /\ host.out = <<>>
        BY <1>2, <2>5, <2>9, JoinedToNone
      <4> QED
        BY <2>2, <4>1 DEF FramesInv, EndShape
    <3>8. replied' \in Seq(Short) /\ IsPrefix(got, asked)'
      BY <1>2, <3>1, <3>2, <3>6, Histories DEF FramesInv
    <3>9. AskShape'
      BY <1>2, <2>6, <3>3, <3>6, <3>7 DEF AskShape
    <3>10. ReplyShape(sent, Flat(sent))'
      <4>1. Caught(<<>>, <<>>, Flat(sent)) = Flat(sent)
        BY <1>2, <3>4, NothingCaught
      <4> QED
        BY <1>2, <2>8, <3>1, <3>2, <3>3, <3>4, <3>6, <3>7, <4>1 DEF ReplyShape
    <3> QED
      BY <1>2, <2>5, <2>6, <3>2, <3>4, <3>5, <3>6, <3>8, <3>9, <3>10 DEF FramesInv
  <2>10. CASE ~Complete(have)
    <3>1. /\ UNCHANGED <<got, replied>>
          /\ child' = [at |-> "read", out |-> <<>>, in |-> have]
      BY <1>2, <1>3, <2>3, <2>5, <2>10 DEF ChildFrame, FramesInv, EndShape
    <3>2. EndShape(child, {"read", "write", "dead"})' /\ Alive'
      BY <1>2, <2>5, <3>1 DEF EndShape, Alive
    <3>3. Len(have) < Len(Frame(p))
      <4>1. Len(have) \in Nat /\ Len(Frame(p)) \in Nat
        BY <2>2, <2>5, FrameIsSome, ThenJoins
      <4> QED
        BY <2>5, <2>10, <4>1
    <3>4. AskShape'
      <4>1. Caught(have, left, host.out) = Frame(p)
        BY <2>2, <2>5, FrameIsSome, JoinedToNone DEF Caught
      <4> QED
        BY <1>2, <2>2, <2>6, <3>1, <3>3, <4>1 DEF AskShape
    <3>5. ReplyShape(reps, rest)'
      BY <1>1, <1>2, <3>1, <3>2 DEF ReplyShape
    <3> QED
      BY <1>2, <2>5, <2>6, <3>1, <3>2, <3>4, <3>5 DEF FramesInv
  <2> QED
    BY <2>9, <2>10
<1>4. CASE host.at = "closed" /\ child' = Side("dead") /\ UNCHANGED <<toChild, got, replied>>
  <2>1. child' = [at |-> "dead", out |-> <<>>, in |-> <<>>] /\ ~Alive'
    BY <1>4 DEF Side, Alive
  <2>2. EndShape(child, {"read", "write", "dead"})'
    BY <1>2, <2>1 DEF EndShape
  <2>3. ReplyShape(reps, rest)'
    BY <1>1, <1>2, <1>4, <2>1 DEF ReplyShape
  <2> QED
    BY <1>2, <1>4, <2>1, <2>2, <2>3 DEF FramesInv
<1>5. \/ \E n \in Parts(toChild, child.in) :
            ChildFrame(Then(child.in, FirstOf(toChild, n))) /\ toChild' = After(toChild, n)
      \/ host.at = "closed" /\ child' = Side("dead") /\ UNCHANGED <<toChild, got, replied>>
  BY DEF ChildRead, Then, FirstOf, After
<1> QED
  BY <1>3, <1>4, <1>5

\* Writing a part of a reply leaves what is on its way as it is.
LEMMA ChildWriteKeepsFrames ==
  ASSUME FramesInv, ChildWrite
  PROVE  FramesInv'
<1>1. PICK reps \in Seq(Short), rest \in Stream : ReplyShape(reps, rest)
  BY DEF FramesInv
<1>2. /\ child.at = "write" /\ Alive /\ child.in = <<>> /\ child.out \in Stream
      /\ toHost \in Stream /\ host.in \in Stream
      /\ UNCHANGED <<host, toChild, asked, got, replied, heard>> /\ <<>> \in Stream
  BY EmptySeq DEF ChildWrite, FramesInv, EndShape, Alive, Stream
<1>3. PICK n \in Space(toHost, child.out) :
         /\ toHost' = Then(toHost, FirstOf(child.out, n))
         /\ child' = IF After(child.out, n) = <<>> THEN Side("read")
                     ELSE [child EXCEPT !.out = After(child.out, n)]
  BY DEF ChildWrite, Then, FirstOf, After
<1>4. PICK left \in Stream : left = After(child.out, n)
  BY <1>2, WriteStep
<1>5. /\ toHost' \in Stream
      /\ Caught(host.in, toHost', left) = Caught(host.in, toHost, child.out)
  BY <1>2, <1>3, <1>4, WriteStep
<1>6. child' = [at |-> IF left = <<>> THEN "read" ELSE "write", out |-> left, in |-> <<>>]
  BY <1>2, <1>3, <1>4 DEF Side, FramesInv, EndShape
<1>7. EndShape(child, {"read", "write", "dead"})' /\ Alive'
  BY <1>2, <1>4, <1>6 DEF EndShape, Alive
<1>8. AskShape'
  BY <1>2, <1>6 DEF FramesInv, AskShape
<1>9. ReplyShape(reps, left)'
  BY <1>1, <1>2, <1>5, <1>6, <1>7 DEF ReplyShape
<1> QED
  BY <1>2, <1>4, <1>5, <1>7, <1>8, <1>9 DEF FramesInv

\* A session that dies loses what it still had to write, at whatever byte.
LEMMA DieKeepsFrames ==
  ASSUME FramesInv, Die
  PROVE  FramesInv'
<1>1. PICK reps \in Seq(Short), rest \in Stream : ReplyShape(reps, rest)
  BY DEF FramesInv
<1>2. /\ Alive /\ UNCHANGED <<host, toChild, toHost, asked, got, replied, heard>>
      /\ child' = [at |-> "dead", out |-> <<>>, in |-> <<>>] /\ ~Alive' /\ <<>> \in Stream
  BY EmptySeq DEF Die, Side, Alive, Stream
<1>3. EndShape(child, {"read", "write", "dead"})'
  BY <1>2 DEF EndShape
<1>4. ReplyShape(reps, rest)'
  BY <1>1, <1>2 DEF ReplyShape
<1> QED
  BY <1>2, <1>3, <1>4 DEF FramesInv

\* Every step of the two keeps the invariant.
LEMMA FramesStep == FramesInv /\ [FramesNext]_frameVars => FramesInv'
<1> SUFFICES ASSUME FramesInv, [FramesNext]_frameVars
             PROVE  FramesInv'
  OBVIOUS
<1>1. CASE UNCHANGED frameVars
  BY <1>1 DEF frameVars, FramesInv, EndShape, AskShape, ReplyShape, Alive
<1> QED
  BY <1>1, SendRequestKeepsFrames, HostWriteKeepsFrames, HostReadKeepsFrames,
     CloseKeepsFrames, ChildReadKeepsFrames, ChildWriteKeepsFrames, DieKeepsFrames
     DEF FramesNext

\* Whole payloads arrive in their order wherever pipes divide them and whenever the
\* subprocess dies, nothing is left for the next call, and the two never wait for each other.
THEOREM EveryPayloadArrives == FramesSpec => []PayloadsArrive
<1>1. FramesInv => PayloadsArrive
  <2> SUFFICES ASSUME FramesInv
               PROVE  PayloadsArrive
    OBVIOUS
  <2>1. PICK reps \in Seq(Short), rest \in Stream : ReplyShape(reps, rest)
    BY DEF FramesInv
  <2>2. IsPrefix(got, asked) /\ IsPrefix(heard, replied)
    BY <2>1, Histories DEF FramesInv, ReplyShape
  <2>3. ASSUME host.at \in {"idle", "lost"}, Alive
        PROVE  got = asked /\ heard = replied /\ toChild = <<>> /\ toHost = <<>>
    <3>1. reps = <<>>
      BY <2>1, <2>3, BetweenCalls
    <3>2. heard = replied
      BY <2>1, <3>1, Histories DEF FramesInv, ReplyShape
    <3> QED
      BY <2>1, <2>3, <3>1, <3>2, BetweenCalls
  <2>4. ASSUME host.at = "read", child.at = "read", toChild = <<>>, toHost = <<>>
        PROVE  FALSE
    <3>1. Alive /\ host.out = <<>> /\ child.out = <<>> /\ host.in \in Stream /\ child.in \in Stream
      BY <2>4 DEF Alive, FramesInv, EndShape
    <3>2. Caught(child.in, <<>>, <<>>) = child.in /\ Caught(host.in, <<>>, <<>>) = host.in
      BY <3>1, NothingCaught
    <3>3. asked = got
      <4>1. ASSUME NEW p \in Short, child.in = Frame(p), Len(child.in) < Len(Frame(p))
            PROVE  FALSE
        BY <4>1, FrameIsSome
      <4> QED
        BY <2>4, <3>1, <3>2, <4>1 DEF FramesInv, AskShape
    <3>4. reps # <<>> /\ host.in = Flat(reps) /\ Len(host.in) < Len(Frame(Head(reps)))
      BY <2>1, <2>4, <3>1, <3>2, <3>3 DEF ReplyShape
    <3>5. PICK f \in Stream, g \in Stream : f = Frame(Head(reps)) /\ Flat(reps) = Then(f, g)
      BY <3>4, FlatFirst, FrameIsSome
    <3>6. Len(Then(f, g)) = Len(f) + Len(g) /\ Len(f) \in Nat /\ Len(g) \in Nat
      BY ThenJoins
    <3> QED
      BY <3>4, <3>5, <3>6
  <2>5. ~(host.at = "write" /\ child.at = "write")
    BY DEF FramesInv, AskShape, Alive
  <2> QED
    BY <2>2, <2>3, <2>4, <2>5 DEF PayloadsArrive
<1> QED
  BY <1>1, InitFrames, FramesStep, PTL DEF FramesSpec

-----------------------------------------------------------------------------
(* The queue of tasks.  QueueInv is inductive: it adds to the properties what ties *)
(* the worker to its task (a task is out of the queue exactly while it runs), what  *)
(* ties the futures to the history (pending is what was accepted and has not run), *)
(* and that the worker ends only on a stopped and empty queue.                      *)

Elements(s) == {s[i] : i \in 1 .. Len(s)}

TaskAtWorker == current # NoTask <=> worker = "running"

PendingIsAhead ==
    \A t \in Tasks : future[t] = "pending" => t \in Elements(queue) \/ t = current

EndedIsOver == worker = "ended" => stopped /\ queue = <<>>

QueueInv ==
    /\ TypeOK
    /\ TaskAtWorker
    /\ PendingIsAhead
    /\ EndedIsOver
    /\ InOrder
    /\ WakeupComes

-----------------------------------------------------------------------------
(* Sequences.                                                               *)

\* Appending at the end of a queue adds one element.
LEMMA ElementsAppend ==
    ASSUME NEW S, NEW s \in Seq(S), NEW e \in S
    PROVE Elements(Append(s, e)) = Elements(s) \cup {e}
<1> DEFINE a == Append(s, e)
<1>1. Len(a) = Len(s) + 1 /\ Len(s) \in Nat
    OBVIOUS
<1>2. \A i \in 1 .. Len(s) : a[i] = s[i]
    OBVIOUS
<1>3. a[Len(s) + 1] = e
    OBVIOUS
<1> HIDE DEF a
<1>4. ASSUME NEW x \in Elements(a) PROVE x \in Elements(s) \cup {e}
    <2>1. PICK i \in 1 .. Len(a) : x = a[i]
        BY DEF Elements
    <2>2. CASE i = Len(s) + 1
        BY <1>3, <2>1, <2>2
    <2>3. CASE i # Len(s) + 1
        BY <1>1, <1>2, <2>1, <2>3 DEF Elements
    <2> QED BY <2>2, <2>3
<1>5. ASSUME NEW x \in Elements(s) \cup {e} PROVE x \in Elements(a)
    <2>1. CASE x = e
        BY <1>1, <1>3, <2>1 DEF Elements
    <2>2. CASE x \in Elements(s)
        <3>1. PICK i \in 1 .. Len(s) : x = s[i]
            BY <2>2 DEF Elements
        <3>2. i \in 1 .. Len(a) /\ x = a[i]
            BY <1>1, <1>2, <3>1
        <3> QED BY <3>2 DEF Elements
    <2> QED BY <2>1, <2>2
<1>6. Elements(a) = Elements(s) \cup {e}
    BY <1>4, <1>5
<1> QED BY <1>6 DEF a

\* The elements of a queue are its head and the elements of its tail.
LEMMA ElementsTail ==
    ASSUME NEW S, NEW s \in Seq(S), s # <<>>
    PROVE Elements(s) \subseteq Elements(Tail(s)) \cup {Head(s)}
<1>1. ASSUME NEW i \in 1 .. Len(s), i # 1
      PROVE i - 1 \in 1 .. Len(Tail(s)) /\ Tail(s)[i - 1] = s[i]
    BY <1>1
<1>2. s[1] = Head(s)
    OBVIOUS
<1>3. ASSUME NEW x \in Elements(s)
      PROVE x \in Elements(Tail(s)) \cup {Head(s)}
    <2>1. PICK i \in 1 .. Len(s) : x = s[i]
        BY DEF Elements
    <2>2. CASE i = 1
        BY <1>2, <2>1, <2>2
    <2>3. CASE i # 1
        BY <1>1, <2>1, <2>3 DEF Elements
    <2> QED BY <2>2, <2>3
<1> QED BY <1>3

\* Appending commutes with putting something in front.
LEMMA AppendBehind ==
    ASSUME NEW S, NEW r \in Seq(S), NEW m \in Seq(S), NEW q \in Seq(S), NEW e \in S
    PROVE r \o m \o Append(q, e) = Append(r \o m \o q, e)
OBVIOUS

\* Moving the head of the queue out of it changes nothing of the whole.
LEMMA HeadMoves ==
    ASSUME NEW S, NEW r \in Seq(S), NEW q \in Seq(S), q # <<>>
    PROVE r \o <<Head(q)>> \o Tail(q) = r \o <<>> \o q
OBVIOUS

-----------------------------------------------------------------------------

\* Nothing is wrong with a new queue.
LEMMA QueueInitially == Init => QueueInv
<1> SUFFICES ASSUME Init PROVE QueueInv
    OBVIOUS
<1>1. <<>> \in Seq(Tasks)
    OBVIOUS
<1>2. TypeOK
    BY <1>1 DEF Init, TypeOK
<1>3. TaskAtWorker /\ PendingIsAhead /\ EndedIsOver /\ WakeupComes
    BY DEF Init, TaskAtWorker, PendingIsAhead, EndedIsOver, WakeupComes, SleepsInVain
<1>4. InOrder
    BY DEF Init, InOrder, Taken
<1> QED BY <1>2, <1>3, <1>4 DEF QueueInv

\* Types are kept by every step.
LEMMA TypeStep == TypeOK /\ TaskAtWorker /\ [Next]_vars => TypeOK'
<1> SUFFICES ASSUME TypeOK, TaskAtWorker, [Next]_vars PROVE TypeOK'
    OBVIOUS
<1> USE QueueAssumption DEF TypeOK, Callers
<1>1. ASSUME NEW t \in Tasks, NEW own \in BOOLEAN, PostAccepted(t, own) PROVE TypeOK'
    BY <1>1 DEF PostAccepted
<1>2. ASSUME NEW t \in Tasks, NEW own \in BOOLEAN, PostRefused(t, own) PROVE TypeOK'
    BY <1>2 DEF PostRefused
<1>3. ASSUME NEW s \in Stoppers, Stop(s) PROVE TypeOK'
    BY <1>3 DEF Stop, SetStopped
<1>4. ASSUME NEW c \in Callers, Notify(c) PROVE TypeOK'
    BY <1>4 DEF Notify
<1>5. CASE Destroy
    BY <1>5 DEF Destroy, SetStopped
<1>6. CASE Joined
    BY <1>6 DEF Joined
<1>7. CASE Sleep \/ WakeSpuriously \/ End
    BY <1>7 DEF Sleep, WakeSpuriously, End
<1>8. CASE Take
    BY <1>8 DEF Take
<1>9. CASE Finish
    <2>1. current \in Tasks
        BY <1>9 DEF Finish, TaskAtWorker
    <2> QED BY <1>9, <2>1 DEF Finish
<1>10. CASE UNCHANGED vars
    BY <1>10 DEF vars
<1> QED BY <1>1, <1>2, <1>3, <1>4, <1>5, <1>6, <1>7, <1>8, <1>9, <1>10 DEF Next

\* A task is out of the queue exactly while it runs, and the worker ends last.
LEMMA WorkerStep ==
    TypeOK /\ TaskAtWorker /\ EndedIsOver /\ [Next]_vars => (TaskAtWorker /\ EndedIsOver)'
<1> SUFFICES ASSUME TypeOK, TaskAtWorker, EndedIsOver, [Next]_vars
             PROVE (TaskAtWorker /\ EndedIsOver)'
    OBVIOUS
<1> USE QueueAssumption DEF TypeOK, TaskAtWorker, EndedIsOver
<1>1. ASSUME NEW t \in Tasks, NEW own \in BOOLEAN, PostAccepted(t, own)
      PROVE (TaskAtWorker /\ EndedIsOver)'
    BY <1>1 DEF PostAccepted
<1>2. ASSUME NEW t \in Tasks, NEW own \in BOOLEAN, PostRefused(t, own)
      PROVE (TaskAtWorker /\ EndedIsOver)'
    BY <1>2 DEF PostRefused
<1>3. ASSUME NEW s \in Stoppers, Stop(s) PROVE (TaskAtWorker /\ EndedIsOver)'
    BY <1>3 DEF Stop, SetStopped
<1>4. ASSUME NEW c \in Callers, Notify(c) PROVE (TaskAtWorker /\ EndedIsOver)'
    BY <1>4 DEF Notify
<1>5. CASE Destroy
    BY <1>5 DEF Destroy, SetStopped
<1>6. CASE Joined
    BY <1>6 DEF Joined
<1>7. CASE Sleep \/ WakeSpuriously \/ End
    BY <1>7 DEF Sleep, WakeSpuriously, End
<1>8. CASE Take
    <2>1. Head(queue) \in Tasks
        BY <1>8 DEF Take
    <2> QED BY <1>8, <2>1 DEF Take
<1>9. CASE Finish
    BY <1>9 DEF Finish
<1>10. CASE UNCHANGED vars
    BY <1>10 DEF vars
<1> QED BY <1>1, <1>2, <1>3, <1>4, <1>5, <1>6, <1>7, <1>8, <1>9, <1>10 DEF Next

\* A future that is pending belongs to a task the worker still has before it.
LEMMA PendingStep ==
    TypeOK /\ TaskAtWorker /\ PendingIsAhead /\ [Next]_vars => PendingIsAhead'
<1> SUFFICES ASSUME TypeOK, TaskAtWorker, PendingIsAhead, [Next]_vars,
                    NEW u \in Tasks, future'[u] = "pending"
             PROVE u \in Elements(queue') \/ u = current'
    BY DEF PendingIsAhead, Elements
<1>a. future[u] = "pending" => u \in Elements(queue) \/ u = current
    BY DEF PendingIsAhead
<1>1. ASSUME NEW t \in Tasks, NEW own \in BOOLEAN, PostAccepted(t, own)
      PROVE u \in Elements(queue') \/ u = current'
    <2>1. Elements(queue') = Elements(queue) \cup {t}
        BY <1>1, ElementsAppend DEF PostAccepted, TypeOK
    <2>2. u # t => future[u] = "pending"
        BY <1>1 DEF PostAccepted, TypeOK
    <2> QED BY <1>1, <1>a, <2>1, <2>2 DEF PostAccepted
<1>2. ASSUME NEW t \in Tasks, NEW own \in BOOLEAN, PostRefused(t, own)
      PROVE u \in Elements(queue') \/ u = current'
    BY <1>2, <1>a DEF PostRefused, TypeOK
<1>3. ASSUME NEW s \in Stoppers, Stop(s) PROVE u \in Elements(queue') \/ u = current'
    BY <1>3, <1>a DEF Stop, SetStopped
<1>4. ASSUME NEW c \in Callers, Notify(c) PROVE u \in Elements(queue') \/ u = current'
    BY <1>4, <1>a DEF Notify
<1>5. CASE Destroy \/ Joined
    BY <1>5, <1>a DEF Destroy, SetStopped, Joined
<1>6. CASE Sleep \/ WakeSpuriously \/ End
    BY <1>6, <1>a DEF Sleep, WakeSpuriously, End
<1>7. CASE Take
    <2>1. Elements(queue) \subseteq Elements(queue') \cup {current'}
        BY <1>7, ElementsTail DEF Take, TypeOK
    <2>2. current = NoTask /\ future[u] = "pending"
        BY <1>7 DEF Take, TaskAtWorker
    <2> QED BY <1>a, <2>1, <2>2, QueueAssumption
<1>8. CASE Finish
    <2>1. u # current /\ future[u] = "pending"
        BY <1>8 DEF Finish, TypeOK
    <2>2. queue' = queue
        BY <1>8 DEF Finish
    <2> QED BY <1>a, <2>1, <2>2
<1>9. CASE UNCHANGED vars
    BY <1>9, <1>a DEF vars
<1> QED BY <1>1, <1>2, <1>3, <1>4, <1>5, <1>6, <1>7, <1>8, <1>9 DEF Next

\* What was accepted stays in one line: the tasks that ran, the one that runs,
\* and those that wait.
LEMMA OrderStep == TypeOK /\ TaskAtWorker /\ InOrder /\ [Next]_vars => InOrder'
<1> SUFFICES ASSUME TypeOK, TaskAtWorker, InOrder, [Next]_vars PROVE InOrder'
    OBVIOUS
<1>a. Taken \in Seq(Tasks)
    BY DEF Taken, TypeOK
<1>b. UNCHANGED <<accepted, ran, current, queue>> => InOrder'
    BY DEF InOrder, Taken
<1>1. ASSUME NEW t \in Tasks, NEW own \in BOOLEAN, PostAccepted(t, own) PROVE InOrder'
    <2>1. Taken' = Taken /\ ran' = ran /\ queue' = Append(queue, t)
            /\ accepted' = Append(accepted, t)
        BY <1>1 DEF PostAccepted, Taken
    <2>2. ran \o Taken \o Append(queue, t) = Append(ran \o Taken \o queue, t)
        BY <1>a, AppendBehind DEF TypeOK
    <2> QED BY <2>1, <2>2 DEF InOrder
<1>2. ASSUME NEW t \in Tasks, NEW own \in BOOLEAN, PostRefused(t, own) PROVE InOrder'
    BY <1>2, <1>b DEF PostRefused
<1>3. ASSUME NEW s \in Stoppers, Stop(s) PROVE InOrder'
    BY <1>3, <1>b DEF Stop, SetStopped
<1>4. ASSUME NEW c \in Callers, Notify(c) PROVE InOrder'
    BY <1>4, <1>b DEF Notify
<1>5. CASE Destroy \/ Joined \/ Sleep \/ WakeSpuriously \/ End
    BY <1>5, <1>b DEF Destroy, SetStopped, Joined, Sleep, WakeSpuriously, End
<1>6. CASE Take
    <2>1. Taken = <<>> /\ Taken' = <<Head(queue)>>
        BY <1>6, QueueAssumption DEF Take, Taken, TaskAtWorker, TypeOK
    <2>2. ran \o <<Head(queue)>> \o Tail(queue) = ran \o <<>> \o queue
        BY <1>6, HeadMoves DEF Take, TypeOK
    <2>3. ran' = ran /\ accepted' = accepted /\ queue' = Tail(queue)
        BY <1>6 DEF Take
    <2> QED BY <2>1, <2>2, <2>3 DEF InOrder
<1>7. CASE Finish
    <2>1. current \in Tasks /\ Taken = <<current>> /\ Taken' = <<>>
        BY <1>7 DEF Finish, Taken, TaskAtWorker, TypeOK
    <2>2. ran' = Append(ran, current) /\ accepted' = accepted /\ queue' = queue
        BY <1>7 DEF Finish
    <2>3. Append(ran, current) \o <<>> \o queue = ran \o <<current>> \o queue
        BY <2>1 DEF TypeOK
    <2> QED BY <2>1, <2>2, <2>3 DEF InOrder
<1>8. CASE UNCHANGED vars
    BY <1>8, <1>b DEF vars
<1> QED BY <1>1, <1>2, <1>3, <1>4, <1>5, <1>6, <1>7, <1>8 DEF Next

\* A worker that sleeps over work is about to be notified.
LEMMA WakeupStep == TypeOK /\ WakeupComes /\ [Next]_vars => WakeupComes'
<1> SUFFICES ASSUME TypeOK, WakeupComes, [Next]_vars PROVE WakeupComes'
    OBVIOUS
<1> USE DEF WakeupComes, SleepsInVain, TypeOK
<1>1. ASSUME NEW t \in Tasks, NEW own \in BOOLEAN, PostAccepted(t, own)
      PROVE WakeupComes'
    BY <1>1 DEF PostAccepted, MayPost
<1>2. ASSUME NEW t \in Tasks, NEW own \in BOOLEAN, PostRefused(t, own)
      PROVE WakeupComes'
    BY <1>2 DEF PostRefused
<1>3. ASSUME NEW s \in Stoppers, Stop(s) PROVE WakeupComes'
    BY <1>3 DEF Stop, SetStopped
<1>4. ASSUME NEW c \in Callers, Notify(c) PROVE WakeupComes'
    BY <1>4 DEF Notify
<1>5. CASE Destroy
    BY <1>5 DEF Destroy, SetStopped
<1>6. CASE Joined \/ Sleep \/ WakeSpuriously \/ Take \/ Finish \/ End
    BY <1>6 DEF Joined, Sleep, WakeSpuriously, Take, Finish, End
<1>7. CASE UNCHANGED vars
    BY <1>7 DEF vars
<1> QED BY <1>1, <1>2, <1>3, <1>4, <1>5, <1>6, <1>7 DEF Next

\* QueueInv holds in every state of every behaviour.
LEMMA QueueInvariant == Spec => []QueueInv
<1>1. QueueInv /\ [Next]_vars => QueueInv'
    BY TypeStep, WorkerStep, PendingStep, OrderStep, WakeupStep DEF QueueInv
<1> QED BY QueueInitially, <1>1, PTL DEF Spec

-----------------------------------------------------------------------------
(* Results.                                                                 *)

\* The queue, its futures and its threads keep their types.
THEOREM QueueTypeCorrect == Spec => []TypeOK
<1>1. QueueInv => TypeOK
    BY DEF QueueInv
<1> QED BY <1>1, QueueInvariant, PTL

\* The queue loses no wake-up, however the threads that post and stop interleave
\* with the worker on its way to sleep (Run_, Post and Stop).
THEOREM NoWakeupLost == Spec => []WakeupComes
<1>1. QueueInv => WakeupComes
    BY DEF QueueInv
<1> QED BY <1>1, QueueInvariant, PTL

\* When the worker has ended, no accepted task is left without an answer.
THEOREM QueueLeavesNothing == Spec => []NothingLeftBehind
<1>1. QueueInv => NothingLeftBehind
    <2> SUFFICES ASSUME QueueInv, worker = "ended", NEW t \in Tasks,
                        future[t] = "pending"
                 PROVE FALSE
        BY DEF NothingLeftBehind
    <2>1. t \in Elements(queue) \/ t = current
        BY DEF QueueInv, PendingIsAhead
    <2>2. queue = <<>> /\ current = NoTask
        BY DEF QueueInv, EndedIsOver, TaskAtWorker
    <2>3. queue = <<>> => Len(queue) = 0
        OBVIOUS
    <2>4. Elements(queue) = {}
        BY <2>2, <2>3 DEF Elements
    <2> QED BY <2>1, <2>2, <2>4, QueueAssumption
<1> QED BY <1>1, QueueInvariant, PTL

\* The queue implements SerialExecution: its tasks run in the order in which they
\* were accepted, one at a time, and none is accepted after the stop.
THEOREM QueueIsSerial == Spec => RunsInSeries
<1>1. Init => Serial!Start
    BY DEF Init, Serial!Start
<1>2. QueueInv /\ [Next]_vars => [Serial!Step]_(Serial!abstractVars)
    <2> SUFFICES ASSUME QueueInv, [Next]_vars
                 PROVE [Serial!Step]_(Serial!abstractVars)
        OBVIOUS
    <2> USE DEF Serial!Step, Serial!abstractVars
    <2>1. ASSUME NEW t \in Tasks, NEW own \in BOOLEAN, PostAccepted(t, own)
          PROVE Serial!Step
        BY <2>1 DEF PostAccepted, Serial!Accept
    <2>2. ASSUME NEW t \in Tasks, NEW own \in BOOLEAN, PostRefused(t, own)
          PROVE UNCHANGED Serial!abstractVars
        BY <2>2 DEF PostRefused
    <2>3. ASSUME NEW s \in Stoppers, Stop(s) PROVE Serial!Step
        BY <2>3 DEF Stop, SetStopped, Serial!Close
    <2>4. ASSUME NEW c \in Callers, Notify(c) PROVE UNCHANGED Serial!abstractVars
        BY <2>4 DEF Notify
    <2>5. CASE Destroy
        BY <2>5 DEF Destroy, SetStopped, Serial!Close
    <2>6. CASE Joined \/ Sleep \/ WakeSpuriously \/ Take \/ End
        BY <2>6 DEF Joined, Sleep, WakeSpuriously, Take, End
    <2>7. CASE Finish
        <3>1. current \in Tasks /\ Taken = <<current>>
            BY <2>7 DEF Finish, Taken, QueueInv, TaskAtWorker, TypeOK
        <3>2. accepted = ran \o <<current>> \o queue
            BY <3>1 DEF QueueInv, InOrder
        <3>3. ran \in Seq(Tasks) /\ queue \in Seq(Tasks)
            BY DEF QueueInv, TypeOK
        <3>4. Len(ran) < Len(accepted) /\ accepted[Len(ran) + 1] = current
            BY <3>1, <3>2, <3>3
        <3>5. ran' = Append(ran, current) /\ UNCHANGED <<accepted, stopped>>
            BY <2>7 DEF Finish
        <3>6. Serial!Perform
            BY <3>4, <3>5 DEF Serial!Perform
        <3> QED BY <3>6
    <2>8. CASE UNCHANGED vars
        BY <2>8 DEF vars
    <2> QED BY <2>1, <2>2, <2>3, <2>4, <2>5, <2>6, <2>7, <2>8 DEF Next
<1> QED BY <1>1, <1>2, QueueInvariant, PTL DEF Spec, RunsInSeries, Serial!Promise

=============================================================================
