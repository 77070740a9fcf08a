-------------------------- MODULE SerialTaskQueue --------------------------
(***************************************************************************)
(* The queue on which the bot runs deferred work one task after another     *)
(* (utility/serial_task_queue.h): any thread posts a task and waits for its *)
(* future, one worker thread runs the tasks, Stop and the destructor end it.*)
(*                                                                          *)
(* What happens under mutex_ is one step; the notify_one that follows it is *)
(* another, so that a wake-up can come late or meet a worker that does not  *)
(* sleep yet.  The tasks are the callers': what they return is external.    *)
(***************************************************************************)
EXTENDS Integers, Sequences

CONSTANTS Tasks,     \* the tasks, each of them posted at most once
          Stoppers,  \* the threads that call Stop
          NoTask     \* in place of a task

ASSUME QueueAssumption == NoTask \notin Tasks

VARIABLES
    stopped,    \* stopped_
    queue,      \* queue_
    future,     \* what the caller of Post holds for each task
    signal,     \* tasks and stoppers that have left mutex_ but not notified yet
    worker,     \* where the thread in Run_ is
    current,    \* the task it has taken out of the queue
    owner,      \* where the thread is that owns the queue and destroys it
    stopping,   \* stoppers that have called Stop
    accepted,   \* history: the tasks that were put into the queue, in order
    ran         \* history: the tasks that have run, in order

vars == <<stopped, queue, future, signal, worker, current, owner, stopping,
          accepted, ran>>

Callers == Tasks \cup Stoppers \cup {"destructor"}

\* The types of the queue and of those who use it.
TypeOK ==
    /\ stopped \in BOOLEAN
    /\ queue \in Seq(Tasks)
    /\ future \in [Tasks -> {"none", "pending", "value", "exception", "refused"}]
    /\ signal \subseteq Callers
    /\ worker \in {"awake", "asleep", "running", "ended"}
    /\ current \in Tasks \cup {NoTask}
    /\ owner \in {"using", "joining", "gone"}
    /\ stopping \subseteq Stoppers
    /\ accepted \in Seq(Tasks)
    /\ ran \in Seq(Tasks)

Init ==
    /\ stopped = FALSE
    /\ queue = <<>>
    /\ future = [t \in Tasks |-> "none"]
    /\ signal = {}
    /\ worker = "awake"
    /\ current = NoTask
    /\ owner = "using"
    /\ stopping = {}
    /\ accepted = <<>>
    /\ ran = <<>>

-----------------------------------------------------------------------------
(* The threads that post and stop.                                          *)

\* Other threads may use the queue until its owner destroys it; a task that is
\* running may post from the worker itself, at any time.
MayPost(own) == IF own THEN worker = "running" ELSE owner = "using"

\* Slip: Post forgets to notify.
PostAcceptedSilent(t, own) ==
    /\ MayPost(own) /\ future[t] = "none" /\ ~stopped
    /\ queue' = Append(queue, t)
    /\ accepted' = Append(accepted, t)
    /\ future' = [future EXCEPT ![t] = "pending"]
    /\ UNCHANGED <<stopped, signal, worker, current, owner, stopping, ran>>

\* The worker's own notify meets nobody who sleeps.
PostAccepted(t, own) ==
    /\ MayPost(own) /\ future[t] = "none" /\ ~stopped
    /\ queue' = Append(queue, t)
    /\ accepted' = Append(accepted, t)
    /\ future' = [future EXCEPT ![t] = "pending"]
    /\ signal' = IF own THEN signal ELSE signal \cup {t}
    /\ UNCHANGED <<stopped, worker, current, owner, stopping, ran>>

PostRefused(t, own) ==
    /\ MayPost(own) /\ future[t] = "none" /\ stopped
    /\ future' = [future EXCEPT ![t] = "refused"]
    /\ UNCHANGED <<stopped, queue, signal, worker, current, owner, stopping,
                   accepted, ran>>

\* Slip: Stop notifies before it sets the flag.
SetStoppedSilent(c) ==
    /\ stopped' = TRUE
    /\ UNCHANGED <<signal, queue, future, worker, current, accepted, ran>>

\* The critical section of Stop, which returns at once if it is the second.
SetStopped(c) ==
    /\ stopped' = TRUE
    /\ signal' = IF stopped THEN signal ELSE signal \cup {c}
    /\ UNCHANGED <<queue, future, worker, current, accepted, ran>>

Stop(s) ==
    /\ owner = "using" /\ s \notin stopping
    /\ stopping' = stopping \cup {s}
    /\ SetStopped(s)
    /\ UNCHANGED owner

\* cv_.notify_one: it is lost on a worker that is not waiting.
Notify(c) ==
    /\ c \in signal
    /\ signal' = signal \ {c}
    /\ worker' = IF worker = "asleep" THEN "awake" ELSE worker
    /\ UNCHANGED <<stopped, queue, future, current, owner, stopping, accepted, ran>>

\* The destructor.  No other call may be under way by then: that is the duty of
\* the owner, except for the calls of the running task.
Destroy ==
    /\ owner = "using" /\ signal = {}
    /\ owner' = "joining"
    /\ SetStopped("destructor")
    /\ UNCHANGED stopping

Joined ==
    /\ owner = "joining" /\ "destructor" \notin signal /\ worker = "ended"
    /\ owner' = "gone"
    /\ UNCHANGED <<stopped, queue, future, signal, worker, current, stopping,
                   accepted, ran>>

-----------------------------------------------------------------------------
(* The worker thread, in Run_.                                              *)

\* Slip: the predicate of the wait forgets the flag.
SleepUnchecked ==
    /\ worker = "awake" /\ queue = <<>>
    /\ worker' = "asleep"
    /\ UNCHANGED <<stopped, queue, future, signal, current, owner, stopping,
                   accepted, ran>>

Sleep ==
    /\ worker = "awake" /\ ~stopped /\ queue = <<>>
    /\ worker' = "asleep"
    /\ UNCHANGED <<stopped, queue, future, signal, current, owner, stopping,
                   accepted, ran>>

\* A condition variable may wake up for no reason.
WakeSpuriously ==
    /\ worker = "asleep"
    /\ worker' = "awake"
    /\ UNCHANGED <<stopped, queue, future, signal, current, owner, stopping,
                   accepted, ran>>

\* Slip: the newest task is taken first.
TakeNewest ==
    /\ worker = "awake" /\ queue # <<>>
    /\ worker' = "running"
    /\ current' = queue[Len(queue)]
    /\ queue' = SubSeq(queue, 1, Len(queue) - 1)
    /\ UNCHANGED <<stopped, future, signal, owner, stopping, accepted, ran>>

Take ==
    /\ worker = "awake" /\ queue # <<>>
    /\ worker' = "running"
    /\ current' = Head(queue)
    /\ queue' = Tail(queue)
    /\ UNCHANGED <<stopped, future, signal, owner, stopping, accepted, ran>>

\* Slip: the task is given up before its result is looked at.
FinishAfterReset ==
    /\ worker = "running"
    /\ current' = NoTask
    /\ ran' = Append(ran, NoTask)
    /\ worker' = "awake"
    /\ UNCHANGED <<stopped, queue, future, signal, owner, stopping, accepted>>

\* The task returns or throws; either way the wrapper fulfils its promise.
Finish ==
    /\ worker = "running"
    /\ \E result \in {"value", "exception"} :
           future' = [future EXCEPT ![current] = result]
    /\ ran' = Append(ran, current)
    /\ current' = NoTask
    /\ worker' = "awake"
    /\ UNCHANGED <<stopped, queue, signal, owner, stopping, accepted>>

\* Slip: the worker ends as soon as it sees the flag.
EndAtOnce ==
    /\ worker = "awake" /\ stopped
    /\ worker' = "ended"
    /\ UNCHANGED <<stopped, queue, future, signal, current, owner, stopping,
                   accepted, ran>>

End ==
    /\ worker = "awake" /\ stopped /\ queue = <<>>
    /\ worker' = "ended"
    /\ UNCHANGED <<stopped, queue, future, signal, current, owner, stopping,
                   accepted, ran>>

Next ==
    \/ \E t \in Tasks, own \in BOOLEAN : PostAccepted(t, own) \/ PostRefused(t, own)
    \/ \E s \in Stoppers : Stop(s)
    \/ \E c \in Callers : Notify(c)
    \/ Destroy \/ Joined
    \/ Sleep \/ WakeSpuriously \/ Take \/ Finish \/ End

\* Threads run, and tasks end; nobody has to post, to stop or to wake for nothing.
Fairness ==
    /\ WF_vars(\E c \in Callers : Notify(c))
    /\ WF_vars(Sleep \/ Take \/ Finish \/ End)
    /\ WF_vars(Joined)

Spec == Init /\ [][Next]_vars

FairSpec == Spec /\ Fairness

-----------------------------------------------------------------------------
(* Properties.                                                              *)

Taken == IF current = NoTask THEN <<>> ELSE <<current>>

\* Every task that was accepted is at exactly one place: it has run, it is
\* running, or it waits behind those accepted before it.
InOrder == accepted = ran \o Taken \o queue

\* The queue keeps its promise: what it accepts before it is stopped runs, one
\* task after another, in the order of the posts.
Serial == INSTANCE SerialExecution
              WITH Jobs <- Tasks, log <- accepted, done <- ran, closed <- stopped
RunsInSeries == Serial!Promise

\* No wake-up is lost: a worker that sleeps although there is something to do has
\* a thread that is about to notify it.
SleepsInVain == worker = "asleep" /\ (stopped \/ queue # <<>>)
WakeupComes == SleepsInVain => signal # {}

\* The queue is never given up with a task left in it: when the worker ends and
\* the owner goes on to destroy what the tasks used, whoever posted one has his answer,
\* so that nobody blocks for ever.  (The answer is that of the task, which Run_ runs; the
\* comments of the class say that it is broken instead, see StopBreaksPending.)
NothingLeftBehind ==
    worker = "ended" => \A t \in Tasks : future[t] # "pending"

\* What the comments of the class and of Stop say: a task that still waits in the
\* queue when Stop is called is not run any more, its promise is broken.  Run_ does run
\* it: this is false, and no run checks it.
StopBreaksPending ==
    [][\A t \in Tasks : stopped /\ current # t => current' # t]_vars

\* Nobody blocks for ever on a future: what was posted is answered, whenever Stop
\* or the destructor comes.
FutureAnswered == \A t \in Tasks : future[t] = "pending" ~> future[t] # "pending"

\* The destructor returns.
DestructorReturns == owner = "joining" ~> owner = "gone"

=============================================================================
