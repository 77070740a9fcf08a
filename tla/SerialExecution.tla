-------------------------- MODULE SerialExecution --------------------------
(***************************************************************************)
(* What SerialTaskQueue promises: tasks are accepted until it is closed,    *)
(* and those accepted run one after another in the order of acceptance.     *)
(***************************************************************************)
EXTENDS Integers, Sequences

CONSTANT Jobs

VARIABLES log,    \* the tasks accepted so far, in order
          done,   \* the tasks that have run, in order
          closed  \* whether another task may still be accepted

abstractVars == <<log, done, closed>>

Start == log = <<>> /\ done = <<>> /\ closed = FALSE

Accept(j) ==
    /\ ~closed
    /\ log' = Append(log, j)
    /\ UNCHANGED <<done, closed>>

\* The first of those accepted that has not run.
Perform ==
    /\ Len(done) < Len(log)
    /\ done' = Append(done, log[Len(done) + 1])
    /\ UNCHANGED <<log, closed>>

Close == closed' = TRUE /\ UNCHANGED <<log, done>>

Step == Perform \/ Close \/ \E j \in Jobs : Accept(j)

Promise == Start /\ [][Step]_abstractVars

=============================================================================
