------------------------- MODULE MatchManagerProofs -------------------------
(***************************************************************************)
(* Proofs about MatchManager, for every set of users, groups and threads,   *)
(* every bound on the number of matches and every set of commands.          *)
(***************************************************************************)
EXTENDS MatchManager, TLAPS

\* Every command but a termination names a user, and a thread that is past the
\* routing of its command (or a timer thread at work) holds a match.
HoldsMatch == {"found", "signalled", "bound", "ipc", "undoJoin", "detach",
               "detachGroup", "schedule", "asking"}

TaskInv ==
    \A p \in Procs :
       /\ task[p].op \in RequestKinds \ {"terminate"} => task[p].user \in Users
       /\ pc[p] \in HoldsMatch => task[p].match \in Mids
       /\ pc[p] \in {"create", "spawning"} => task[p].op = "new"
       /\ pc[p] \in {"bound", "undoJoin"} => task[p].op = "join"

\* mutex_ is held over several steps by one thread at a time, and the match that
\* thread is setting up, like every later one, does not exist yet.
SpawnInv ==
    /\ \A s, t \in Threads : pc[s] = "spawning" /\ pc[t] = "spawning" => s = t
    /\ MutexHeld => nextMid \in Mids /\ phase[nextMid] = "none"
    /\ \A m \in Mids : m > nextMid => phase[m] = "none"

TInv == TypeOK /\ TaskInv /\ SpawnInv

LEMMA InitTInv == Init => TInv
BY ManagerAssumption
   DEF Init, TInv, TypeOK, DirectoryOK, MatchesOK, ThreadsOK, TaskInv, SpawnInv,
       Mids, NoMatch, Procs, PCs, Task, IdleTask, RequestKinds, TimerKinds,
       HoldsMatch, MutexHeld

LEMMA FinishThreads ==
  ASSUME ThreadsOK, TaskInv, NEW p \in Procs, Finish(p)
  PROVE  ThreadsOK' /\ TaskInv'
BY ManagerAssumption DEF ThreadsOK, TaskInv, Finish, IdleTask, Task, PCs, HoldsMatch, NoMatch, RequestKinds

LEMMA SetThreads ==
  ASSUME ThreadsOK, TaskInv, NEW p \in Procs, NEW l \in PCs, NEW r \in Task,
         pc' = [pc EXCEPT ![p] = l], task' = [task EXCEPT ![p] = r],
         r.op \in RequestKinds \ {"terminate"} => r.user \in Users,
         l \in HoldsMatch => r.match \in Mids,
         l \in {"create", "spawning"} => r.op = "new",
         l \in {"bound", "undoJoin"} => r.op = "join"
  PROVE  ThreadsOK' /\ TaskInv'
<1>1. ThreadsOK'
  BY DEF ThreadsOK
<1>2. TaskInv'
  BY DEF ThreadsOK, TaskInv
<1> QED BY <1>1, <1>2

LEMMA GotoThreads ==
  ASSUME ThreadsOK, TaskInv, NEW p \in Procs, NEW l \in PCs, Goto(p, l),
         l \in HoldsMatch => task[p].match \in Mids,
         l \in {"create", "spawning"} => task[p].op = "new",
         l \in {"bound", "undoJoin"} => task[p].op = "join"
  PROVE  ThreadsOK' /\ TaskInv'
BY DEF ThreadsOK, TaskInv, Goto

LEMMA AfterOverThreads ==
  ASSUME ThreadsOK, TaskInv, NEW p \in Procs, pc[p] \in HoldsMatch, AfterOver(p)
  PROVE  ThreadsOK' /\ TaskInv'
<1> DEFINE l == IF p \in Threads THEN "detach" ELSE "schedule"
<1>1. l \in PCs /\ l \notin {"create", "spawning", "bound", "undoJoin"} /\ Goto(p, l)
  BY DEF AfterOver, PCs
<1>2. task[p].match \in Mids
  BY DEF TaskInv
<1> QED BY <1>1, <1>2, GotoThreads


LEMMA IssueThreads ==
  ASSUME DirectoryOK, ThreadsOK, TaskInv, NEW t \in Threads, NEW op \in RequestKinds,
         NEW u \in Users \cup {NoUser}, NEW g \in Groups \cup {NoGroup},
         NEW m \in Mids \cup {NoMatch}, NEW l \in {"found", "create"},
         Issue(t, op, u, g, m, l),
         op # "terminate" => u \in Users,
         l = "found" => m \in Mids,
         l = "create" => op = "new"
  PROVE  ThreadsOK' /\ TaskInv'
<1> DEFINE r == [op |-> op, user |-> u, group |-> g, match |-> m]
<1>1. r \in Task /\ l \in PCs /\ t \in Procs
  BY DEF Task, PCs, Procs
<1>2. pc' = [pc EXCEPT ![t] = l] /\ task' = [task EXCEPT ![t] = r]
  BY DEF Issue
<1> QED
  BY <1>1, <1>2, SetThreads DEF HoldsMatch

LEMMA ThreadsStep ==
  ASSUME TypeOK, TaskInv, SpawnInv, [Next]_vars
  PROVE  ThreadsOK' /\ TaskInv'
<1> USE DEF TypeOK
<1>1. ASSUME NEW t \in Threads, NEW u \in Users, NEW g \in Groups \cup {NoGroup},
             NewGame(t, u, g)
      PROVE  ThreadsOK' /\ TaskInv'
  <2> DEFINE m == IF g = NoGroup THEN NoMatch ELSE groupMatch[g]
  <2>1. m \in Mids \cup {NoMatch}
    BY DEF DirectoryOK
  <2>2. Issue(t, "new", u, g, m, IF m = NoMatch THEN "create" ELSE "found")
    BY <1>1 DEF NewGame
  <2> QED
    BY <2>1, <2>2, IssueThreads DEF RequestKinds
<1>2. ASSUME NEW t \in Threads, NEW u \in Users, NEW op \in RequestKinds, ByUser(t, u, op)
      PROVE  ThreadsOK' /\ TaskInv'
  BY <1>2, IssueThreads DEF ByUser, DirectoryOK
<1>3. ASSUME NEW t \in Threads, NEW u \in Users, JoinGame(t, u)
      PROVE  ThreadsOK' /\ TaskInv'
  <2>1. PICK m \in Mids : Issue(t, "join", u, NoGroup, m, "found")
    BY <1>3 DEF JoinGame, DirectoryOK
  <2> QED
    BY <2>1, IssueThreads DEF RequestKinds
<1>4. ASSUME NEW t \in Threads, TerminateGame(t)
      PROVE  ThreadsOK' /\ TaskInv'
  BY <1>4, IssueThreads DEF TerminateGame, DirectoryOK, RequestKinds
<1>5. ASSUME NEW t \in Threads, CreateRefused(t) \/ CreateFails(t) \/ UndoJoin(t) \/ HelpAnswered(t)
      PROVE  ThreadsOK' /\ TaskInv'
  BY <1>5, FinishThreads DEF CreateRefused, CreateFails, UndoJoin, HelpAnswered, NoEffect, Procs
<1>6. ASSUME NEW t \in Threads, BeginCreate(t)
      PROVE  ThreadsOK' /\ TaskInv'
  BY <1>6, GotoThreads DEF BeginCreate, Procs, PCs, TaskInv, HoldsMatch
<1>7. ASSUME NEW t \in Threads, Create(t)
      PROVE  ThreadsOK' /\ TaskInv'
  <2> DEFINE r == [op |-> "start", user |-> task[t].user, group |-> NoGroup,
                   match |-> nextMid]
  <2>1. t \in Procs /\ pc[t] = "spawning" /\ task[t].user \in Users
    BY <1>7 DEF Create, Procs, TaskInv, RequestKinds
  <2>2. nextMid \in Mids
    BY <2>1 DEF SpawnInv, MutexHeld
  <2>3. r \in Task /\ "found" \in PCs
    BY <2>1, <2>2 DEF Task, RequestKinds, PCs
  <2>4. \/ Finish(t)
        \/ pc' = [pc EXCEPT ![t] = "found"] /\ task' = [task EXCEPT ![t] = r]
    BY <1>7 DEF Create
  <2> QED
    BY <2>1, <2>2, <2>3, <2>4, FinishThreads, SetThreads
<1>8. ASSUME NEW t \in Threads, JoinBind(t)
      PROVE  ThreadsOK' /\ TaskInv'
  BY <1>8, GotoThreads, FinishThreads DEF JoinBind, Procs, PCs, TaskInv, HoldsMatch
<1>9. ASSUME NEW t \in Threads, JoinLobby(t)
      PROVE  ThreadsOK' /\ TaskInv'
  BY <1>9, GotoThreads, FinishThreads DEF JoinLobby, Procs, PCs, TaskInv, HoldsMatch
<1>10. ASSUME NEW t \in Threads, Signal(t)
       PROVE  ThreadsOK' /\ TaskInv'
  BY <1>10, GotoThreads DEF Signal, Procs, PCs, TaskInv, HoldsMatch
<1>11. ASSUME NEW t \in Threads, TerminateLobby(t)
       PROVE  ThreadsOK' /\ TaskInv'
  BY <1>11, AfterOverThreads DEF TerminateLobby, Procs, HoldsMatch
<1>12. ASSUME NEW t \in Threads, TerminateRunning(t)
       PROVE  ThreadsOK' /\ TaskInv'
  <2> DEFINE r == [task[t] EXCEPT !.op = "terminate"]
  <2>1. t \in Procs /\ pc[t] = "signalled" /\ "detach" \in PCs
    BY <1>12 DEF TerminateRunning, Procs, PCs
  <2>2. r \in Task /\ r.op = "terminate" /\ r.match \in Mids
    BY <2>1 DEF ThreadsOK, TaskInv, Task, RequestKinds, HoldsMatch
  <2>3. \/ Finish(t)
        \/ pc' = [pc EXCEPT ![t] = "detach"] /\ task' = [task EXCEPT ![t] = r]
    BY <1>12 DEF TerminateRunning
  <2> QED
    BY <2>1, <2>2, <2>3, FinishThreads, SetThreads
<1>13. ASSUME NEW t \in Threads, Detach(t)
       PROVE  ThreadsOK' /\ TaskInv'
  BY <1>13, GotoThreads DEF Detach, Procs, PCs, TaskInv, HoldsMatch
<1>14. ASSUME NEW t \in Threads, DetachGroup(t)
       PROVE  ThreadsOK' /\ TaskInv'
  <2> DEFINE r == [task[t] EXCEPT !.match = NoMatch]
  <2>1. t \in Procs /\ task[t] \in Task /\ "create" \in PCs
    BY DEF ThreadsOK, Procs, PCs
  <2>2. r \in Task /\ r.op = task[t].op /\ r.user = task[t].user
    BY <2>1 DEF Task
  <2>3. CASE Finish(t)
    BY <2>1, <2>3, FinishThreads
  <2>4. CASE /\ task[t].op = "new"
             /\ pc' = [pc EXCEPT ![t] = "create"]
             /\ task' = [task EXCEPT ![t] = r]
    <3>1. r.user \in Users
      BY <2>1, <2>2, <2>4 DEF TaskInv, RequestKinds
    <3> QED
      BY <2>1, <2>2, <2>4, <3>1, SetThreads DEF HoldsMatch
  <2> QED
    BY <1>14, <2>3, <2>4 DEF DetachGroup
<1>15. ASSUME NEW t \in Threads,
              EnterRequest(t) \/ EnterHelp(t) \/ EnterSetting(t) \/ EnterStart(t)
       PROVE  ThreadsOK' /\ TaskInv'
  BY <1>15, FinishThreads, GotoThreads, AfterOverThreads
     DEF EnterRequest, EnterHelp, EnterSetting, EnterStart, Enter, SendIpc, NoEffect,
         RefusedWhileRunning, EndIfOver, Procs, PCs, TaskInv, HoldsMatch
<1>16. ASSUME NEW t \in Threads, LeaveLobby(t) \/ LeaveRunning(t) \/ EnterInterrupt(t)
       PROVE  ThreadsOK' /\ TaskInv'
  BY <1>16, FinishThreads, GotoThreads, AfterOverThreads
     DEF LeaveLobby, LeaveRunning, EnterInterrupt, Enter, NoEffect,
         RefusedWhileRunning, EndIfOver, Procs, PCs, TaskInv, HoldsMatch
<1>17. ASSUME NEW m \in Mids, NEW op \in TimerKinds, TimerFire(m, op)
       PROVE  ThreadsOK' /\ TaskInv'
  <2> DEFINE r == [IdleTask EXCEPT !.op = op, !.match = m]
  <2>1. r \in Task /\ r.op = op /\ r.match = m /\ m \in Procs
    BY DEF Task, IdleTask, Procs, RequestKinds, TimerKinds
  <2>2. op \notin RequestKinds
    BY DEF TimerKinds, RequestKinds
  <2> QED
    BY <1>17, <2>1, <2>2, SetThreads DEF TimerFire, PCs, HoldsMatch
<1>18. ASSUME NEW m \in Mids, TimerEnter(m) \/ Schedule(m)
       PROVE  ThreadsOK' /\ TaskInv'
  BY <1>18, FinishThreads, GotoThreads
     DEF TimerEnter, Schedule, Enter, SendIpc, NoEffect, Procs, PCs, TaskInv, HoldsMatch
<1>19. ASSUME NEW p \in Procs, Reply(p) \/ Eof(p)
       PROVE  ThreadsOK' /\ TaskInv'
  BY <1>19, FinishThreads, AfterOverThreads
     DEF Reply, Eof, NoEffect, LobbyReply, RunningReply, EndIfOver, HoldsMatch
<1>20. CASE UNCHANGED <<pc, task>>
  BY <1>20 DEF ThreadsOK, TaskInv
<1> QED
  BY <1>1, <1>2, <1>3, <1>4, <1>5, <1>6, <1>7, <1>8, <1>9, <1>10, <1>11, <1>12, <1>13,
     <1>14, <1>15, <1>16, <1>17, <1>18, <1>19, <1>20
     DEF Next, NextRequest, NextTimer, NextIpc, Proceed, TakeLock, PushStart, PushGameOver,
         WorkerProcess, ChildCrash, ChildExit, vars


LEMMA UnbindUsersType ==
  ASSUME DirectoryOK, NEW S, UnbindUsers(S)
  PROVE  userMatch' \in [Users -> Mids \cup {NoMatch}]
BY DEF DirectoryOK, UnbindUsers

LEMMA DirectoryStep ==
  ASSUME TInv, [Next]_vars
  PROVE  DirectoryOK'
<1> USE DEF TInv, TypeOK, directory
<1>1. ASSUME NEW t \in Threads, BeginCreate(t)
      PROVE  DirectoryOK'
  BY <1>1, ManagerAssumption DEF BeginCreate, CanCreate, DirectoryOK
<1>2. ASSUME NEW t \in Threads, Create(t)
      PROVE  DirectoryOK'
  <2>1. nextMid \in Mids
    BY <1>2 DEF Create, SpawnInv, MutexHeld
  <2> QED
    BY <1>2, <2>1 DEF Create, DirectoryOK
<1>3. ASSUME NEW t \in Threads, JoinBind(t)
      PROVE  DirectoryOK'
  <2>1. task[t].match \in Mids
    BY <1>3 DEF JoinBind, TaskInv, HoldsMatch, Procs
  <2> QED
    BY <1>3, <2>1 DEF JoinBind, DirectoryOK
<1>4. ASSUME NEW t \in Threads, Detach(t) \/ DetachGroup(t)
      PROVE  DirectoryOK'
  BY <1>4 DEF Detach, DetachGroup, DirectoryOK
<1>5. ASSUME NEW t \in Threads,
             UndoJoin(t) \/ HelpAnswered(t) \/ TerminateLobby(t) \/ TerminateRunning(t) \/ EnterRequest(t)
               \/ EnterSetting(t) \/ LeaveLobby(t) \/ LeaveRunning(t) \/ EnterInterrupt(t)
      PROVE  DirectoryOK'
  <2>1. /\ UNCHANGED <<groupMatch, midMap, nextMid, unbindQueue>>
        /\ UNCHANGED userMatch \/ \E S : UnbindUsers(S)
    BY <1>5 DEF UndoJoin, HelpAnswered, TerminateLobby, TerminateRunning, EnterRequest, EnterSetting,
                LeaveLobby, LeaveRunning, EnterInterrupt, SendIpc, NoEffect, Kick,
                RefusedWhileRunning, EndIfOver, CleanupRunning
  <2> QED
    BY <2>1, UnbindUsersType DEF DirectoryOK
<1>6. ASSUME NEW p \in Procs, Reply(p) \/ Eof(p)
      PROVE  DirectoryOK'
  <2>1. /\ UNCHANGED <<groupMatch, midMap, nextMid, unbindQueue>>
        /\ UNCHANGED userMatch \/ \E S : UnbindUsers(S)
    BY <1>6 DEF Reply, Eof, NoEffect, LobbyReply, RunningReply, Kick, EndIfOver, CleanupRunning
  <2> QED
    BY <2>1, UnbindUsersType DEF DirectoryOK
<1>7. ASSUME NEW m \in Mids, Schedule(m)
      PROVE  DirectoryOK'
  BY <1>7 DEF Schedule, DirectoryOK
<1>8. CASE WorkerProcess
  <2>1. unbindQueue' \in Seq(Mids)
    BY <1>8 DEF WorkerProcess, DirectoryOK
  <2>2. groupMatch' \in [Groups -> Mids \cup {NoMatch}] /\ midMap' \subseteq Mids
    <3>1. \/ UNCHANGED groupMatch
          \/ \E g : groupMatch' = [groupMatch EXCEPT ![g] = NoMatch]
      BY <1>8 DEF WorkerProcess
    <3>2. midMap' \subseteq midMap
      BY <1>8 DEF WorkerProcess
    <3> QED
      BY <3>1, <3>2 DEF DirectoryOK
  <2> QED
    BY <1>8, <2>1, <2>2 DEF WorkerProcess, DirectoryOK
<1>9. CASE UNCHANGED <<userMatch, groupMatch, midMap, nextMid, unbindQueue>>
  BY <1>9 DEF DirectoryOK
<1> QED
  BY <1>1, <1>2, <1>3, <1>4, <1>5, <1>6, <1>7, <1>8, <1>9
     DEF Next, NextRequest, NextTimer, NextIpc, Proceed, TakeLock, NewGame, ByUser, JoinGame,
         TerminateGame, Issue, CreateRefused, CreateFails, JoinLobby, Signal, EnterHelp,
         EnterStart, SendIpc, NoEffect, TimerFire, TimerEnter, PushStart, PushGameOver,
         ChildCrash, ChildExit, vars

\* CleanupRunning_ runs or not; what it writes has its type.
LEMMA CleanupType ==
  ASSUME MatchesOK, NEW m,
         \/ \E extra : CleanupRunning(m, extra)
         \/ UNCHANGED <<state, child>>
  PROVE  /\ state' \in [Mids -> {"N", "S", "O"}]
         /\ child' \in [Mids -> {"up", "killed", "dead"}]
BY DEF MatchesOK, CleanupRunning, Cancel

LEMMA MatchesStep ==
  ASSUME TInv, [Next]_vars
  PROVE  MatchesOK'
<1> USE DEF TInv, TypeOK, matches
<1>1. ASSUME NEW t \in Threads, Create(t)
      PROVE  MatchesOK'
  <2>1. /\ task[t].user \in Users /\ task[t].group \in Groups \cup {NoGroup}
        /\ nextMid \in Mids
    BY <1>1 DEF Create, SpawnInv, MutexHeld, TaskInv, RequestKinds, Procs, ThreadsOK, Task
  <2> QED
    BY <1>1, <2>1 DEF Create, MatchesOK
<1>2. ASSUME NEW t \in Threads, JoinLobby(t)
      PROVE  MatchesOK'
  <2>1. task[t].user \in Users
    BY <1>2 DEF JoinLobby, TaskInv, RequestKinds, Procs
  <2> QED
    BY <1>2, <2>1 DEF JoinLobby, MatchesOK
<1>3. ASSUME NEW t \in Threads, Signal(t)
      PROVE  MatchesOK'
  BY <1>3 DEF Signal, Cancel, MatchesOK
<1>4. ASSUME NEW t \in Threads, TerminateRunning(t)
      PROVE  MatchesOK'
  <2>1. over' \in [Mids -> BOOLEAN]
    BY <1>4, Zenon DEF TerminateRunning, MatchesOK
  <2>2. \E m : (\E extra : CleanupRunning(m, extra)) \/ UNCHANGED <<state, child>>
    BY <1>4 DEF TerminateRunning
  <2> QED
    BY <1>4, <2>1, <2>2, CleanupType DEF TerminateRunning, MatchesOK
<1>5. ASSUME NEW t \in Threads, EnterRequest(t)
      PROVE  MatchesOK'
  <2>1. \E m : (\E extra : CleanupRunning(m, extra)) \/ UNCHANGED <<state, child>>
    BY <1>5 DEF EnterRequest, SendIpc, NoEffect, RefusedWhileRunning, EndIfOver
  <2> QED
    BY <1>5, <2>1, CleanupType
       DEF EnterRequest, SendIpc, NoEffect, RefusedWhileRunning, MatchesOK
<1>6. ASSUME NEW t \in Threads, EnterSetting(t)
      PROVE  MatchesOK'
  BY <1>6 DEF EnterSetting, NoEffect, Kick, MatchesOK
<1>7. ASSUME NEW t \in Threads, LeaveLobby(t)
      PROVE  MatchesOK'
  BY <1>7 DEF LeaveLobby, NoEffect, MatchesOK
<1>8. ASSUME NEW t \in Threads, LeaveRunning(t)
      PROVE  MatchesOK'
  <2>1. \E m : (\E extra : CleanupRunning(m, extra)) \/ UNCHANGED <<state, child>>
    BY <1>8 DEF LeaveRunning, NoEffect
  <2>2. over' \in [Mids -> BOOLEAN]
    BY <1>8 DEF LeaveRunning, NoEffect, MatchesOK
  <2>3. left' \in [Mids -> SUBSET Users]
    BY <1>8 DEF LeaveRunning, NoEffect, Active, MatchesOK
  <2>4. UNCHANGED <<phase, users, host, gid>>
    BY <1>8 DEF LeaveRunning, NoEffect
  <2> QED
    BY <2>1, <2>2, <2>3, <2>4, CleanupType DEF MatchesOK
<1>9. ASSUME NEW t \in Threads, EnterInterrupt(t)
      PROVE  MatchesOK'
  <2>1. \E m : (\E extra : CleanupRunning(m, extra)) \/ UNCHANGED <<state, child>>
    BY <1>9 DEF EnterInterrupt, NoEffect, RefusedWhileRunning, EndIfOver
  <2>2. over' \in [Mids -> BOOLEAN] /\ UNCHANGED <<phase, users, left, host, gid>>
    BY <1>9 DEF EnterInterrupt, NoEffect, RefusedWhileRunning, MatchesOK
  <2> QED
    BY <2>1, <2>2, CleanupType DEF MatchesOK
<1>10. ASSUME NEW p \in Procs, PushStart(p) \/ PushGameOver(p)
       PROVE  MatchesOK'
  BY <1>10 DEF PushStart, PushGameOver, MatchesOK
<1>11. ASSUME NEW p \in Procs, Reply(p)
       PROVE  MatchesOK'
  <2>1. \/ \E m : (\E extra : CleanupRunning(m, extra)) \/ UNCHANGED <<state, child>>
        \/ \E m : state' = [state EXCEPT ![m] = "S"] /\ UNCHANGED child
    BY <1>11 DEF Reply, NoEffect, LobbyReply, RunningReply, EndIfOver
  <2>2. /\ state' \in [Mids -> {"N", "S", "O"}]
        /\ child' \in [Mids -> {"up", "killed", "dead"}]
    BY <2>1, CleanupType DEF MatchesOK
  <2>3. users' \in [Mids -> SUBSET Users] /\ UNCHANGED <<over, left, host, gid>>
    BY <1>11 DEF Reply, NoEffect, LobbyReply, RunningReply, Kick, MatchesOK
  <2>4. phase' \in [Mids -> {"none", "lobby", "running"}]
    BY <1>11 DEF Reply, NoEffect, LobbyReply, RunningReply, MatchesOK
  <2> QED
    BY <2>2, <2>3, <2>4 DEF MatchesOK
<1>12. ASSUME NEW p \in Procs, Eof(p)
       PROVE  MatchesOK'
  <2>1. \E m : (\E extra : CleanupRunning(m, extra)) \/ UNCHANGED <<state, child>>
    BY <1>12 DEF Eof, NoEffect, LobbyReply, RunningReply, EndIfOver
  <2>2. users' \in [Mids -> SUBSET Users] /\ UNCHANGED <<phase, left, host, gid>>
    BY <1>12 DEF Eof, NoEffect, LobbyReply, RunningReply, Kick, MatchesOK
  <2>3. over' \in [Mids -> BOOLEAN]
    BY <1>12 DEF Eof, NoEffect, LobbyReply, MatchesOK
  <2> QED
    BY <2>1, <2>2, <2>3, CleanupType DEF MatchesOK
<1>13. ASSUME NEW m \in Mids, ChildCrash(m) \/ ChildExit(m)
       PROVE  MatchesOK'
  BY <1>13 DEF ChildCrash, ChildExit, MatchesOK
<1>14. CASE UNCHANGED matches
  BY <1>14 DEF MatchesOK
<1> QED
  BY <1>1, <1>2, <1>3, <1>4, <1>5, <1>6, <1>7, <1>8, <1>9, <1>10, <1>11, <1>12, <1>13, <1>14
     DEF Next, NextRequest, NextTimer, NextIpc, Proceed, TakeLock, NewGame, ByUser, JoinGame,
         TerminateGame, Issue, CreateRefused, BeginCreate, CreateFails, JoinBind, UndoJoin, HelpAnswered,
         TerminateLobby, Detach, DetachGroup, EnterHelp, EnterStart, SendIpc, NoEffect,
         TimerFire, TimerEnter, Schedule, WorkerProcess, vars


\* A step that begins no match leaves SpawnInv alone.
LEMMA SpawnKept ==
  ASSUME SpawnInv, UNCHANGED nextMid,
         \A m \in Mids : phase[m] = "none" => phase'[m] = "none",
         \A t \in Threads : pc'[t] = "spawning" => pc[t] = "spawning"
  PROVE  SpawnInv'
BY DEF SpawnInv, MutexHeld

LEMMA SpawnStep ==
  ASSUME TInv, [Next]_vars
  PROVE  SpawnInv'
<1> USE DEF TInv, TypeOK, directory, matches
<1>a. /\ pc \in [Procs -> PCs]
      /\ phase \in [Mids -> {"none", "lobby", "running"}]
      /\ Threads \subseteq Procs /\ Mids \subseteq Procs
  BY DEF ThreadsOK, MatchesOK, Procs
<1>1. ASSUME NEW t \in Threads, BeginCreate(t)
      PROVE  SpawnInv'
  <2>1. nextMid' = nextMid + 1 /\ nextMid < MaxMatch /\ UNCHANGED phase
    BY <1>1 DEF BeginCreate, CanCreate
  <2>2. nextMid' \in Mids /\ \A m \in Mids : m > nextMid => phase'[m] = "none"
    BY <2>1, ManagerAssumption DEF DirectoryOK, Mids, SpawnInv
  <2>3. \A s \in Threads : pc'[s] = "spawning" => s = t
    BY <1>1, <1>a DEF BeginCreate, Goto, MutexHeld
  <2> QED
    BY <2>1, <2>2, <2>3, ManagerAssumption DEF SpawnInv, MutexHeld, Mids, DirectoryOK
<1>2. ASSUME NEW t \in Threads, Create(t) \/ CreateFails(t)
      PROVE  SpawnInv'
  <2>1. pc[t] = "spawning" /\ pc'[t] # "spawning" /\ nextMid' = nextMid
    BY <1>2, <1>a DEF Create, CreateFails, Finish
  <2>2. \A s \in Threads : pc'[s] # "spawning"
    BY <1>2, <1>a, <2>1 DEF SpawnInv, Create, CreateFails, Finish
  <2>3. \A m \in Mids : m > nextMid => phase'[m] = "none"
    <3>1. \/ UNCHANGED phase
          \/ phase' = [phase EXCEPT ![nextMid] = "lobby"]
      BY <1>2 DEF Create, CreateFails
    <3>2. \A m \in Mids : m > nextMid => m # nextMid
      BY ManagerAssumption DEF Mids, DirectoryOK
    <3> QED
      BY <1>a, <3>1, <3>2 DEF SpawnInv
  <2> QED
    BY <2>1, <2>2, <2>3 DEF SpawnInv, MutexHeld
<1>3. ASSUME NEW t \in Threads,
             \/ \E u \in Users, g \in Groups \cup {NoGroup} : NewGame(t, u, g)
             \/ \E u \in Users, op \in RequestKinds : ByUser(t, u, op)
             \/ \E u \in Users : JoinGame(t, u)
             \/ TerminateGame(t)
      PROVE  SpawnInv'
  <2>1. UNCHANGED <<nextMid, phase>>
    BY <1>3 DEF NewGame, ByUser, JoinGame, TerminateGame, Issue
  <2>2. \E l : pc' = [pc EXCEPT ![t] = l] /\ l # "spawning"
    BY <1>3 DEF NewGame, ByUser, JoinGame, TerminateGame, Issue
  <2> QED
    BY <1>a, <2>1, <2>2, SpawnKept
<1>4. ASSUME NEW t \in Threads,
             CreateRefused(t) \/ JoinBind(t) \/ UndoJoin(t) \/ HelpAnswered(t) \/ Signal(t) \/ Detach(t)
               \/ DetachGroup(t) \/ JoinLobby(t)
      PROVE  SpawnInv'
  BY <1>a, <1>4, SpawnKept
     DEF CreateRefused, JoinBind, UndoJoin, HelpAnswered, NoEffect, Signal, Detach, DetachGroup, JoinLobby, Finish, Goto
<1>5. ASSUME NEW t \in Threads,
             \/ TerminateLobby(t) \/ TerminateRunning(t) \/ EnterRequest(t) \/ EnterHelp(t)
             \/ EnterSetting(t) \/ EnterStart(t) \/ LeaveLobby(t) \/ LeaveRunning(t)
             \/ EnterInterrupt(t)
      PROVE  SpawnInv'
  <2>1. UNCHANGED <<nextMid, phase>>
    BY <1>5 DEF TerminateLobby, TerminateRunning, EnterRequest, EnterHelp, EnterSetting,
                EnterStart, LeaveLobby, LeaveRunning, EnterInterrupt, SendIpc, NoEffect,
                RefusedWhileRunning
  <2>2. \E l : pc' = [pc EXCEPT ![t] = l] /\ l # "spawning"
    BY <1>5 DEF TerminateLobby, TerminateRunning, EnterRequest, EnterHelp, EnterSetting,
                EnterStart, LeaveLobby, LeaveRunning, EnterInterrupt, SendIpc, NoEffect,
                RefusedWhileRunning, EndIfOver, AfterOver, Finish, Goto
  <2> QED
    BY <1>a, <2>1, <2>2, SpawnKept
<1>6. ASSUME NEW m \in Mids,
             (\E op \in TimerKinds : TimerFire(m, op)) \/ TimerEnter(m) \/ Schedule(m)
      PROVE  SpawnInv'
  BY <1>a, <1>6, SpawnKept DEF TimerFire, TimerEnter, Schedule, Enter, SendIpc, NoEffect, Finish, Goto
<1>7. ASSUME NEW p \in Procs, PushStart(p) \/ PushGameOver(p)
      PROVE  SpawnInv'
  BY <1>a, <1>7, SpawnKept DEF PushStart, PushGameOver
<1>8. ASSUME NEW p \in Procs, Reply(p) \/ Eof(p)
      PROVE  SpawnInv'
  <2>1. /\ UNCHANGED nextMid
        /\ \/ UNCHANGED phase
           \/ \E m : phase[m] = "lobby" /\ phase' = [phase EXCEPT ![m] = "running"]
    BY <1>8 DEF Reply, Eof, NoEffect, LobbyReply, RunningReply
  <2>2. \E l : pc' = [pc EXCEPT ![p] = l] /\ l # "spawning"
    BY <1>8 DEF Reply, Eof, NoEffect, LobbyReply, RunningReply, EndIfOver, AfterOver, Finish, Goto
  <2> QED
    BY <1>a, <2>1, <2>2, SpawnKept
<1>9. CASE WorkerProcess \/ (\E m \in Mids : ChildCrash(m) \/ ChildExit(m)) \/ UNCHANGED vars
  BY <1>9, SpawnKept DEF WorkerProcess, ChildCrash, ChildExit, vars
<1> QED
  BY <1>1, <1>2, <1>3, <1>4, <1>5, <1>6, <1>7, <1>8, <1>9
     DEF Next, NextRequest, NextTimer, NextIpc, Proceed, TakeLock

LEMMA TInvStep == TInv /\ [Next]_vars => TInv'
BY ThreadsStep, DirectoryStep, MatchesStep, SpawnStep DEF TInv, TypeOK

\* Type correctness: every variable keeps its type.
THEOREM TypeCorrect == Spec => []TypeOK
<1>1. Init => TInv
  BY InitTInv
<1>2. TInv /\ [Next]_vars => TInv'
  BY TInvStep
<1>3. TInv => TypeOK
  BY DEF TInv
<1> QED
  BY <1>1, <1>2, <1>3, PTL DEF Spec


-----------------------------------------------------------------------------
(* A step moves one thread, and out of "ipc" only by the end of its request.  *)

ThreadMoves(p) ==
    /\ pc[p] = "ipc" => Reply(p) \/ Eof(p)
    /\ \E l, r : pc' = [pc EXCEPT ![p] = l] /\ task' = [task EXCEPT ![p] = r]

LEMMA GotoMoves ==
  ASSUME ThreadsOK, NEW p \in Procs, NEW l, Goto(p, l),
         pc[p] = "ipc" => Reply(p) \/ Eof(p)
  PROVE  ThreadMoves(p)
<1>1. task' = [task EXCEPT ![p] = task[p]]
  BY DEF Goto, ThreadsOK
<1> QED
  BY <1>1 DEF Goto, ThreadMoves

LEMMA SetMoves ==
  ASSUME NEW p, NEW l, NEW r, pc[p] = "ipc" => Reply(p) \/ Eof(p),
         pc' = [pc EXCEPT ![p] = l], task' = [task EXCEPT ![p] = r]
  PROVE  ThreadMoves(p)
BY DEF ThreadMoves

LEMMA FinishMoves ==
  ASSUME NEW p, Finish(p), pc[p] = "ipc" => Reply(p) \/ Eof(p)
  PROVE  ThreadMoves(p)
BY SetMoves DEF Finish

LEMMA AfterOverMoves ==
  ASSUME ThreadsOK, NEW p \in Procs, AfterOver(p), pc[p] = "ipc" => Reply(p) \/ Eof(p)
  PROVE  ThreadMoves(p)
BY GotoMoves DEF AfterOver

LEMMA IssueMoves ==
  ASSUME NEW t \in Threads, NEW op, NEW u, NEW g, NEW m, NEW l \in {"found", "create"},
         Issue(t, op, u, g, m, l)
  PROVE  ThreadMoves(t)
BY SetMoves DEF Issue

LEMMA OneThreadMoves ==
  ASSUME TypeOK, [Next]_vars
  PROVE  UNCHANGED <<pc, task>> \/ \E p \in Procs : ThreadMoves(p)
<1> USE DEF TypeOK
<1>a. Threads \subseteq Procs /\ Mids \subseteq Procs
  BY DEF Procs
<1>1. ASSUME NEW t \in Threads,
             \/ \E u \in Users, g \in Groups \cup {NoGroup} : NewGame(t, u, g)
             \/ \E u \in Users, op \in RequestKinds : ByUser(t, u, op)
             \/ \E u \in Users : JoinGame(t, u)
             \/ TerminateGame(t)
      PROVE  ThreadMoves(t)
  BY <1>1, IssueMoves DEF NewGame, ByUser, JoinGame, TerminateGame
<1>2. ASSUME NEW t \in Threads, CreateRefused(t) \/ BeginCreate(t) \/ CreateFails(t)
      PROVE  ThreadMoves(t)
  BY <1>a, <1>2, FinishMoves, GotoMoves DEF CreateRefused, BeginCreate, CreateFails
<1>3. ASSUME NEW t \in Threads, Create(t)
      PROVE  ThreadMoves(t)
  <2>1. Finish(t) \/ \E r : /\ pc' = [pc EXCEPT ![t] = "found"]
                            /\ task' = [task EXCEPT ![t] = r]
    BY <1>3 DEF Create
  <2>2. pc[t] # "ipc"
    BY <1>3 DEF Create
  <2> QED
    BY <1>a, <2>1, <2>2, FinishMoves, SetMoves
<1>4. ASSUME NEW t \in Threads,
             JoinBind(t) \/ JoinLobby(t) \/ UndoJoin(t) \/ HelpAnswered(t) \/ Signal(t) \/ Detach(t)
      PROVE  ThreadMoves(t)
  BY <1>a, <1>4, FinishMoves, GotoMoves DEF JoinBind, JoinLobby, UndoJoin, HelpAnswered, NoEffect, Signal, Detach
<1>5. ASSUME NEW t \in Threads, DetachGroup(t)
      PROVE  ThreadMoves(t)
  <2>1. Finish(t) \/ \E r : /\ pc' = [pc EXCEPT ![t] = "create"]
                            /\ task' = [task EXCEPT ![t] = r]
    BY <1>5 DEF DetachGroup
  <2>2. pc[t] # "ipc"
    BY <1>5 DEF DetachGroup
  <2> QED
    BY <1>a, <2>1, <2>2, FinishMoves, SetMoves
<1>6. ASSUME NEW t \in Threads, TerminateLobby(t)
      PROVE  ThreadMoves(t)
  BY <1>a, <1>6, AfterOverMoves DEF TerminateLobby
<1>7. ASSUME NEW t \in Threads, TerminateRunning(t)
      PROVE  ThreadMoves(t)
  <2>1. Finish(t) \/ \E r : /\ pc' = [pc EXCEPT ![t] = "detach"]
                            /\ task' = [task EXCEPT ![t] = r]
    BY <1>7 DEF TerminateRunning
  <2>2. pc[t] # "ipc"
    BY <1>7 DEF TerminateRunning
  <2> QED
    BY <1>a, <2>1, <2>2, FinishMoves, SetMoves
<1>8. ASSUME NEW t \in Threads,
             EnterRequest(t) \/ EnterHelp(t) \/ EnterSetting(t) \/ EnterStart(t)
      PROVE  ThreadMoves(t)
  BY <1>a, <1>8, FinishMoves, GotoMoves, AfterOverMoves
     DEF EnterRequest, EnterHelp, EnterSetting, EnterStart, Enter, SendIpc, NoEffect,
         RefusedWhileRunning, EndIfOver
<1>9. ASSUME NEW t \in Threads, LeaveLobby(t) \/ LeaveRunning(t) \/ EnterInterrupt(t)
      PROVE  ThreadMoves(t)
  BY <1>a, <1>9, FinishMoves, GotoMoves, AfterOverMoves
     DEF LeaveLobby, LeaveRunning, EnterInterrupt, Enter, NoEffect, RefusedWhileRunning, EndIfOver
<1>10. ASSUME NEW m \in Mids, NEW op \in TimerKinds, TimerFire(m, op)
       PROVE  ThreadMoves(m)
  BY <1>10, SetMoves DEF TimerFire
<1>11. ASSUME NEW m \in Mids, TimerEnter(m) \/ Schedule(m)
       PROVE  ThreadMoves(m)
  BY <1>a, <1>11, FinishMoves, GotoMoves DEF TimerEnter, Schedule, Enter, SendIpc, NoEffect
<1>12. ASSUME NEW p \in Procs, Reply(p) \/ Eof(p)
       PROVE  ThreadMoves(p)
  BY <1>12, FinishMoves, AfterOverMoves
     DEF Reply, Eof, NoEffect, LobbyReply, RunningReply, EndIfOver
<1>13. CASE \/ \E p \in Procs : PushStart(p) \/ PushGameOver(p)
            \/ WorkerProcess
            \/ \E m \in Mids : ChildCrash(m) \/ ChildExit(m)
            \/ UNCHANGED vars
  BY <1>13 DEF PushStart, PushGameOver, WorkerProcess, ChildCrash, ChildExit, vars
<1> QED
  BY <1>a, <1>1, <1>2, <1>3, <1>4, <1>5, <1>6, <1>7, <1>8, <1>9, <1>10, <1>11, <1>12, <1>13
     DEF Next, NextRequest, NextTimer, NextIpc, Proceed, TakeLock

-----------------------------------------------------------------------------
(* The life of a match.                                                      *)

Published(m) == state[m] = "O" /\ child[m] # "up"

\* A request in flight that can bring about the end of match m.
Taking(p, m) == pc[p] = "ipc" /\ task[p].match = m /\ TakesFrames(p)

\* Lifecycle, strengthened: a phase that is over but not published yet is in the
\* hands of the request that ended it, which still holds data_.
LifeInv ==
    \A m \in Mids :
       /\ state[m] = "N" <=> phase[m] # "running"
       /\ over[m] => phase[m] = "running"
       /\ state[m] = "O" => over[m]
       /\ over[m] => Published(m) \/ \E p \in Procs : Taking(p, m)

\* What a step may do to match m.
Kept(m) ==
    /\ phase'[m] = phase[m] /\ over'[m] = over[m] /\ state'[m] = state[m]
    /\ child[m] # "up" => child'[m] # "up"

Born(m) ==
    phase[m] = "none" /\ phase'[m] = "lobby" /\ over'[m] = over[m] /\ state'[m] = state[m]

Started(m) ==
    phase[m] = "lobby" /\ phase'[m] = "running" /\ over'[m] = over[m] /\ state'[m] = "S"

Decided(m) ==
    /\ phase[m] = "running" /\ phase'[m] = "running" /\ state'[m] = state[m]
    /\ ~over[m] /\ over'[m]
    /\ UNCHANGED <<pc, task>> /\ \E p \in Procs : Taking(p, m)

Ended(m) ==
    /\ phase[m] = "running" /\ phase'[m] = "running"
    /\ over'[m] /\ state'[m] = "O" /\ child'[m] # "up"

Moves(m) == Kept(m) \/ Born(m) \/ Started(m) \/ Decided(m) \/ Ended(m)

LEMMA QuietMoves ==
  ASSUME MatchesOK, UNCHANGED <<phase, over, state>>,
         \/ UNCHANGED child
         \/ \E n : Cancel(n)
         \/ \E n : child' = [child EXCEPT ![n] = "dead"],
         NEW m \in Mids
  PROVE  Moves(m)
BY DEF MatchesOK, Cancel, Moves, Kept

\* The in-lock tail of a handler of the running match n.
LEMMA EndMoves ==
  ASSUME MatchesOK, UNCHANGED phase, NEW n \in Mids, phase[n] = "running",
         over' = over \/ over' = [over EXCEPT ![n] = TRUE],
         \/ over'[n] /\ \E extra : CleanupRunning(n, extra)
         \/ ~over'[n] /\ UNCHANGED <<state, child>>
  PROVE  /\ over'[n] => Ended(n)
         /\ \A m \in Mids : Moves(m)
<1>1. \A m \in Mids \ {n} : over'[m] = over[m]
  BY DEF MatchesOK
<1>2. CASE over'[n] /\ \E extra : CleanupRunning(n, extra)
  BY <1>1, <1>2 DEF MatchesOK, CleanupRunning, Cancel, Moves, Kept, Ended
<1>3. CASE ~over'[n] /\ UNCHANGED <<state, child>>
  <2>1. UNCHANGED over
    BY <1>3 DEF MatchesOK
  <2> QED
    BY <1>3, <2>1 DEF Moves, Kept
<1> QED
  BY <1>2, <1>3


LEMMA RunningReplyMoves ==
  ASSUME TypeOK, TaskInv, NEW p \in Procs, pc[p] = "ipc", UNCHANGED phase,
         phase[task[p].match] = "running",
         over' = over \/ over' = [over EXCEPT ![task[p].match] = TRUE],
         RunningReply(p)
  PROVE  /\ over'[task[p].match] => Ended(task[p].match)
         /\ \A m \in Mids : Moves(m)
<1>1. task[p].match \in Mids
  BY DEF TaskInv, HoldsMatch
<1>2. over'[task[p].match] \in BOOLEAN
  BY <1>1 DEF TypeOK, MatchesOK
<1>3. \/ over'[task[p].match] /\ \E extra : CleanupRunning(task[p].match, extra)
      \/ ~over'[task[p].match] /\ UNCHANGED <<state, child>>
  BY <1>2 DEF RunningReply, EndIfOver
<1> QED
  BY <1>1, <1>3, EndMoves DEF TypeOK

LEMMA MatchMoves ==
  ASSUME TInv, [Next]_vars, NEW m \in Mids
  PROVE  Moves(m)
<1> USE DEF TInv, TypeOK, matches
<1>a. MatchesOK /\ Threads \subseteq Procs
  BY DEF Procs
<1>1. ASSUME NEW t \in Threads, Create(t)
      PROVE  Moves(m)
  <2>1. nextMid \in Mids /\ phase[nextMid] = "none"
    BY <1>1 DEF Create, SpawnInv, MutexHeld
  <2> QED
    BY <1>1, <2>1 DEF Create, MatchesOK, Moves, Kept, Born
<1>2. ASSUME NEW t \in Threads, TerminateRunning(t)
      PROVE  Moves(m)
  <2> DEFINE n == task[t].match
  <2>1. n \in Mids /\ phase[n] = "running" /\ UNCHANGED phase
    BY <1>2, <1>a DEF TerminateRunning, TaskInv, HoldsMatch
  <2>2. over'[n] \in BOOLEAN /\ (over' = over \/ over' = [over EXCEPT ![n] = TRUE])
    BY <1>2, <2>1 DEF TerminateRunning, MatchesOK
  <2>3. \/ over'[n] /\ \E extra : CleanupRunning(n, extra)
        \/ ~over'[n] /\ UNCHANGED <<state, child>>
    BY <1>2, <2>2 DEF TerminateRunning
  <2> QED
    BY <2>1, <2>2, <2>3, EndMoves
<1>3. ASSUME NEW t \in Threads, EnterRequest(t) \/ EnterInterrupt(t) \/ LeaveRunning(t)
      PROVE  Moves(m)
  <2> DEFINE n == task[t].match
  <2>1. CASE UNCHANGED <<phase, over, state, child>>
    BY <2>1, QuietMoves
  <2>2. CASE ~UNCHANGED <<phase, over, state, child>>
    <3>1. n \in Mids
      BY <1>3, <1>a DEF EnterRequest, EnterInterrupt, LeaveRunning, Enter, TaskInv, HoldsMatch
    <3>2. /\ phase[n] = "running" /\ UNCHANGED phase
          /\ over' = over \/ over' = [over EXCEPT ![n] = TRUE]
      BY <1>3, <2>2 DEF EnterRequest, EnterInterrupt, LeaveRunning, SendIpc, NoEffect,
                        RefusedWhileRunning
    <3>3. over'[n] \in BOOLEAN
      BY <3>1, <3>2 DEF MatchesOK
    <3>4. \/ over'[n] /\ \E extra : CleanupRunning(n, extra)
          \/ UNCHANGED over /\ ~over'[n] /\ UNCHANGED <<state, child>>
          \/ UNCHANGED <<over, state, child>>
      BY <1>3, <2>2, <3>1, <3>3
         DEF EnterRequest, EnterInterrupt, LeaveRunning, SendIpc, NoEffect,
             RefusedWhileRunning, EndIfOver, MatchesOK
    <3> QED
      BY <2>2, <3>1, <3>2, <3>4, EndMoves
  <2> QED
    BY <2>1, <2>2
<1>4. ASSUME NEW p \in Procs, PushStart(p)
      PROVE  Moves(m)
  BY <1>4 DEF PushStart, MatchesOK, Moves, Kept, Started
<1>5. ASSUME NEW p \in Procs, PushGameOver(p)
      PROVE  Moves(m)
  BY <1>5 DEF PushGameOver, MatchesOK, Moves, Kept, Decided, Taking
<1>6. ASSUME NEW p \in Procs, Reply(p) \/ Eof(p)
      PROVE  Moves(m)
  <2> DEFINE n == task[p].match
  <2>1. CASE UNCHANGED <<phase, over, state, child>>
    BY <2>1, QuietMoves
  <2>2. CASE /\ phase[n] = "lobby" /\ phase' = [phase EXCEPT ![n] = "running"]
             /\ state' = [state EXCEPT ![n] = "S"]
             /\ UNCHANGED <<over, child>>
    BY <2>2 DEF MatchesOK, Moves, Kept, Started
  <2>3. CASE /\ phase[n] = "running" /\ UNCHANGED phase /\ RunningReply(p)
             /\ over' = over \/ over' = [over EXCEPT ![n] = TRUE]
    BY <1>6, <2>3, RunningReplyMoves DEF Reply, Eof
  <2>4. CASE Reply(p)
    <3>1. \/ NoEffect(p) \/ \E accepted : LobbyReply(p, accepted)
          \/ /\ phase[n] = "lobby" /\ phase' = [phase EXCEPT ![n] = "running"]
             /\ state' = [state EXCEPT ![n] = "S"]
             /\ UNCHANGED <<over, child>>
          \/ phase[n] = "running" /\ UNCHANGED over /\ RunningReply(p)
      BY <2>4 DEF Reply
    <3> QED
      BY <2>1, <2>2, <2>3, <3>1 DEF NoEffect, LobbyReply, RunningReply
  <2>5. CASE Eof(p)
    <3>1. \/ NoEffect(p) \/ \E accepted : LobbyReply(p, accepted)
          \/ /\ phase[n] = "running" /\ over' = [over EXCEPT ![n] = TRUE]
             /\ RunningReply(p)
          \/ phase[n] = "running" /\ UNCHANGED over /\ RunningReply(p)
      BY <2>5 DEF Eof
    <3> QED
      BY <2>1, <2>3, <3>1 DEF NoEffect, LobbyReply, RunningReply
  <2> QED
    BY <1>6, <2>4, <2>5
<1>7. CASE \/ \E t \in Threads : Signal(t)
           \/ \E n \in Mids : ChildCrash(n) \/ ChildExit(n)
  BY <1>7, QuietMoves DEF Signal, ChildCrash, ChildExit
<1>8. CASE UNCHANGED <<phase, over, state, child>>
  BY <1>8, QuietMoves
<1> QED
  BY <1>1, <1>2, <1>3, <1>4, <1>5, <1>6, <1>7, <1>8
     DEF Next, NextRequest, NextTimer, NextIpc, Proceed, TakeLock, NewGame, ByUser, JoinGame,
         TerminateGame, Issue, CreateRefused, BeginCreate, CreateFails, JoinBind, JoinLobby,
         UndoJoin, HelpAnswered, TerminateLobby, Detach, DetachGroup, EnterHelp, EnterSetting, EnterStart,
         LeaveLobby, SendIpc, NoEffect, TimerFire, TimerEnter, Schedule, WorkerProcess, vars

\* A request that can end its match publishes the end before it leaves data_.
LEMMA TakingEnds ==
  ASSUME TInv, LifeInv, NEW p \in Procs, NEW m \in Mids, Taking(p, m), over[m],
         Reply(p) \/ Eof(p)
  PROVE  Ended(m)
<1>1. phase[m] = "running" /\ m = task[p].match
  BY DEF LifeInv, Taking
<1>2. task[p].op \notin {"help", "alert"}
  BY DEF Taking, TakesFrames
<1>3. /\ RunningReply(p)
      /\ over' = over \/ over' = [over EXCEPT ![m] = TRUE]
  <2>1. CASE Reply(p)
    BY <1>1, <1>2, <2>1 DEF Reply
  <2>2. CASE Eof(p)
    BY <1>1, <1>2, <2>2 DEF Eof
  <2> QED
    BY <2>1, <2>2
<1>4. over'[m] /\ UNCHANGED phase
  BY <1>3 DEF TInv, TypeOK, MatchesOK, RunningReply
<1> QED
  BY <1>1, <1>3, <1>4, RunningReplyMoves DEF TInv, Taking

LEMMA LifeStep ==
  ASSUME TInv, LifeInv, [Next]_vars
  PROVE  LifeInv'
<1> SUFFICES ASSUME NEW m \in Mids
             PROVE  /\ (state[m] = "N" <=> phase[m] # "running")'
                    /\ (over[m] => phase[m] = "running")'
                    /\ (state[m] = "O" => over[m])'
                    /\ (over[m] => Published(m) \/ \E p \in Procs : Taking(p, m))'
  BY DEF LifeInv
<1>1. Moves(m)
  BY MatchMoves
<1>2. CASE Kept(m)
  <2>1. ASSUME over'[m], NEW p \in Procs, Taking(p, m)
        PROVE  Published(m)' \/ Taking(p, m)'
    <3>1. CASE Reply(p) \/ Eof(p)
      BY <1>2, <2>1, <3>1, TakingEnds DEF Kept, Ended, Published
    <3>2. CASE pc'[p] = pc[p] /\ task'[p] = task[p]
      BY <1>2, <2>1, <3>2 DEF Kept, Taking, TakesFrames
    <3>3. \/ Reply(p) \/ Eof(p)
          \/ pc'[p] = pc[p] /\ task'[p] = task[p]
      BY <2>1, OneThreadMoves DEF TInv, TypeOK, ThreadsOK, ThreadMoves, Taking
    <3> QED
      BY <3>1, <3>2, <3>3
  <2> QED
    BY <1>2, <2>1 DEF Kept, LifeInv, Published
<1>3. CASE Born(m)
  BY <1>3 DEF Born, LifeInv
<1>4. CASE Started(m)
  BY <1>4 DEF Started, LifeInv
<1>5. CASE Decided(m)
  <2>1. PICK p \in Procs : Taking(p, m)
    BY <1>5 DEF Decided
  <2>2. Taking(p, m)'
    BY <1>5, <2>1 DEF Decided, Taking, TakesFrames
  <2> QED
    BY <1>5, <2>2 DEF Decided, LifeInv
<1>6. CASE Ended(m)
  BY <1>6 DEF Ended, Published
<1> QED
  BY <1>1, <1>2, <1>3, <1>4, <1>5, <1>6 DEF Moves


\* The life of a match and its publication agree.
THEOREM LifecycleHolds == Spec => []Lifecycle
<1>1. Init => TInv /\ LifeInv
  <2>1. Init => LifeInv
    BY DEF Init, LifeInv
  <2> QED
    BY <2>1, InitTInv
<1>2. TInv /\ LifeInv /\ [Next]_vars => (TInv /\ LifeInv)'
  BY TInvStep, LifeStep
<1>3. LifeInv => Lifecycle
  BY DEF LifeInv, Lifecycle, Published, Taking, Locked
<1> QED
  BY <1>1, <1>2, <1>3, PTL DEF Spec

-----------------------------------------------------------------------------
(* Every match lives as MatchLife promises.                                  *)


Lives == [m \in Mids |-> LifeOf(m)]

Promised == [Life!Next]_(Life!vars)

LEMMA LivesType ==
  ASSUME MatchesOK, NEW m \in Mids
  PROVE  /\ LifeOf(m) = "unborn" <=> phase[m] = "none"
         /\ LifeOf(m) = "open" <=> phase[m] = "lobby"
         /\ LifeOf(m) = "playing" <=> phase[m] = "running" /\ ~over[m]
         /\ LifeOf(m) = "over" <=> phase[m] = "running" /\ over[m]
BY DEF MatchesOK, LifeOf

\* The life of one match changes, to l.
LEMMA LivesChange ==
  ASSUME MatchesOK, MatchesOK', NEW n \in Mids, NEW l, LifeOf(n)' = l,
         \A m \in Mids \ {n} : phase'[m] = phase[m] /\ over'[m] = over[m]
  PROVE  Lives' = [Lives EXCEPT ![n] = l]
<1>1. \A m \in Mids \ {n} : LifeOf(m)' = LifeOf(m)
  BY DEF LifeOf
<1> QED
  BY <1>1 DEF Lives

LEMMA StutterPromised ==
  ASSUME UNCHANGED <<phase, over, users, left>>
  PROVE  Promised
<1>1. Lives' = Lives
  BY DEF Lives, LifeOf
<1> QED
  BY <1>1 DEF Promised, Life!vars, Lives

LEMMA EnrolPromised ==
  ASSUME MatchesOK, NEW n \in Mids, phase[n] = "lobby", UNCHANGED <<phase, over, left>>,
         NEW S \in SUBSET Users, users' = [users EXCEPT ![n] = S],
         S \subseteq users[n] \/ \E u \in Users : S = users[n] \cup {u}
  PROVE  Promised
<1>1. Lives' = Lives
  BY DEF Lives, LifeOf
<1>2. Lives[n] = "open"
  BY LivesType DEF Lives
<1>3. Life!Enrol(n)
  BY <1>1, <1>2 DEF Life!Enrol, Lives
<1> QED
  BY <1>3 DEF Promised, Life!Next

LEMMA BeginPromised ==
  ASSUME MatchesOK, MatchesOK', NEW n \in Mids, phase[n] = "lobby", ~over[n],
         phase' = [phase EXCEPT ![n] = "running"], UNCHANGED <<over, users, left>>
  PROVE  Promised
<1>1. Lives[n] = "open" /\ LifeOf(n)' = "playing"
  BY LivesType DEF Lives, LifeOf, MatchesOK
<1>2. Lives' = [Lives EXCEPT ![n] = "playing"]
  BY <1>1, LivesChange DEF MatchesOK
<1>3. Life!Begin(n)
  BY <1>1, <1>2 DEF Life!Begin, Lives
<1> QED
  BY <1>3 DEF Promised, Life!Next

LEMMA FinishPromised ==
  ASSUME MatchesOK, MatchesOK', NEW n \in Mids, phase[n] = "running",
         over' = over \/ over' = [over EXCEPT ![n] = TRUE],
         UNCHANGED <<phase, users, left>>
  PROVE  Promised
<1>1. CASE over' = over
  BY <1>1, StutterPromised
<1>2. CASE over' = [over EXCEPT ![n] = TRUE] /\ over[n]
  <2>1. over' = over
    BY <1>2 DEF MatchesOK
  <2> QED
    BY <2>1, StutterPromised
<1>3. CASE over' = [over EXCEPT ![n] = TRUE] /\ ~over[n]
  <2>1. Lives[n] = "playing" /\ LifeOf(n)' = "over"
    BY <1>3, LivesType DEF Lives, LifeOf, MatchesOK
  <2>2. Lives' = [Lives EXCEPT ![n] = "over"]
    BY <1>3, <2>1, LivesChange DEF MatchesOK
  <2>3. Life!Finish(n)
    BY <2>1, <2>2 DEF Life!Finish, Lives
  <2> QED
    BY <2>3 DEF Promised, Life!Next
<1> QED
  BY <1>1, <1>2, <1>3


LEMMA QuitPromised ==
  ASSUME MatchesOK, MatchesOK', NEW n \in Mids, phase[n] = "running", ~over[n],
         NEW u \in users[n] \ left[n], left' = [left EXCEPT ![n] = left[n] \cup {u}],
         users[n] \subseteq left'[n] => over' = [over EXCEPT ![n] = TRUE],
         ~(users[n] \subseteq left'[n]) => over' = over,
         UNCHANGED <<phase, users>>
  PROVE  Promised
<1>1. Lives[n] = "playing"
  BY LivesType DEF Lives
<1>2. CASE users[n] \subseteq left'[n]
  <2>1. over'[n] /\ LifeOf(n)' = "over"
    BY <1>2 DEF LifeOf, MatchesOK
  <2>2. Lives' = [Lives EXCEPT ![n] = "over"]
    BY <1>2, <2>1, LivesChange DEF MatchesOK
  <2>3. Life!Quit(n)
    BY <1>1, <1>2, <2>2 DEF Life!Quit, Lives
  <2> QED
    BY <2>3 DEF Promised, Life!Next
<1>3. CASE ~(users[n] \subseteq left'[n])
  <2>1. Lives' = Lives
    BY <1>3 DEF Lives, LifeOf
  <2>2. Life!Quit(n)
    BY <1>1, <1>3, <2>1 DEF Life!Quit, Lives
  <2> QED
    BY <2>2 DEF Promised, Life!Next
<1> QED
  BY <1>2, <1>3

LEMMA PromisedStep ==
  ASSUME TInv, TInv', LifeInv, [Next]_vars
  PROVE  Promised
<1> USE DEF TInv, TypeOK, matches
<1>a. Threads \subseteq Procs
  BY DEF Procs
<1>1. ASSUME NEW t \in Threads, Create(t)
      PROVE  Promised
  <2> DEFINE n == nextMid
             u == task[t].user
  <2>1. n \in Mids /\ phase[n] = "none" /\ u \in Users
    BY <1>1, <1>a DEF Create, SpawnInv, MutexHeld, TaskInv, RequestKinds
  <2>2. Lives[n] = "unborn" /\ LifeOf(n)' = "open"
    BY <1>1, <2>1, LivesType DEF Create, Lives, LifeOf, MatchesOK
  <2>3. Lives' = [Lives EXCEPT ![n] = "open"]
    BY <1>1, <2>1, <2>2, LivesChange DEF Create, MatchesOK
  <2>4. Life!Open(n)
    BY <1>1, <2>1, <2>2, <2>3 DEF Create, Life!Open, Lives
  <2> QED
    BY <2>1, <2>4 DEF Promised, Life!Next
<1>2. ASSUME NEW t \in Threads, JoinLobby(t)
      PROVE  Promised
  <2> DEFINE n == task[t].match
             u == task[t].user
  <2>1. n \in Mids /\ u \in Users
    BY <1>2, <1>a DEF JoinLobby, TaskInv, HoldsMatch, RequestKinds
  <2>2. CASE UNCHANGED <<phase, over, users, left>>
    BY <2>2, StutterPromised
  <2>3. CASE phase[n] = "lobby" /\ users' = [users EXCEPT ![n] = users[n] \cup {u}]
    <3>1. users[n] \cup {u} \in SUBSET Users
      BY <2>1 DEF MatchesOK
    <3> QED
      BY <1>2, <2>1, <2>3, <3>1, EnrolPromised DEF JoinLobby
  <2> QED
    BY <1>2, <2>2, <2>3 DEF JoinLobby
<1>3. ASSUME NEW n \in Mids, phase[n] = "lobby", UNCHANGED <<phase, over, left>>,
             Kick(n) \/ UNCHANGED users
      PROVE  Promised
  <2>1. CASE Kick(n)
    <3> DEFINE S == users[n] \cap {host[n]}
    <3>1. S \in SUBSET Users /\ S \subseteq users[n] /\ users' = [users EXCEPT ![n] = S]
      BY <2>1 DEF Kick, MatchesOK
    <3> QED
      BY <1>3, <3>1, EnrolPromised
  <2> QED
    BY <1>3, <2>1, StutterPromised
<1>4. ASSUME NEW t \in Threads, EnterSetting(t)
      PROVE  Promised
  <2>1. CASE NoEffect(t)
    BY <2>1, StutterPromised DEF NoEffect
  <2>2. CASE ~NoEffect(t)
    BY <1>3, <1>4, <1>a, <2>2 DEF EnterSetting, Enter, TaskInv, HoldsMatch
  <2> QED
    BY <2>1, <2>2
<1>5. ASSUME NEW t \in Threads, LeaveLobby(t)
      PROVE  Promised
  <2> DEFINE n == task[t].match
             S == users[n] \ {task[t].user}
  <2>1. CASE NoEffect(t)
    BY <2>1, StutterPromised DEF NoEffect
  <2>2. CASE ~NoEffect(t)
    <3>1. /\ n \in Mids /\ phase[n] = "lobby" /\ users' = [users EXCEPT ![n] = S]
          /\ UNCHANGED <<phase, over, left>>
      BY <1>5, <1>a, <2>2 DEF LeaveLobby, Enter, TaskInv, HoldsMatch
    <3>2. S \in SUBSET Users /\ S \subseteq users[n]
      BY <3>1 DEF MatchesOK
    <3> QED
      BY <3>1, <3>2, EnrolPromised
  <2> QED
    BY <2>1, <2>2
<1>6. ASSUME NEW t \in Threads, LeaveRunning(t)
      PROVE  Promised
  <2> DEFINE n == task[t].match
             u == task[t].user
  <2>1. CASE NoEffect(t)
    BY <2>1, StutterPromised DEF NoEffect
  <2>2. CASE ~NoEffect(t)
    <3>1. /\ n \in Mids /\ phase[n] = "running" /\ ~over[n] /\ u \in users[n] \ left[n]
          /\ left' = [left EXCEPT ![n] = left[n] \cup {u}]
          /\ UNCHANGED <<phase, users>>
      BY <1>6, <1>a, <2>2 DEF LeaveRunning, Active, Enter, TaskInv, HoldsMatch
    <3>2. /\ users[n] \subseteq left'[n] => over' = [over EXCEPT ![n] = TRUE]
          /\ ~(users[n] \subseteq left'[n]) => over' = over
      BY <1>6, <2>2 DEF LeaveRunning
    <3> QED
      BY <3>1, <3>2, QuitPromised
  <2> QED
    BY <2>1, <2>2
<1>7. ASSUME NEW t \in Threads, TerminateRunning(t) \/ EnterInterrupt(t)
      PROVE  Promised
  <2> DEFINE n == task[t].match
  <2>1. n \in Mids
    BY <1>7, <1>a DEF TerminateRunning, EnterInterrupt, Enter, TaskInv, HoldsMatch
  <2>2. UNCHANGED <<phase, users, left>>
    BY <1>7 DEF TerminateRunning, EnterInterrupt, NoEffect, RefusedWhileRunning
  <2>3. over' = over \/ (phase[n] = "running" /\ over' = [over EXCEPT ![n] = TRUE])
    <3>1. CASE EnterInterrupt(t)
      <4>1. \/ NoEffect(t) \/ RefusedWhileRunning(t)
            \/ phase[n] = "running" /\ over' = [over EXCEPT ![n] = TRUE]
        BY <3>1 DEF EnterInterrupt
      <4> QED
        BY <4>1 DEF NoEffect, RefusedWhileRunning
    <3>2. CASE TerminateRunning(t)
      BY <3>2 DEF TerminateRunning
    <3> QED
      BY <1>7, <3>1, <3>2
  <2> QED
    BY <2>1, <2>2, <2>3, FinishPromised, StutterPromised
<1>8. ASSUME NEW p \in Procs, PushStart(p) \/ PushGameOver(p)
      PROVE  Promised
  <2>1. task[p].match \in Mids
    BY <1>8 DEF PushStart, PushGameOver, TaskInv, HoldsMatch
  <2>2. CASE PushStart(p)
    BY <2>1, <2>2, BeginPromised DEF PushStart, LifeInv
  <2>3. CASE PushGameOver(p)
    BY <2>1, <2>3, FinishPromised DEF PushGameOver
  <2> QED
    BY <1>8, <2>2, <2>3
<1>9. ASSUME NEW p \in Procs, Reply(p) \/ Eof(p)
      PROVE  Promised
  <2> DEFINE n == task[p].match
  <2>1. n \in Mids
    BY <1>9 DEF Reply, Eof, TaskInv, HoldsMatch
  <2>2. CASE NoEffect(p)
    BY <2>2, StutterPromised DEF NoEffect
  <2>3. CASE phase[n] = "lobby" /\ \E accepted : LobbyReply(p, accepted)
    BY <1>3, <2>1, <2>3 DEF LobbyReply
  <2>4. CASE /\ phase[n] = "lobby" /\ phase' = [phase EXCEPT ![n] = "running"]
             /\ UNCHANGED <<over, users, left>>
    BY <2>1, <2>4, BeginPromised DEF LifeInv
  <2>5. CASE /\ phase[n] = "running" /\ RunningReply(p)
             /\ over' = over \/ over' = [over EXCEPT ![n] = TRUE]
    BY <2>1, <2>5, FinishPromised DEF RunningReply
  <2>6. CASE Reply(p)
    BY <2>2, <2>3, <2>4, <2>5, <2>6 DEF Reply
  <2>7. CASE Eof(p)
    BY <2>2, <2>3, <2>5, <2>7 DEF Eof
  <2> QED
    BY <1>9, <2>6, <2>7
<1>10. CASE UNCHANGED <<phase, over, users, left>>
  BY <1>10, StutterPromised
<1> QED
  BY <1>1, <1>2, <1>4, <1>5, <1>6, <1>7, <1>8, <1>9, <1>10
     DEF Next, NextRequest, NextTimer, NextIpc, Proceed, TakeLock, NewGame, ByUser, JoinGame,
         TerminateGame, Issue, CreateRefused, BeginCreate, CreateFails, JoinBind, UndoJoin, HelpAnswered,
         Signal, TerminateLobby, Detach, DetachGroup, EnterRequest, EnterHelp, EnterStart,
         SendIpc, NoEffect, RefusedWhileRunning, TimerFire, TimerEnter, Schedule,
         WorkerProcess, ChildCrash, ChildExit, vars

\* MatchManager implements MatchLife, whatever the commands and their interleaving.
THEOREM PromiseKept == Spec => LivesAsPromised
<1>1. Init => Life!Init
  BY DEF Init, Life!Init, LifeOf
<1>2. TInv /\ TInv' /\ LifeInv /\ [Next]_vars => [Life!Next]_(Life!vars)
  BY PromisedStep DEF Promised
<1>3. Spec => [](TInv /\ LifeInv)
  <2>1. Init => TInv /\ LifeInv
    BY InitTInv DEF Init, LifeInv
  <2>2. TInv /\ LifeInv /\ [Next]_vars => (TInv /\ LifeInv)'
    BY TInvStep, LifeStep
  <2> QED
    BY <2>1, <2>2, PTL DEF Spec
<1> QED
  BY <1>1, <1>2, <1>3, PTL DEF Spec, LivesAsPromised, Life!Spec
=============================================================================
