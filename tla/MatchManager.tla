---------------------------- MODULE MatchManager ----------------------------
(***************************************************************************)
(* The directory of matches (bot_core/match/match_manager.cc) and the life  *)
(* of each match in it (bot_core/match/match.cc), as the threads of the bot *)
(* see them: request threads that run user and administrator commands, one  *)
(* timer thread per match, and the directory's unbind worker.               *)
(*                                                                          *)
(* The model is at the grain of the two locks.  A step is what a thread     *)
(* does inside one critical section of MatchManager::mutex_ or of           *)
(* Match::data_; data_ is also held while a request to the game subprocess  *)
(* is in flight, and those sections are split into Enter / Push / Reply     *)
(* steps so that other threads run in between.  So is the lobby's help,     *)
(* which asks the configuration process of the game while it holds data_.   *)
(* The loop that unbinds the users of a match is one step: each user is     *)
(* unbound once and the iterations touch different entries.                 *)
(*                                                                          *)
(* Abstracted: texts, options and scores, which player is eliminated or     *)
(* hooked (a choice here, modelled in GameSession), and the schedule of    *)
(* the timer (it may fire at any moment of a running match).                *)
(***************************************************************************)
EXTENDS Naturals, Sequences, FiniteSets

CONSTANTS Users,      \* user ids
          Groups,     \* group ids
          Threads,    \* threads of the host that deliver messages to the bot
          MaxMatch,   \* bound on the number of matches ever created
          MaxPlayer,  \* player limit of the game, 0 for no limit
          Kinds,      \* the commands and timer events the environment issues
          NoUser, NoGroup

Mids == 1..MaxMatch
NoMatch == 0

RequestKinds == {"new", "terminate", "join", "leave", "start", "interrupt",
                 "request", "setting", "help"}
TimerKinds == {"timeout", "alert"}

ASSUME ManagerAssumption ==
    /\ MaxMatch \in Nat
    /\ MaxPlayer \in Nat
    /\ Threads \cap Mids = {}
    /\ NoUser \notin Users
    /\ NoGroup \notin Groups
    /\ Kinds \subseteq RequestKinds \cup TimerKinds

\* The thread of the timer of match m is named m.
Procs == Threads \cup Mids

VARIABLES
    userMatch,    \* id2match_<UserID>: user -> match or NoMatch
    groupMatch,   \* id2match_<GroupID>: group -> match or NoMatch
    midMap,       \* the keys of id2match_<MatchID>
    nextMid,      \* next_mid_
    unbindQueue,  \* UnbindWorker::queue_
    phase,        \* Match::Internal::phase_, "none" before the match exists
    over,         \* MatchRunning::is_over_
    state,        \* Match::state_: "N"ot started, "S"tarted, "O"ver
    users,        \* the keys of Match::Internal::users_
    left,         \* the users whose presence_ is LEFT
    host,         \* host_uid_
    gid,          \* MatchContext::gid
    child,        \* the game subprocess: "up", "killed" (signalled), "dead"
    pc,           \* where each thread is
    task          \* what each thread is doing, and the match it holds a pointer to

directory == <<userMatch, groupMatch, midMap, nextMid>>
matches == <<phase, over, state, users, left, host, gid, child>>
vars == <<userMatch, groupMatch, midMap, nextMid, unbindQueue, phase, over,
          state, users, left, host, gid, child, pc, task>>

Task == [op : RequestKinds \cup TimerKinds \cup {"none"},
         user : Users \cup {NoUser},
         group : Groups \cup {NoGroup},
         match : Mids \cup {NoMatch}]

IdleTask == [op |-> "none", user |-> NoUser, group |-> NoGroup, match |-> NoMatch]

PCs == {"idle",        \* no request, no pointer held
        "found",       \* holds a shared_ptr to task.match, about to call it
        "signalled",   \* Terminate after its lock-free phase
        "bound",       \* Join after BindMatch(uid, self)
        "ipc",         \* holds data_, a request to the subprocess in flight
        "asking",      \* holds data_, a question to the configuration process in flight
        "undoJoin",    \* Join refused, about to UnbindMatch(uid)
        "detach",      \* data_ released with is_over, about to UnbindMatch(mid)
        "detachGroup", \* about to UnbindMatch(gid)
        "schedule",    \* timer thread about to call ScheduleUnbind
        "create",      \* about to call NewMatch
        "spawning"}    \* holds mutex_, the subprocess of the new match being set up

DirectoryOK ==
    /\ userMatch \in [Users -> Mids \cup {NoMatch}]
    /\ groupMatch \in [Groups -> Mids \cup {NoMatch}]
    /\ midMap \subseteq Mids
    /\ nextMid \in 0..MaxMatch
    /\ unbindQueue \in Seq(Mids)

MatchesOK ==
    /\ phase \in [Mids -> {"none", "lobby", "running"}]
    /\ over \in [Mids -> BOOLEAN]
    /\ state \in [Mids -> {"N", "S", "O"}]
    /\ users \in [Mids -> SUBSET Users]
    /\ left \in [Mids -> SUBSET Users]
    /\ host \in [Mids -> Users \cup {NoUser}]
    /\ gid \in [Mids -> Groups \cup {NoGroup}]
    /\ child \in [Mids -> {"up", "killed", "dead"}]

ThreadsOK ==
    /\ pc \in [Procs -> PCs]
    /\ task \in [Procs -> Task]

\* The types of the directory, of the matches in it and of the threads.
TypeOK == DirectoryOK /\ MatchesOK /\ ThreadsOK

Init ==
    /\ userMatch = [u \in Users |-> NoMatch]
    /\ groupMatch = [g \in Groups |-> NoMatch]
    /\ midMap = {}
    /\ nextMid = 0
    /\ unbindQueue = <<>>
    /\ phase = [m \in Mids |-> "none"]
    /\ over = [m \in Mids |-> FALSE]
    /\ state = [m \in Mids |-> "N"]
    /\ users = [m \in Mids |-> {}]
    /\ left = [m \in Mids |-> {}]
    /\ host = [m \in Mids |-> NoUser]
    /\ gid = [m \in Mids |-> NoGroup]
    /\ child = [m \in Mids |-> "up"]
    /\ pc = [p \in Procs |-> "idle"]
    /\ task = [p \in Procs |-> IdleTask]

-----------------------------------------------------------------------------
(* Helpers.                                                                 *)

\* data_ of match m is held: by a thread that waits for an answer of the subprocess
\* or of the configuration process.
Locked(m) == \E p \in Procs : pc[p] \in {"ipc", "asking"} /\ task[p].match = m

\* mutex_ is held over several steps: by a thread inside NewMatch.
MutexHeld == \E t \in Threads : pc[t] = "spawning"

\* Some shared_ptr to match m exists, so that weak_from_this().lock() succeeds.
Referenced(m) ==
    \/ \E u \in Users : userMatch[u] = m
    \/ \E g \in Groups : groupMatch[g] = m
    \/ m \in midMap
    \/ \E i \in DOMAIN unbindQueue : unbindQueue[i] = m
    \/ \E t \in Threads : task[t].match = m

\* The users still in match m: those of users_ whose presence_ is not LEFT.
Active(m) == users[m] \ left[m]

\* MatchLobby::Join's player limit.
Full(m) == MaxPlayer # 0 /\ Cardinality(users[m]) >= MaxPlayer

Goto(p, l) == pc' = [pc EXCEPT ![p] = l] /\ UNCHANGED task
Finish(p) == /\ pc' = [pc EXCEPT ![p] = "idle"]
             /\ task' = [task EXCEPT ![p] = IdleTask]

\* UnbindMatch(uid) for every uid of S, whatever match it is bound to.
UnbindUsers(S) ==
    /\ S # {} => ~MutexHeld
    /\ userMatch' = [u \in Users |-> IF u \in S THEN NoMatch ELSE userMatch[u]]

\* MatchChildClient::Cancel: SIGTERM, once.
Cancel(m) ==
    child' = [child EXCEPT ![m] = IF @ = "up" THEN "killed" ELSE @]

\* Where a thread goes when data_ is released with PhaseResult::is_over: a
\* request thread runs Match::Unbind_, a timer thread HandleGameTimeout_'s tail.
AfterOver(p) == Goto(p, IF p \in Threads THEN "detach" ELSE "schedule")

\* Match::Internal::CleanupRunning_, which also unbinds the users of `extra'.
CleanupRunning(m, extra) ==
    /\ state' = [state EXCEPT ![m] = "O"]
    /\ UnbindUsers((users[m] \ left'[m]) \cup extra)
    /\ Cancel(m)

\* Slip: the tail forgets the cleanup.
EndIfOverNoCleanup(p, m, extra) ==
    /\ UnbindUsers(extra)
    /\ IF over'[m] THEN AfterOver(p) ELSE Finish(p)
    /\ UNCHANGED <<state, child>>

\* The in-lock tail shared by the handlers of a running match.
EndIfOver(p, m, extra) ==
    IF over'[m]
    THEN CleanupRunning(m, extra) /\ AfterOver(p)
    ELSE UnbindUsers(extra) /\ Finish(p) /\ UNCHANGED <<state, child>>

\* MatchLobby::KickForConfigChange_.  It spares the host and whoever does not leave
\* on a change (leave_when_config_changed_), but that flag is true for every user:
\* nothing in the code ever clears it.
Kick(m) ==
    /\ users' = [users EXCEPT ![m] = @ \cap {host[m]}]
    /\ UnbindUsers(users[m] \ {host[m]})

-----------------------------------------------------------------------------
(* Commands reach the bot: message_handlers.cc and bot_core.cc.             *)

\* Routing a command looks the match up under mutex_.
Issue(t, op, u, g, m, l) ==
    /\ op \in Kinds
    /\ pc[t] = "idle"
    /\ ~MutexHeld
    /\ pc' = [pc EXCEPT ![t] = l]
    /\ task' = [task EXCEPT ![t] = [op |-> op, user |-> u, group |-> g, match |-> m]]
    /\ UNCHANGED <<directory, unbindQueue, matches>>

\* new_game: in a group with a match, Terminate(false) it first.
NewGame(t, u, g) ==
    LET m == IF g = NoGroup THEN NoMatch ELSE groupMatch[g]
    IN  Issue(t, "new", u, g, m, IF m = NoMatch THEN "create" ELSE "found")

\* handle_match_by_user and HandleRequest: the match the user is bound to.
ByUser(t, u, op) ==
    /\ op \in {"leave", "start", "interrupt", "request", "setting", "help"}
    /\ userMatch[u] # NoMatch
    /\ Issue(t, op, u, NoGroup, userMatch[u], "found")

\* join_public: the match of the group; join_private: a private match by its id.
JoinGame(t, u) ==
    \E m \in midMap \cup {groupMatch[g] : g \in Groups} :
       /\ m # NoMatch
       /\ gid[m] # NoGroup => groupMatch[gid[m]] = m
       /\ Issue(t, "join", u, NoGroup, m, "found")

\* interrupt_game (by group or id), ReleaseIfNoProcessingGames and ~BotCtx.
TerminateGame(t) ==
    \E m \in midMap \cup {groupMatch[g] : g \in Groups} :
       m # NoMatch /\ Issue(t, "terminate", NoUser, NoGroup, m, "found")

-----------------------------------------------------------------------------
(* MatchManager::NewMatch, one critical section of mutex_, which is held      *)
(* while the new match's subprocess is spawned and given the saved options.  *)

CanCreate(t) ==
    LET u == task[t].user
        g == task[t].group
    IN  /\ userMatch[u] = NoMatch
        /\ g # NoGroup => groupMatch[g] = NoMatch
        /\ nextMid < MaxMatch      \* the bound

CreateRefused(t) ==
    /\ pc[t] = "create" /\ ~MutexHeld
    /\ ~CanCreate(t)
    /\ Finish(t)
    /\ UNCHANGED <<directory, unbindQueue, matches>>

BeginCreate(t) ==
    /\ pc[t] = "create" /\ ~MutexHeld
    /\ CanCreate(t)
    /\ nextMid' = nextMid + 1
    /\ Goto(t, "spawning")
    /\ UNCHANGED <<userMatch, groupMatch, midMap, unbindQueue, matches>>

\* Invalid preset, the subprocess cannot be spawned or refuses the saved options.
CreateFails(t) ==
    /\ pc[t] = "spawning"
    /\ Finish(t)
    /\ UNCHANGED <<directory, unbindQueue, matches>>

Create(t) ==
    LET m == nextMid
        u == task[t].user
        g == task[t].group
    IN  /\ pc[t] = "spawning"
        /\ phase' = [phase EXCEPT ![m] = "lobby"]
        /\ users' = [users EXCEPT ![m] = {u}]
        /\ host' = [host EXCEPT ![m] = u]
        /\ gid' = [gid EXCEPT ![m] = g]
        /\ midMap' = midMap \cup {m}
        /\ userMatch' = [userMatch EXCEPT ![u] = m]
        /\ groupMatch' = IF g = NoGroup THEN groupMatch
                                        ELSE [groupMatch EXCEPT ![g] = m]
        /\ \/ Finish(t)
           \/ \* StartGame in single-user mode: GameStart right away.
              /\ "start" \in Kinds
              /\ pc' = [pc EXCEPT ![t] = "found"]
              /\ task' = [task EXCEPT ![t] = [op |-> "start", user |-> u,
                                              group |-> NoGroup, match |-> m]]
        /\ UNCHANGED <<nextMid, unbindQueue, over, state, left, child>>

-----------------------------------------------------------------------------
(* Match::Join.                                                             *)

JoinBind(t) ==
    LET u == task[t].user
        m == task[t].match
    IN  /\ pc[t] = "found" /\ task[t].op = "join" /\ ~MutexHeld
        /\ IF userMatch[u] = NoMatch
           THEN userMatch' = [userMatch EXCEPT ![u] = m] /\ Goto(t, "bound")
           ELSE UNCHANGED userMatch /\ Finish(t)
        /\ UNCHANGED <<groupMatch, midMap, nextMid, unbindQueue, matches>>

\* Slip: the phase the match was in when the command arrived is taken for the
\* phase it is in once data_ is held.
JoinLobbyUnchecked(t) ==
    LET u == task[t].user
        m == task[t].match
    IN  /\ pc[t] = "bound"
        /\ ~Locked(m)
        /\ users' = [users EXCEPT ![m] = @ \cup {u}]
        /\ Finish(t)
        /\ UNCHANGED <<directory, unbindQueue, phase, over, state, left, host, gid, child>>

JoinLobby(t) ==
    LET u == task[t].user
        m == task[t].match
        refused == phase[m] # "lobby" \/ Full(m) \/ u \in users[m]
    IN  /\ pc[t] = "bound"
        /\ ~Locked(m)
        /\ IF refused
           THEN Goto(t, "undoJoin") /\ UNCHANGED users
           ELSE users' = [users EXCEPT ![m] = @ \cup {u}] /\ Finish(t)
        /\ UNCHANGED <<directory, unbindQueue, phase, over, state, left, host, gid, child>>

UndoJoin(t) ==
    /\ pc[t] = "undoJoin"
    /\ UnbindUsers({task[t].user})
    /\ Finish(t)
    /\ UNCHANGED <<groupMatch, midMap, nextMid, unbindQueue, matches>>

-----------------------------------------------------------------------------
(* Match::Terminate.                                                        *)

\* Slip: Terminate without its lock-free phase.
SignalNothing(t) ==
    /\ pc[t] = "found" /\ task[t].op \in {"terminate", "new"}
    /\ Goto(t, "signalled")
    /\ UNCHANGED <<directory, unbindQueue, matches>>

\* Phase 1, without data_: interrupt whatever the subprocess is doing.
Signal(t) ==
    /\ pc[t] = "found" /\ task[t].op \in {"terminate", "new"}
    /\ Cancel(task[t].match)
    /\ Goto(t, "signalled")
    /\ UNCHANGED <<directory, unbindQueue, phase, over, state, users, left, host, gid>>

\* Phase 2, ExecuteTerminate(is_force); new_game does not force.
TerminateLobby(t) ==
    LET m == task[t].match
    IN  /\ pc[t] = "signalled"
        /\ ~Locked(m)
        /\ phase[m] = "lobby"
        /\ UnbindUsers(Active(m))
        /\ AfterOver(t)
        /\ UNCHANGED <<groupMatch, midMap, nextMid, unbindQueue, matches>>

TerminateRunning(t) ==
    LET m == task[t].match
        force == task[t].op = "terminate"
    IN  /\ pc[t] = "signalled"
        /\ ~Locked(m)
        /\ phase[m] = "running"
        /\ over' = IF force THEN [over EXCEPT ![m] = TRUE] ELSE over
        /\ UNCHANGED left
        /\ IF over'[m]
           THEN /\ CleanupRunning(m, {})
                /\ pc' = [pc EXCEPT ![t] = "detach"]
                \* Without force the code is ALREADY_BEGIN even for an over match:
                \* new_game gives up after the unbinding.
                /\ task' = [task EXCEPT ![t].op = "terminate"]
           ELSE Finish(t) /\ UNCHANGED <<state, child, userMatch>>
        /\ UNCHANGED <<groupMatch, midMap, nextMid, unbindQueue, phase, users, host, gid>>

-----------------------------------------------------------------------------
(* The other entry points: data_ is taken, the handler of the phase decides *)
(* at once or sends a request to the subprocess.                            *)

Enter(t, op) ==
    /\ pc[t] = "found"
    /\ task[t].op = op
    /\ ~Locked(task[t].match)

SendIpc(t) ==
    /\ Goto(t, "ipc")
    /\ UNCHANGED <<directory, unbindQueue, matches>>

NoEffect(t) ==
    /\ Finish(t)
    /\ UNCHANGED <<directory, unbindQueue, matches>>

\* A running handler that changed nothing itself: ExecuteRequest and
\* ExecuteUserInterrupt still clean up when the match is over.
RefusedWhileRunning(t) ==
    LET m == task[t].match
    IN  /\ UNCHANGED <<over, left>>
        /\ EndIfOver(t, m, {})
        /\ UNCHANGED <<groupMatch, midMap, nextMid, unbindQueue, phase, users, host, gid>>

\* MatchLobby::Request / MatchRunning::ExecuteRequest, up to the IPC.
EnterRequest(t) ==
    LET m == task[t].match
        u == task[t].user
    IN  /\ Enter(t, "request")
        /\ \/ phase[m] = "lobby" /\ u \in users[m] /\ u = host[m] /\ SendIpc(t)
           \/ phase[m] = "lobby" /\ (u \notin users[m] \/ u # host[m]) /\ NoEffect(t)
           \/ phase[m] = "running" /\ u \in Active(m) /\ ~over[m] /\ SendIpc(t)
           \* not in the match, left, over, or (a choice) eliminated
           \/ phase[m] = "running" /\ RefusedWhileRunning(t)

\* The help command is routed before the phases: a running match asks its own
\* subprocess, the lobby asks the configuration process of the game.
EnterHelp(t) ==
    /\ Enter(t, "help")
    /\ IF phase[task[t].match] = "running"
       THEN SendIpc(t)
       ELSE Goto(t, "asking") /\ UNCHANGED <<directory, unbindQueue, matches>>

\* QueryOptionInfo returns, with the text or, the process being gone, without.
HelpAnswered(t) == pc[t] = "asking" /\ NoEffect(t)

\* MatchLobby::SetBenchTo and SetFormal.
EnterSetting(t) ==
    LET m == task[t].match
    IN  /\ Enter(t, "setting")
        /\ \/ NoEffect(t)   \* running, not the host, or nothing to change
           \/ /\ phase[m] = "lobby" /\ task[t].user = host[m]
              /\ Kick(m)
              /\ Finish(t)
              /\ UNCHANGED <<groupMatch, midMap, nextMid, unbindQueue, phase, over,
                             state, left, host, gid, child>>

\* ExecuteGameStart up to SendStart.
EnterStart(t) ==
    LET m == task[t].match
    IN  /\ Enter(t, "start")
        /\ IF phase[m] = "lobby" /\ task[t].user = host[m] THEN SendIpc(t) ELSE NoEffect(t)

\* MatchLobby::Leave.
LeaveLobby(t) ==
    LET m == task[t].match
        u == task[t].user
        rest == users[m] \ {u}
    IN  /\ Enter(t, "leave")
        /\ phase[m] = "lobby"
        /\ IF u \notin users[m]
           THEN NoEffect(t)
           ELSE /\ users' = [users EXCEPT ![m] = rest]
                /\ UnbindUsers({u})
                /\ IF u = host[m] /\ rest # {}
                   THEN \E h \in rest : host' = [host EXCEPT ![m] = h]
                   ELSE UNCHANGED host
                /\ IF rest = {} THEN AfterOver(t) ELSE Finish(t)
                /\ UNCHANGED <<groupMatch, midMap, nextMid, unbindQueue, phase, over,
                               state, left, gid, child>>

\* MatchRunning::LeaveBeforeChild up to SendLeave.
LeaveRunning(t) ==
    LET m == task[t].match
        u == task[t].user
    IN  /\ Enter(t, "leave")
        /\ phase[m] = "running"
        /\ \/ NoEffect(t)   \* refused: gone, over, or neither forced nor eliminated
           \/ /\ u \in Active(m) /\ ~over[m]
              /\ left' = [left EXCEPT ![m] = @ \cup {u}]
              /\ IF users[m] \subseteq left'[m]
                 THEN /\ over' = [over EXCEPT ![m] = TRUE]
                      /\ CleanupRunning(m, {u})
                      /\ AfterOver(t)
                 ELSE /\ Goto(t, "ipc")
                      /\ UNCHANGED <<over, state, child, userMatch>>
              /\ UNCHANGED <<groupMatch, midMap, nextMid, unbindQueue, phase,
                             users, host, gid>>

\* MatchRunning::UserInterrupt; whether the last vote is in is a choice here.
EnterInterrupt(t) ==
    LET m == task[t].match
    IN  /\ Enter(t, "interrupt")
        /\ \/ phase[m] = "lobby" /\ NoEffect(t)
           \/ phase[m] = "running" /\ RefusedWhileRunning(t)
           \/ /\ phase[m] = "running" /\ task[t].user \in Active(m) /\ ~over[m]
              /\ over' = [over EXCEPT ![m] = TRUE]
              /\ UNCHANGED left
              /\ EndIfOver(t, m, {})
              /\ UNCHANGED <<groupMatch, midMap, nextMid, unbindQueue, phase,
                             users, host, gid>>

-----------------------------------------------------------------------------
(* The timer thread of match m.                                             *)

TimerFire(m, op) ==
    /\ op \in Kinds
    /\ phase[m] = "running"
    /\ Referenced(m)
    /\ pc[m] = "idle"
    /\ pc' = [pc EXCEPT ![m] = "found"]
    /\ task' = [task EXCEPT ![m] = [IdleTask EXCEPT !.op = op, !.match = m]]
    /\ UNCHANGED <<directory, unbindQueue, matches>>

\* ExecuteTimeout and ExecuteAlert up to the IPC.
TimerEnter(m) ==
    /\ Enter(m, task[m].op)
    /\ \/ NoEffect(m)   \* over, or (a choice) the game stopped this timer meanwhile
       \/ ~over[m] /\ SendIpc(m)

\* Slips: a null pointer is queued; the match is not queued.
ScheduleNull(m) ==
    /\ pc[m] = "schedule"
    /\ unbindQueue' = Append(unbindQueue, IF Referenced(m) THEN m ELSE NoMatch)
    /\ Finish(m)
    /\ UNCHANGED <<directory, matches>>

ScheduleNothing(m) ==
    /\ pc[m] = "schedule"
    /\ Finish(m)
    /\ UNCHANGED <<directory, unbindQueue, matches>>

\* The tail of HandleGameTimeout_: ScheduleUnbind if an owner is left.
Schedule(m) ==
    /\ pc[m] = "schedule"
    /\ unbindQueue' = IF Referenced(m) THEN Append(unbindQueue, m) ELSE unbindQueue
    /\ Finish(m)
    /\ UNCHANGED <<directory, matches>>

-----------------------------------------------------------------------------
(* A request to the subprocess ends: frames pushed before the result, the   *)
(* result, or end of file.                                                  *)

\* Requests whose pushed frames reach the match (the others pass kNoPush).
TakesFrames(p) ==
    \/ task[p].op \in {"start", "leave", "timeout"}
    \/ task[p].op = "request" /\ phase[task[p].match] = "running"

\* The first frame pushed by Start commits the match: EnsureRunningPhase.
PushStart(p) ==
    LET m == task[p].match
    IN  /\ pc[p] = "ipc" /\ task[p].op = "start"
        /\ child[m] # "dead"
        /\ phase[m] = "lobby"
        /\ phase' = [phase EXCEPT ![m] = "running"]
        /\ state' = [state EXCEPT ![m] = "S"]
        /\ UNCHANGED <<directory, unbindQueue, over, users, left, host, gid, child, pc, task>>

\* A GameOver frame: ApplyChildGameOverFromScores.
PushGameOver(p) ==
    LET m == task[p].match
    IN  /\ pc[p] = "ipc" /\ TakesFrames(p)
        /\ child[m] # "dead"
        /\ phase[m] = "running" /\ ~over[m]
        /\ over' = [over EXCEPT ![m] = TRUE]
        /\ UNCHANGED <<directory, unbindQueue, phase, state, users, left, host, gid,
                       child, pc, task>>

\* The users ExecuteLeave unbinds besides those CleanupRunning_ does.
Leaver(p) == IF task[p].op = "leave" THEN {task[p].user} ELSE {}

\* The end of a request that leaves the match in its lobby.
LobbyReply(p, accepted) ==
    LET m == task[p].match
    IN  /\ IF accepted THEN Kick(m) ELSE UNCHANGED <<users, userMatch>>
        /\ Finish(p)
        /\ UNCHANGED <<groupMatch, midMap, nextMid, unbindQueue, phase, over, state,
                       left, host, gid, child>>

\* The end of a request in a running match, with over' already given.
RunningReply(p) ==
    LET m == task[p].match
    IN  /\ UNCHANGED left
        /\ EndIfOver(p, m, Leaver(p))
        /\ UNCHANGED <<groupMatch, midMap, nextMid, unbindQueue, phase, users, host, gid>>

Reply(p) ==
    LET m == task[p].match
        op == task[p].op
    IN  /\ pc[p] = "ipc"
        /\ child[m] # "dead"
        /\ \/ op \in {"help", "alert"} /\ NoEffect(p)
           \/ /\ op = "request" /\ phase[m] = "lobby"
              /\ \E accepted \in BOOLEAN : LobbyReply(p, accepted)
           \/ \* the game refuses the options: back to the lobby
              op = "start" /\ phase[m] = "lobby" /\ LobbyReply(p, FALSE)
           \/ \* STAGE_OK with no frame before it
              /\ op = "start" /\ phase[m] = "lobby"
              /\ phase' = [phase EXCEPT ![m] = "running"]
              /\ state' = [state EXCEPT ![m] = "S"]
              /\ Finish(p)
              /\ UNCHANGED <<directory, unbindQueue, over, users, left, host, gid, child>>
           \/ /\ op \in {"start", "request", "leave", "timeout"} /\ phase[m] = "running"
              /\ UNCHANGED over
              /\ RunningReply(p)

\* Write or Read fails: the subprocess is gone.
Eof(p) ==
    LET m == task[p].match
        op == task[p].op
    IN  /\ pc[p] = "ipc"
        /\ child[m] = "dead"
        /\ \/ op \in {"help", "alert"} /\ NoEffect(p)
           \/ op \in {"request", "start"} /\ phase[m] = "lobby" /\ LobbyReply(p, FALSE)
           \/ \* HandleChildEof
              /\ op \in {"request", "start", "leave"} /\ phase[m] = "running"
              /\ over' = [over EXCEPT ![m] = TRUE]
              /\ RunningReply(p)
           \/ \* ExecuteTimeout ignores the result of SendTimeout
              /\ op = "timeout" /\ phase[m] = "running"
              /\ UNCHANGED over
              /\ RunningReply(p)

-----------------------------------------------------------------------------
(* Match::Unbind_, outside data_: each entry is erased whatever it holds.   *)

Detach(t) ==
    LET m == task[t].match
    IN  /\ pc[t] = "detach" /\ ~MutexHeld
        /\ midMap' = midMap \ {m}
        /\ Goto(t, "detachGroup")
        /\ UNCHANGED <<userMatch, groupMatch, nextMid, unbindQueue, matches>>

DetachGroup(t) ==
    LET g == gid[task[t].match]
    IN  /\ pc[t] = "detachGroup" /\ ~MutexHeld
        /\ groupMatch' = IF g = NoGroup THEN groupMatch
                                        ELSE [groupMatch EXCEPT ![g] = NoMatch]
        /\ IF task[t].op = "new"   \* new_game goes on to NewMatch
           THEN /\ pc' = [pc EXCEPT ![t] = "create"]
                /\ task' = [task EXCEPT ![t].match = NoMatch]
           ELSE Finish(t)
        /\ UNCHANGED <<userMatch, midMap, nextMid, unbindQueue, matches>>

\* Slip: the worker erases the group's entry whatever it holds.
WorkerProcessBlind ==
    /\ unbindQueue # <<>> /\ ~MutexHeld
    /\ LET m == Head(unbindQueue)
           g == gid[m]
       IN  /\ midMap' = midMap \ {m}
           /\ groupMatch' = IF g # NoGroup THEN [groupMatch EXCEPT ![g] = NoMatch] ELSE groupMatch
    /\ unbindQueue' = Tail(unbindQueue)
    /\ UNCHANGED <<userMatch, nextMid, matches, pc, task>>

\* UnbindWorker::Process_: only entries that still hold this match.
WorkerProcess ==
    /\ unbindQueue # <<>> /\ ~MutexHeld
    /\ LET m == Head(unbindQueue)
           g == gid[m]
       IN  /\ midMap' = midMap \ {m}
           /\ groupMatch' = IF g # NoGroup /\ groupMatch[g] = m
                            THEN [groupMatch EXCEPT ![g] = NoMatch]
                            ELSE groupMatch
    /\ unbindQueue' = Tail(unbindQueue)
    /\ UNCHANGED <<userMatch, nextMid, matches, pc, task>>

-----------------------------------------------------------------------------
(* The subprocess dies: on its own, or on the signal of Cancel.             *)

ChildCrash(m) ==
    /\ phase[m] # "none" /\ child[m] = "up"
    /\ child' = [child EXCEPT ![m] = "dead"]
    /\ UNCHANGED <<directory, unbindQueue, phase, over, state, users, left, host, gid, pc, task>>

ChildExit(m) ==
    /\ child[m] = "killed"
    /\ child' = [child EXCEPT ![m] = "dead"]
    /\ UNCHANGED <<directory, unbindQueue, phase, over, state, users, left, host, gid, pc, task>>

-----------------------------------------------------------------------------
\* The steps a request thread takes on its own once a command is issued ...
Proceed(t) ==
    \/ CreateRefused(t) \/ BeginCreate(t) \/ CreateFails(t) \/ Create(t)
    \/ JoinBind(t) \/ UndoJoin(t)
    \/ Signal(t)
    \/ HelpAnswered(t)
    \/ Detach(t) \/ DetachGroup(t)

\* ... and those for which it needs data_.
TakeLock(t) ==
    \/ JoinLobby(t)
    \/ TerminateLobby(t) \/ TerminateRunning(t)
    \/ EnterRequest(t) \/ EnterHelp(t) \/ EnterSetting(t) \/ EnterStart(t)
    \/ LeaveLobby(t) \/ LeaveRunning(t)
    \/ EnterInterrupt(t)

NextRequest(t) ==
    \/ \E u \in Users, g \in Groups \cup {NoGroup} : NewGame(t, u, g)
    \/ \E u \in Users, op \in RequestKinds : ByUser(t, u, op)
    \/ \E u \in Users : JoinGame(t, u)
    \/ TerminateGame(t)
    \/ Proceed(t)
    \/ TakeLock(t)

NextTimer(m) ==
    \/ \E op \in TimerKinds : TimerFire(m, op)
    \/ TimerEnter(m)
    \/ Schedule(m)

NextIpc(p) == PushStart(p) \/ PushGameOver(p) \/ Reply(p) \/ Eof(p)

Next ==
    \/ \E t \in Threads : NextRequest(t)
    \/ \E m \in Mids : NextTimer(m)
    \/ \E p \in Procs : NextIpc(p)
    \/ WorkerProcess
    \/ \E m \in Mids : ChildCrash(m) \/ ChildExit(m)

Spec == Init /\ [][Next]_vars

(***************************************************************************)
(* Fairness.  A thread that can run runs on, and one that waits for mutex_  *)
(* or data_ gets it if it is released again and again (hence strong         *)
(* fairness); the setting-up of a subprocess under mutex_ ends; a question  *)
(* to the configuration process returns, which CallReturns of               *)
(* GameConfigClient shows for a process that answers or dies; the system    *)
(* delivers SIGTERM and end of file.  Nothing makes users issue commands, a *)
(* timer fire, or a game answer: Push and Reply have no fairness, so a game *)
(* that hangs is a behaviour of FairSpec.                                   *)
(***************************************************************************)
Fairness ==
    /\ \A t \in Threads : SF_vars(Proceed(t)) /\ SF_vars(TakeLock(t))
    /\ \A m \in Mids : /\ SF_vars(TimerEnter(m)) /\ WF_vars(Schedule(m))
                       /\ WF_vars(ChildExit(m))
    /\ \A p \in Procs : SF_vars(Eof(p))
    /\ SF_vars(WorkerProcess)

FairSpec == Spec /\ Fairness

-----------------------------------------------------------------------------
(* Properties.                                                              *)

\* The three places that say where a match is in its life agree: state_ is
\* "not started" exactly in the lobby, "over" is only published for a running
\* phase that is over, and once data_ is free an over phase has been published
\* and torn down, whichever of the handlers ended it.
Lifecycle ==
    \A m \in Mids :
       /\ state[m] = "N" <=> phase[m] # "running"
       /\ over[m] => phase[m] = "running"
       /\ state[m] = "O" => over[m]
       /\ over[m] /\ ~Locked(m) => state[m] = "O" /\ child[m] # "up"

\* However the handlers of several threads interleave, and whatever was waiting
\* for data_ meanwhile, every match lives the life MatchLife promises: it never
\* goes back to its lobby or from over to playing, and no Join, Leave or change of
\* settings alters users_ once players_ has been built from it.
LifeOf(m) ==
    CASE phase[m] = "none" -> "unborn"
      [] phase[m] = "lobby" -> "open"
      [] phase[m] = "running" -> IF over[m] THEN "over" ELSE "playing"

Life == INSTANCE MatchLife WITH Matches <- Mids,
                                life <- [m \in Mids |-> LifeOf(m)],
                                roster <- users,
                                quit <- left

LivesAsPromised == Life!Spec

\* ~Match joins the timer threads of the match, so the timer thread must never
\* drop the last pointer to its own match: its cleanup leaves another owner.  (With
\* two request threads it does: one unlists the match while the other starts it, and
\* the cleanup of the timer unbinds the users, who were the last to lead to it.  No run
\* has this property.)
TimerNeverLastOwner ==
    [][\A m \in Mids : pc'[m] # pc[m] /\ Referenced(m) => Referenced(m)']_vars

\* An unfinished match that is listed is the one its group leads to: the late
\* unbinding of its predecessor leaves the successor's entry alone.  (So it is while
\* one request thread runs beside the timers and the worker; of two threads that end
\* the same match, the slower one takes the group from the successor.)
ListedMatchOwnsGroup ==
    \A m \in midMap : ~over[m] /\ gid[m] # NoGroup => groupMatch[gid[m]] = m

\* A user is never an active participant of two unfinished matches.
OneMatchPerUser ==
    \A m, n \in midMap :
       m # n => over[m] \/ over[n] \/ Active(m) \cap Active(n) = {}

\* A new game refused because the group's match is being played does not
\* disturb that match: only a forced termination signals its subprocess.
GamingMatchKeepsChild ==
    \A m \in Mids :
       phase[m] = "running" /\ ~over[m] /\ child[m] = "killed" =>
          \E t \in Threads : task[t].op = "terminate" /\ task[t].match = m

\* A forced termination returns even while another thread holds data_ waiting
\* for a game that never answers, phase 1 kills the game, which ends that wait, or
\* for the configuration process, which no signal of it reaches.
TerminateReturns ==
    \A t \in Threads : (pc[t] = "found" /\ task[t].op = "terminate") ~> (pc[t] = "idle")

\* Once a match is over its id and its group are freed, by the thread that ended
\* it or by the worker.
OverMatchUnlisted ==
    \A m \in Mids : state[m] = "O" ~>
       (m \notin midMap /\ \A g \in Groups : groupMatch[g] # m)

=============================================================================
