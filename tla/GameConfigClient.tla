--------------------------- MODULE GameConfigClient ---------------------------
(***************************************************************************)
(* The defaults of one game: GameConfigClient in the bot, the config_runner  *)
(* subprocess it starts on demand (ChildConfigSession), its watchdog, and    *)
(* the admin commands that change the defaults (message_handlers.cc).        *)
(*                                                                          *)
(* Every method of the client is the same loop around a different message:   *)
(* under mutex_, twice at most, have a process, write, read, and give the    *)
(* process up when any of that fails.  The messages that read only are one   *)
(* kind, "query".  The options of the game are one option, of which a text   *)
(* sets the value.                                                           *)
(***************************************************************************)
EXTENDS Naturals, Sequences, FiniteSets

CONSTANTS Threads,   \* threads of the bot that serve requests
          Procs,     \* config_runner processes, a reaped one may come again
          Texts,     \* option texts an admin may send
          Valid,     \* those that SetOption accepts
          Default,   \* the value the game is compiled with
          NoProc, NoOne, NoArg,
          MaxCalls,  \* bound on the calls of the client
          MaxLoss    \* bound on the processes lost by a crash or a bad frame

ASSUME ConfigAssumption ==
    /\ Valid \subseteq Texts /\ Default \notin Texts
    /\ NoProc \notin Procs /\ NoOne \notin Threads
    /\ MaxCalls \in Nat /\ MaxLoss \in Nat

VARIABLES
    \* GameConfigClient
    mutex,      \* the holder of mutex_
    proc,       \* proc_
    fresh,      \* whether last_use_ is less than kIdleTimeout ago
    idle,       \* idle_proc of the watchdog, proc of Shutdown
    watch,      \* whether the watchdog thread runs
    closing,    \* how far the destructor is
    \* the threads that call it
    pc, req, attempt, result,
    saved,      \* config_json_ as the bot writes it
    \* ChildConfigSession
    state,      \* of the process
    inbox, outbox, \* its pipes
    log,        \* applied_options_log_
    formal,     \* default_is_formal_
    \* history
    calls,      \* calls made, which number them
    losses,     \* processes lost
    acked       \* calls that set an option and were told so by proc_

client == <<proc, fresh, idle, watch, closing>>
thread == <<pc, req, attempt, result>>
session == <<state, inbox, outbox, log, formal>>
vars == <<mutex, client, thread, saved, session, calls, losses, acked>>

Formality == {"formal", "informal"}
Numbers == 0 .. MaxCalls
Request == [op : {"query"}, arg : {NoArg}, id : Numbers]
           \cup [op : {"set"}, arg : Texts, id : Numbers]
           \cup [op : {"formal"}, arg : Formality, id : Numbers]
Reply == [id : Numbers, kind : {"yes", "no", "garbled"}]
PCs == {"idle", "lock", "ensure", "write", "read", "save"}
Results == {"none", "yes", "no", "lost", "unstarted"}

\* The types of the client, its callers and the processes.
TypeOK ==
    /\ mutex \in Threads \cup {NoOne}
    /\ proc \in Procs \cup {NoProc} /\ idle \in Procs \cup {NoProc}
    /\ fresh \in BOOLEAN /\ watch \in BOOLEAN
    /\ closing \in {"no", "stopping", "shutdown"}
    /\ pc \in [Threads -> PCs] /\ req \in [Threads -> Request]
    /\ attempt \in [Threads -> 1 .. 2] /\ result \in [Threads -> Results]
    /\ saved \in [option : Texts \cup {Default}, formal : Formality]
    /\ state \in [Procs -> {"gone", "up", "dead"}]
    /\ inbox \in [Procs -> Seq(Request)] /\ outbox \in [Procs -> Seq(Reply)]
    /\ log \in [Procs -> Seq([id : Numbers, value : Valid])]
    /\ formal \in [Procs -> Formality]
    /\ calls \in Numbers /\ losses \in 0 .. MaxLoss /\ acked \subseteq Numbers

Init ==
    /\ mutex = NoOne /\ proc = NoProc /\ idle = NoProc
    /\ fresh = TRUE /\ watch = TRUE /\ closing = "no"
    /\ pc = [t \in Threads |-> "idle"]
    /\ req = [t \in Threads |-> [op |-> "query", arg |-> NoArg, id |-> 0]]
    /\ attempt = [t \in Threads |-> 1]
    /\ result = [t \in Threads |-> "none"]
    /\ saved = [option |-> Default, formal |-> "formal"]
    /\ state = [p \in Procs |-> "gone"]
    /\ inbox = [p \in Procs |-> <<>>] /\ outbox = [p \in Procs |-> <<>>]
    /\ log = [p \in Procs |-> <<>>]
    /\ formal = [p \in Procs |-> "formal"]
    /\ calls = 0 /\ losses = 0 /\ acked = {}

-----------------------------------------------------------------------------
(* A call of the client. *)

Commands == {<<"query", NoArg>>} \cup ({"set"} \X Texts) \cup ({"formal"} \X Formality)

\* A command arrives that needs the client: a set or a formal is an admin's.
Begin(t) ==
    /\ closing = "no" /\ pc[t] = "idle" /\ calls < MaxCalls
    /\ calls' = calls + 1
    /\ \E c \in Commands :
          req' = [req EXCEPT ![t] = [op |-> c[1], arg |-> c[2], id |-> calls + 1]]
    /\ pc' = [pc EXCEPT ![t] = "lock"]
    /\ result' = [result EXCEPT ![t] = "none"]
    /\ UNCHANGED <<mutex, client, attempt, saved, session, losses, acked>>

\* Slip: a method without the lock_guard.
AcquireUnlocked(t) ==
    /\ pc[t] = "lock"
    /\ mutex' = t
    /\ pc' = [pc EXCEPT ![t] = "ensure"]
    /\ attempt' = [attempt EXCEPT ![t] = 1]
    /\ UNCHANGED <<client, req, result, saved, session, calls, losses, acked>>

Acquire(t) ==
    /\ pc[t] = "lock" /\ mutex = NoOne
    /\ mutex' = t
    /\ pc' = [pc EXCEPT ![t] = "ensure"]
    /\ attempt' = [attempt EXCEPT ![t] = 1]
    /\ UNCHANGED <<client, req, result, saved, session, calls, losses, acked>>

\* Whether the command goes on to the configuration file after result r: a set
\* when it succeeded, a change of formal in any case.
Saves(t, r) == req[t].op = "formal" \/ (req[t].op = "set" /\ r = "yes")

\* Slip: a return on which the mutex stays locked.
ReturnLocked(t, r) ==
    /\ pc' = [pc EXCEPT ![t] = IF Saves(t, r) THEN "save" ELSE "idle"]
    /\ result' = [result EXCEPT ![t] = r]
    /\ UNCHANGED <<mutex, req, attempt>>

\* The call returns r, which releases the mutex.
Return(t, r) ==
    /\ mutex' = NoOne
    /\ pc' = [pc EXCEPT ![t] = IF Saves(t, r) THEN "save" ELSE "idle"]
    /\ result' = [result EXCEPT ![t] = r]
    /\ UNCHANGED <<req, attempt>>

\* Process p is terminated and reaped.
Destroyed(p) ==
    /\ state' = [state EXCEPT ![p] = "gone"]
    /\ inbox' = [inbox EXCEPT ![p] = <<>>]
    /\ outbox' = [outbox EXCEPT ![p] = <<>>]
    /\ log' = [log EXCEPT ![p] = <<>>]
    /\ formal' = [formal EXCEPT ![p] = "formal"]

\* EnsureRunning_ has a process: Ok says that one was started, not that it lives.
Reuse(t) ==
    /\ pc[t] = "ensure" /\ proc # NoProc
    /\ fresh' = TRUE
    /\ pc' = [pc EXCEPT ![t] = "write"]
    /\ UNCHANGED <<mutex, proc, idle, watch, closing, req, attempt, result, saved,
                   session, calls, losses, acked>>

\* LoadModule begins with what the game is compiled with and an empty log.  The
\* file of the game that it reads is one that no part of the bot writes:
\* SaveConfig_ writes conf_path_ itself.
Loaded(p) ==
    /\ log' = [log EXCEPT ![p] = <<>>]
    /\ formal' = [formal EXCEPT ![p] = "formal"]

\* EnsureRunning_ starts one.
Start(t) ==
    /\ pc[t] = "ensure" /\ proc = NoProc
    /\ \E p \in Procs :
          /\ state[p] = "gone"
          /\ proc' = p
          /\ state' = [state EXCEPT ![p] = "up"]
          /\ Loaded(p)
    /\ fresh' = TRUE
    /\ pc' = [pc EXCEPT ![t] = "write"]
    /\ UNCHANGED <<mutex, idle, watch, closing, req, attempt, result, saved, inbox,
                   outbox, calls, losses, acked>>

\* Spawning fails, and the method returns without another attempt.
StartFails(t) ==
    /\ pc[t] = "ensure" /\ proc = NoProc
    /\ Return(t, "unstarted")
    /\ UNCHANGED <<client, saved, session, calls, losses, acked>>

\* Slip: there is no second attempt.
LostOnce(t) ==
    /\ Destroyed(proc)
    /\ proc' = NoProc /\ acked' = {}
    /\ Return(t, "lost")
    /\ UNCHANGED <<fresh, idle, watch, closing, saved, calls, losses>>

\* Slip: another attempt after every failure.
LostForever(t) ==
    /\ Destroyed(proc)
    /\ proc' = NoProc /\ acked' = {}
    /\ attempt' = [attempt EXCEPT ![t] = @ + 1]
    /\ pc' = [pc EXCEPT ![t] = "ensure"]
    /\ UNCHANGED <<mutex, req, result>>
    /\ UNCHANGED <<fresh, idle, watch, closing, saved, calls, losses>>

\* Slip: the process of a failed attempt is kept.
LostKept(t) ==
    /\ \/ /\ attempt[t] = 1
          /\ attempt' = [attempt EXCEPT ![t] = 2]
          /\ pc' = [pc EXCEPT ![t] = "ensure"]
          /\ UNCHANGED <<mutex, req, result>>
       \/ attempt[t] = 2 /\ Return(t, "lost")
    /\ outbox' = [outbox EXCEPT ![proc] = <<>>]
    /\ UNCHANGED <<state, inbox, log, formal, acked, client, saved, calls, losses>>

\* An attempt fails: Stop_, then the other attempt or the end of the call.
Lost(t) ==
    /\ Destroyed(proc)
    /\ proc' = NoProc /\ acked' = {}
    /\ \/ /\ attempt[t] = 1
          /\ attempt' = [attempt EXCEPT ![t] = 2]
          /\ pc' = [pc EXCEPT ![t] = "ensure"]
          /\ UNCHANGED <<mutex, req, result>>
       \/ attempt[t] = 2 /\ Return(t, "lost")
    /\ UNCHANGED <<fresh, idle, watch, closing, saved, calls, losses>>

Write(t) ==
    /\ pc[t] = "write" /\ state[proc] = "up"
    /\ inbox' = [inbox EXCEPT ![proc] = Append(@, req[t])]
    /\ pc' = [pc EXCEPT ![t] = "read"]
    /\ UNCHANGED <<mutex, client, req, attempt, result, saved, state, outbox, log,
                   formal, calls, losses, acked>>

WriteFails(t) == pc[t] = "write" /\ state[proc] = "dead" /\ Lost(t)

\* The reply arrives; what a process wrote before it died is still read.
Read(t) ==
    /\ pc[t] = "read" /\ outbox[proc] # <<>>
    /\ LET kind == Head(outbox[proc]).kind
       IN  /\ kind # "garbled"
           /\ Return(t, kind)
           /\ acked' = IF req[t].op = "set" /\ kind = "yes"
                       THEN acked \cup {req[t].id} ELSE acked
    /\ outbox' = [outbox EXCEPT ![proc] = Tail(@)]
    /\ UNCHANGED <<client, saved, state, inbox, log, formal, calls, losses>>

\* Some queries, answered with a message of another kind, ask again and keep
\* the process.
AskAgain(t) ==
    /\ pc[t] = "read" /\ outbox[proc] # <<>> /\ Head(outbox[proc]).kind = "no"
    /\ req[t].op = "query" /\ attempt[t] = 1
    /\ attempt' = [attempt EXCEPT ![t] = 2]
    /\ pc' = [pc EXCEPT ![t] = "ensure"]
    /\ outbox' = [outbox EXCEPT ![proc] = Tail(@)]
    /\ UNCHANGED <<mutex, client, req, result, saved, state, inbox, log, formal, calls,
                   losses, acked>>

\* The process is dead, or what it wrote is no frame or does not parse.
ReadFails(t) ==
    /\ pc[t] = "read"
    /\ \/ outbox[proc] = <<>> /\ state[proc] = "dead"
       \/ outbox[proc] # <<>> /\ Head(outbox[proc]).kind = "garbled"
    /\ Lost(t)

\* The command writes the new default into the configuration of the bot.
Save(t) ==
    /\ pc[t] = "save"
    /\ saved' = IF req[t].op = "set" THEN [saved EXCEPT !.option = req[t].arg]
                                     ELSE [saved EXCEPT !.formal = req[t].arg]
    /\ pc' = [pc EXCEPT ![t] = "idle"]
    /\ UNCHANGED <<mutex, client, req, attempt, result, session, calls, losses, acked>>

Step(t) == \/ Reuse(t) \/ Start(t) \/ StartFails(t)
           \/ Write(t) \/ WriteFails(t)
           \/ Read(t) \/ AskAgain(t) \/ ReadFails(t) \/ Save(t)

-----------------------------------------------------------------------------
(* The config_runner process. *)

\* A request that changes a default is carried out unless SetOption refuses it.
Accepts(m) == m.op = "formal" \/ (m.op = "set" /\ m.arg \in Valid)

\* What may be answered to request m.
Answers(m) == {kind \in {"yes", "no"} :
                 m.op # "query" => (kind = "yes" <=> Accepts(m))}

\* One turn of RunLoop.  The code of the game runs in the process, and what it
\* prints goes where the frames go: the reply can come out garbled.
Serve(p) ==
    /\ state[p] = "up" /\ inbox[p] # <<>>
    /\ LET m == Head(inbox[p])
       IN  /\ log' = IF m.op = "set" /\ Accepts(m)
                     THEN [log EXCEPT ![p] = Append(@, [id |-> m.id, value |-> m.arg])]
                     ELSE log
           /\ formal' = IF m.op = "formal" THEN [formal EXCEPT ![p] = m.arg] ELSE formal
           /\ \E kind \in Answers(m) \cup {"garbled"} :
                 /\ kind = "garbled" => losses < MaxLoss
                 /\ outbox' = [outbox EXCEPT ![p] = Append(@, [id |-> m.id, kind |-> kind])]
                 /\ losses' = IF kind = "garbled" THEN losses + 1 ELSE losses
    /\ inbox' = [inbox EXCEPT ![p] = Tail(@)]
    /\ UNCHANGED <<mutex, client, thread, saved, state, calls, acked>>

\* The process dies on its own: the game crashes it or the module does not load.
Die(p) ==
    /\ state[p] = "up" /\ losses < MaxLoss
    /\ state' = [state EXCEPT ![p] = "dead"]
    /\ inbox' = [inbox EXCEPT ![p] = <<>>]
    /\ losses' = losses + 1
    /\ UNCHANGED <<mutex, client, thread, saved, outbox, log, formal, calls, acked>>

-----------------------------------------------------------------------------
(* The watchdog and the end of the client. *)

\* kIdleTimeout passes since the last use, also while a request is under way.
GrowIdle ==
    /\ fresh
    /\ fresh' = FALSE
    /\ UNCHANGED <<mutex, proc, idle, watch, closing, thread, saved, session, calls,
                   losses, acked>>

\* Slip: the watchdog looks without taking the mutex.
WatchUnlocked ==
    /\ watch /\ idle = NoProc
    /\ proc # NoProc /\ ~fresh
    /\ idle' = proc /\ proc' = NoProc /\ acked' = {}
    /\ UNCHANGED <<mutex, fresh, watch, closing, thread, saved, session, calls, losses>>

\* Slip: the watchdog leaves a process alone that has died.
WatchLiving ==
    /\ watch /\ idle = NoProc /\ mutex = NoOne
    /\ proc # NoProc /\ state[proc] = "up" /\ ~fresh
    /\ idle' = proc /\ proc' = NoProc /\ acked' = {}
    /\ UNCHANGED <<mutex, fresh, watch, closing, thread, saved, session, calls, losses>>

\* The watchdog wakes up and takes an idle process out of the client.
Watch ==
    /\ watch /\ idle = NoProc /\ mutex = NoOne
    /\ proc # NoProc /\ ~fresh
    /\ idle' = proc /\ proc' = NoProc /\ acked' = {}
    /\ UNCHANGED <<mutex, fresh, watch, closing, thread, saved, session, calls, losses>>

\* DestroyConfigRunnerProc, outside of the mutex.  The shutdown message and the
\* termination that follows it in Close are one step.
DestroyIdle ==
    /\ idle # NoProc
    /\ Destroyed(idle)
    /\ idle' = NoProc
    /\ UNCHANGED <<mutex, proc, fresh, watch, closing, thread, saved, calls, losses, acked>>

\* The destructor; the bot is released when no request is under way.
Destruct ==
    /\ closing = "no" /\ \A t \in Threads : pc[t] = "idle"
    /\ closing' = "stopping"
    /\ UNCHANGED <<mutex, proc, fresh, idle, watch, thread, saved, session, calls,
                   losses, acked>>

\* The watchdog sees watchdog_stop_ and is joined.
WatchEnds ==
    /\ closing = "stopping" /\ watch /\ idle = NoProc
    /\ watch' = FALSE
    /\ UNCHANGED <<mutex, proc, fresh, idle, closing, thread, saved, session, calls,
                   losses, acked>>

\* Slip: Shutdown lets go of the process and leaves it running.
ShutdownForgets ==
    /\ closing = "stopping" /\ ~watch /\ mutex = NoOne
    /\ closing' = "shutdown"
    /\ proc' = NoProc /\ acked' = {}
    /\ UNCHANGED <<mutex, fresh, idle, watch, thread, saved, session, calls, losses>>

\* Shutdown takes the process out under the mutex and destroys it afterwards.
Shutdown ==
    /\ closing = "stopping" /\ ~watch /\ mutex = NoOne
    /\ closing' = "shutdown"
    /\ idle' = proc /\ proc' = NoProc /\ acked' = {}
    /\ UNCHANGED <<mutex, fresh, watch, thread, saved, session, calls, losses>>

Next ==
    \/ \E t \in Threads : Begin(t) \/ Acquire(t) \/ Step(t)
    \/ \E p \in Procs : Serve(p) \/ Die(p)
    \/ GrowIdle \/ Watch \/ DestroyIdle \/ Destruct \/ WatchEnds \/ Shutdown

Spec == Init /\ [][Next]_vars

\* The threads run, the mutex is granted, and a process that lives answers: a
\* rule command that never returns would hold the mutex for good.
Fairness ==
    /\ \A t \in Threads : SF_vars(Acquire(t)) /\ WF_vars(Step(t))
    /\ \A p \in Procs : WF_vars(Serve(p))
    /\ WF_vars(Watch) /\ WF_vars(DestroyIdle) /\ WF_vars(WatchEnds) /\ WF_vars(Shutdown)

FairSpec == Spec /\ Fairness

-----------------------------------------------------------------------------
(* Properties. *)

\* The pipes of the held process carry at most one message, and it belongs to
\* the call that holds the mutex and waits for it: SendRecv_ never reads the
\* answer to somebody else's request or to its own first attempt.
OneInFlight ==
    proc # NoProc =>
       /\ Len(inbox[proc]) + Len(outbox[proc]) <= 1
       /\ \A i \in 1 .. Len(inbox[proc]) : \E t \in Threads :
             mutex = t /\ pc[t] = "read" /\ inbox[proc][i] = req[t]
       /\ \A i \in 1 .. Len(outbox[proc]) : \E t \in Threads :
             mutex = t /\ pc[t] = "read" /\ outbox[proc][i].id = req[t].id

\* A process that the watchdog or Shutdown takes is nobody else's and has no
\* request in it: the destruction outside of mutex_ cuts no call off.
TakenIsQuiet ==
    /\ idle # NoProc => idle # proc /\ inbox[idle] = <<>> /\ outbox[idle] = <<>>
    /\ \A t \in Threads : pc[t] \in {"write", "read"} => proc # NoProc

\* The calls whose option process p has applied.
Applied(p) == {log[p][i].id : i \in 1 .. Len(log[p])}

\* The held process has applied exactly what callers were told it has, but for
\* the call under way, and nothing twice: SetDefaultOption, repeated after a
\* failure, takes effect once if it returns true and not at all if it returns
\* false.
AnswersMatchLog ==
    proc # NoProc =>
       /\ acked \subseteq Applied(proc)
       /\ \A n \in Applied(proc) \ acked : \E t \in Threads :
             mutex = t /\ pc[t] = "read" /\ req[t].id = n
       /\ \A i, j \in 1 .. Len(log[proc]) : log[proc][i].id = log[proc][j].id => i = j

\* The second attempt hides the loss of a process: while only one was lost, also
\* between two calls, no change of a default has failed for it.  A query that
\* asked again has no attempt left.
OneLossHidden ==
    losses <= 1 => \A t \in Threads : req[t].op # "query" => result[t] # "lost"

\* Every call of the client returns.
CallReturns == \A t \in Threads : pc[t] = "lock" ~> pc[t] = "idle"

\* A process that is not used is shut down, unless it is used again.
IdleGoes == (proc # NoProc /\ ~fresh) ~> (proc = NoProc \/ fresh)

\* After the destructor no process is left.
ClosesDown == closing = "stopping" ~>
                 (closing = "shutdown" /\ \A p \in Procs : state[p] = "gone")

\* The value that a log gives the option: HandleInitOptions and a new match
\* replay it onto fresh options.
Served(l) == IF l = <<>> THEN Default ELSE l[Len(l)].value

\* With no command under way, the option that a living process gives new matches
\* is the one that the admins have set and the bot has saved, whatever process
\* it was set in.
SavedIsServed ==
    (proc # NoProc /\ state[proc] = "up" /\ \A t \in Threads : pc[t] = "idle") =>
       Served(log[proc]) = saved.option

=============================================================================
