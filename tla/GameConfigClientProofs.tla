----------------------- MODULE GameConfigClientProofs -----------------------
(***************************************************************************)
(* Proofs about GameConfigClient, for every number of threads, processes,    *)
(* calls and losses.                                                         *)
(***************************************************************************)
EXTENDS GameConfigClient, TLAPS

Critical == {"ensure", "write", "read"}

\* A thread is between its lock and its return exactly when it holds mutex_,
\* there it has a process from EnsureRunning_ on, and it goes on to the
\* configuration only with a command that changes a default.
LockShape ==
    /\ \A t \in Threads : mutex = t <=> pc[t] \in Critical
    /\ \A t \in Threads : pc[t] \in {"write", "read"} => proc # NoProc
    /\ \A t \in Threads : pc[t] = "save" => req[t].op # "query"

\* The processes that run are held by one owner each, and one that is not the
\* client's has nothing in its pipes.
ProcShape ==
    /\ proc # NoProc => state[proc] # "gone" /\ idle # proc
    /\ idle # NoProc => state[idle] # "gone"
    /\ \A p \in Procs : p # proc => inbox[p] = <<>> /\ outbox[p] = <<>>

\* Every call has a number of its own.
NumberShape ==
    /\ \A t, u \in Threads :
          t # u /\ pc[t] # "idle" /\ pc[u] # "idle" => req[t].id # req[u].id
    /\ \A t \in Threads : req[t].id <= calls
    /\ \A p \in Procs : \A i \in 1 .. Len(log[p]) : log[p][i].id <= calls

\* A call that is not served yet is not in the log, and a reply tells whether it is.
ReplyShape ==
    proc # NoProc =>
       /\ \A t \in Threads : pc[t] \in {"lock", "ensure", "write"} => req[t].id \notin Applied(proc)
       /\ \A t \in Threads : pc[t] = "read" /\ inbox[proc] # <<>> => req[t].id \notin Applied(proc)
       /\ \A t \in Threads :
             pc[t] = "read" /\ outbox[proc] # <<>> /\ Head(outbox[proc]).kind # "garbled" =>
                (req[t].id \in Applied(proc)
                   <=> req[t].op = "set" /\ Head(outbox[proc]).kind = "yes")

\* While nobody holds a process, nobody was told anything by it.
AckShape == proc = NoProc => acked = {}

-----------------------------------------------------------------------------

\* Type correctness.

LEMMA InitTypes == Init => TypeOK
BY ConfigAssumption DEF Init, TypeOK, ConfigAssumption, Request, Numbers, PCs, Results, Formality

\* What a call does to the thread that makes it.
LEMMA ReturnTypes ==
  ASSUME TypeOK, NEW t \in Threads, NEW r \in Results, Return(t, r)
  PROVE  /\ mutex' \in Threads \cup {NoOne}
         /\ pc' \in [Threads -> PCs] /\ result' \in [Threads -> Results]
         /\ req' = req /\ attempt' = attempt
BY DEF TypeOK, Return, PCs, Results

\* What the end of a process leaves of it.
LEMMA DestroyedTypes ==
  ASSUME TypeOK, NEW p \in Procs, Destroyed(p)
  PROVE  /\ state' \in [Procs -> {"gone", "up", "dead"}]
         /\ inbox' \in [Procs -> Seq(Request)] /\ outbox' \in [Procs -> Seq(Reply)]
         /\ log' \in [Procs -> Seq([id : Numbers, value : Valid])]
         /\ formal' \in [Procs -> Formality]
<1>1. <<>> \in Seq(Request) /\ <<>> \in Seq(Reply)
      /\ <<>> \in Seq([id : Numbers, value : Valid])
  OBVIOUS
<1>2. inbox' \in [Procs -> Seq(Request)]
  BY <1>1 DEF TypeOK, Destroyed
<1>3. outbox' \in [Procs -> Seq(Reply)]
  BY <1>1 DEF TypeOK, Destroyed
<1>4. log' \in [Procs -> Seq([id : Numbers, value : Valid])]
  BY <1>1 DEF TypeOK, Destroyed
<1>5. state' \in [Procs -> {"gone", "up", "dead"}] /\ formal' \in [Procs -> Formality]
  BY DEF TypeOK, Destroyed, Formality
<1> QED
  BY <1>2, <1>3, <1>4, <1>5

LEMMA LostTypes ==
  ASSUME TypeOK, NEW t \in Threads, proc # NoProc, Lost(t)
  PROVE  TypeOK'
<1>1. proc \in Procs
  BY DEF TypeOK
<1>2. /\ state' \in [Procs -> {"gone", "up", "dead"}]
      /\ inbox' \in [Procs -> Seq(Request)] /\ outbox' \in [Procs -> Seq(Reply)]
      /\ log' \in [Procs -> Seq([id : Numbers, value : Valid])]
      /\ formal' \in [Procs -> Formality]
  BY <1>1, DestroyedTypes DEF Lost
<1>3. CASE attempt' = [attempt EXCEPT ![t] = 2] /\ pc' = [pc EXCEPT ![t] = "ensure"]
           /\ UNCHANGED <<mutex, req, result>>
  <2>1. attempt' \in [Threads -> 1 .. 2] /\ pc' \in [Threads -> PCs]
    BY <1>3 DEF TypeOK, PCs
  <2> QED
    BY <1>2, <1>3, <2>1 DEF TypeOK, Lost
<1>4. CASE Return(t, "lost")
  BY <1>2, <1>4, ReturnTypes DEF TypeOK, Lost, Results
<1> QED
  BY <1>3, <1>4 DEF Lost

LEMMA TypesStep ==
  ASSUME TypeOK, LockShape, [Next]_vars
  PROVE  TypeOK'
<1> USE ConfigAssumption DEF ConfigAssumption
<1>1. ASSUME NEW t \in Threads, Begin(t)
      PROVE  TypeOK'
  <2>1. PICK c \in Commands : req' = [req EXCEPT ![t] = [op |-> c[1], arg |-> c[2], id |-> calls + 1]]
    BY <1>1 DEF Begin
  <2>2. calls + 1 \in Numbers
    BY <1>1 DEF Begin, TypeOK, Numbers
  <2>3. [op |-> c[1], arg |-> c[2], id |-> calls + 1] \in Request
    BY <2>2 DEF Commands, Request
  <2>4. req' \in [Threads -> Request]
    BY <2>1, <2>3 DEF TypeOK
  <2> QED
    BY <1>1, <2>2, <2>4 DEF Begin, TypeOK, PCs, Results, client, session
<1>2. ASSUME NEW t \in Threads, Acquire(t) \/ Reuse(t)
      PROVE  TypeOK'
  <2>1. pc' \in [Threads -> PCs]
    BY <1>2 DEF Acquire, Reuse, TypeOK, PCs
  <2>2. attempt' \in [Threads -> 1 .. 2]
    <3>1. CASE Acquire(t)
      BY <3>1 DEF Acquire, TypeOK
    <3>2. CASE Reuse(t)
      BY <3>2 DEF Reuse, TypeOK
    <3> QED
      BY <1>2, <3>1, <3>2
  <2> QED
    BY <1>2, <2>1, <2>2 DEF Acquire, Reuse, TypeOK, client, session
<1>3. ASSUME NEW t \in Threads, Start(t)
      PROVE  TypeOK'
  <2>1. PICK p \in Procs : proc' = p /\ state' = [state EXCEPT ![p] = "up"] /\ Loaded(p)
    BY <1>3 DEF Start
  <2>2. <<>> \in Seq([id : Numbers, value : Valid])
    OBVIOUS
  <2>3. log' \in [Procs -> Seq([id : Numbers, value : Valid])]
    BY <2>1, <2>2 DEF Loaded, TypeOK
  <2>4. formal' \in [Procs -> Formality]
    BY <2>1 DEF Loaded, TypeOK, Formality
  <2> QED
    BY <1>3, <2>1, <2>3, <2>4 DEF Start, TypeOK, PCs
<1>4. ASSUME NEW t \in Threads, StartFails(t)
      PROVE  TypeOK'
  <2>1. "unstarted" \in Results /\ Return(t, "unstarted")
    BY <1>4 DEF StartFails, Results
  <2> QED
    BY <1>4, <2>1, ReturnTypes DEF StartFails, TypeOK, client, session
<1>5. ASSUME NEW t \in Threads, Write(t)
      PROVE  TypeOK'
  <2>1. proc \in Procs
    BY <1>5 DEF Write, LockShape, TypeOK
  <2>2. inbox' \in [Procs -> Seq(Request)]
    BY <1>5, <2>1 DEF Write, TypeOK
  <2> QED
    BY <1>5, <2>2 DEF Write, TypeOK, PCs, client
<1>6. ASSUME NEW t \in Threads, WriteFails(t) \/ ReadFails(t)
      PROVE  TypeOK'
  BY <1>6, LostTypes DEF WriteFails, ReadFails, LockShape
<1>7. ASSUME NEW t \in Threads, Read(t)
      PROVE  TypeOK'
  <2> DEFINE kind == Head(outbox[proc]).kind
  <2>1. proc \in Procs /\ outbox[proc] \in Seq(Reply) /\ outbox[proc] # <<>>
    BY <1>7 DEF Read, LockShape, TypeOK
  <2>2. Head(outbox[proc]) \in Reply
    BY <2>1
  <2>3. kind \in Results /\ Return(t, kind)
    BY <1>7, <2>2 DEF Read, Reply, Results
  <2>4. outbox' \in [Procs -> Seq(Reply)]
    BY <1>7, <2>1 DEF Read, TypeOK
  <2>5. acked' \subseteq Numbers
    BY <1>7 DEF Read, TypeOK, Request
  <2> HIDE DEF kind
  <2> QED
    BY <1>7, <2>3, <2>4, <2>5, ReturnTypes DEF Read, TypeOK, client
<1>8. ASSUME NEW t \in Threads, Save(t)
      PROVE  TypeOK'
  <2>1. /\ req[t].op = "set" => req[t].arg \in Texts
        /\ req[t].op # "set" => req[t].arg \in Formality
    BY <1>8 DEF Save, LockShape, TypeOK, Request
  <2>2. saved' \in [option : Texts \cup {Default}, formal : Formality]
    BY <1>8, <2>1 DEF Save, TypeOK
  <2> QED
    BY <1>8, <2>2 DEF Save, TypeOK, PCs, client, session
<1>9. ASSUME NEW p \in Procs, Serve(p)
      PROVE  TypeOK'
  <2> DEFINE m == Head(inbox[p])
  <2>1. inbox[p] \in Seq(Request) /\ inbox[p] # <<>>
    BY <1>9 DEF Serve, TypeOK
  <2>2. m \in Request
    BY <2>1
  <2>3. log' \in [Procs -> Seq([id : Numbers, value : Valid])]
    <3>1. CASE m.op = "set" /\ Accepts(m)
      <4>1. [id |-> m.id, value |-> m.arg] \in [id : Numbers, value : Valid]
        BY <2>2, <3>1 DEF Accepts, Request
      <4>2. log' = [log EXCEPT ![p] = Append(@, [id |-> m.id, value |-> m.arg])]
        BY <1>9, <3>1 DEF Serve
      <4> DEFINE Entry == [id : Numbers, value : Valid]
                 entry == [id |-> m.id, value |-> m.arg]
      <4>3. entry \in Entry /\ log[p] \in Seq(Entry) /\ log' = [log EXCEPT ![p] = Append(@, entry)]
        BY <4>1, <4>2 DEF TypeOK
      <4>4. log \in [Procs -> Seq(Entry)]
        BY DEF TypeOK
      <4> HIDE DEF entry, Entry
      <4>5. Append(log[p], entry) \in Seq(Entry)
        BY <4>3
      <4>6. log' \in [Procs -> Seq(Entry)]
        BY <4>3, <4>4, <4>5
      <4> QED
        BY <4>6 DEF Entry
    <3>2. CASE ~(m.op = "set" /\ Accepts(m))
      BY <1>9, <3>2 DEF Serve, TypeOK
    <3> QED
      BY <3>1, <3>2
  <2>4. formal' \in [Procs -> Formality]
    BY <1>9, <2>2 DEF Serve, TypeOK, Request
  <2>5. PICK kind \in Answers(m) \cup {"garbled"} :
           /\ kind = "garbled" => losses < MaxLoss
           /\ outbox' = [outbox EXCEPT ![p] = Append(@, [id |-> m.id, kind |-> kind])]
           /\ losses' = IF kind = "garbled" THEN losses + 1 ELSE losses
    BY <1>9 DEF Serve
  <2>6. kind \in {"yes", "no", "garbled"}
    BY <2>5 DEF Answers
  <2>7. losses' \in 0 .. MaxLoss
    BY <2>5 DEF TypeOK
  <2>9. [id |-> m.id, kind |-> kind] \in Reply
    BY <2>2, <2>6 DEF Request, Reply
  <2>10. outbox' \in [Procs -> Seq(Reply)]
    <3> DEFINE reply == [id |-> m.id, kind |-> kind]
    <3>1. reply \in Reply /\ outbox[p] \in Seq(Reply) /\ outbox' = [outbox EXCEPT ![p] = Append(@, reply)]
      BY <2>5, <2>9 DEF TypeOK
    <3> HIDE DEF reply
    <3>2. Append(outbox[p], reply) \in Seq(Reply)
      BY <3>1
    <3> QED
      BY <3>1, <3>2 DEF TypeOK
  <2>8. inbox' \in [Procs -> Seq(Request)]
    BY <1>9, <2>1 DEF Serve, TypeOK
  <2> QED
    BY <1>9, <2>3, <2>4, <2>7, <2>10, <2>8 DEF Serve, TypeOK, client, thread
<1>10. ASSUME NEW p \in Procs, Die(p)
      PROVE  TypeOK'
  <2>1. <<>> \in Seq(Request)
    OBVIOUS
  <2>2. inbox' \in [Procs -> Seq(Request)]
    BY <1>10, <2>1 DEF Die, TypeOK
  <2>3. state' \in [Procs -> {"gone", "up", "dead"}]
    BY <1>10 DEF Die, TypeOK
  <2>4. losses' \in 0 .. MaxLoss
    BY <1>10 DEF Die, TypeOK
  <2> QED
    BY <1>10, <2>2, <2>3, <2>4 DEF Die, TypeOK, client, thread
<1>11. CASE DestroyIdle
  <2>1. idle \in Procs /\ Destroyed(idle)
    BY <1>11 DEF DestroyIdle, TypeOK
  <2> QED
    BY <1>11, <2>1, DestroyedTypes DEF DestroyIdle, TypeOK, thread
<1>12. CASE GrowIdle \/ Watch \/ Destruct \/ WatchEnds \/ Shutdown
  BY <1>12 DEF GrowIdle, Watch, Destruct, WatchEnds, Shutdown, TypeOK, thread, session
<1>13. CASE UNCHANGED vars
  BY <1>13 DEF vars, client, thread, session, TypeOK
<1>14. ASSUME NEW t \in Threads, AskAgain(t)
      PROVE  TypeOK'
  <2>1. outbox[proc] \in Seq(Reply) /\ outbox[proc] # <<>> /\ proc \in Procs
    BY <1>14 DEF AskAgain, LockShape, TypeOK
  <2>2. outbox' \in [Procs -> Seq(Reply)]
    BY <1>14, <2>1 DEF AskAgain, TypeOK
  <2>3. attempt' \in [Threads -> 1 .. 2] /\ pc' \in [Threads -> PCs]
    BY <1>14 DEF AskAgain, TypeOK, PCs
  <2> QED
    BY <1>14, <2>2, <2>3 DEF AskAgain, TypeOK, client
<1> QED
  BY <1>1, <1>2, <1>3, <1>4, <1>5, <1>6, <1>7, <1>8, <1>9, <1>10, <1>11, <1>12, <1>13, <1>14
     DEF Next, Step

-----------------------------------------------------------------------------

\* The mutex.

LEMMA InitLock == Init => LockShape
BY ConfigAssumption DEF ConfigAssumption, Init, LockShape, Critical

\* The end of an attempt keeps the lock with the thread or gives it back.
LEMMA LostLock ==
  ASSUME TypeOK, LockShape, NEW t \in Threads, pc[t] \in {"write", "read"}, Lost(t)
  PROVE  LockShape'
<1>1. proc' = NoProc /\ req' = req /\ mutex = t /\ \A u \in Threads : u # t => pc'[u] = pc[u]
  BY DEF Lost, Return, LockShape, Critical, TypeOK
<1>2. \/ pc'[t] = "ensure" /\ mutex' = t
      \/ pc'[t] \in {"save", "idle"} /\ mutex' = NoOne /\ (pc'[t] = "save" => req[t].op # "query")
  BY <1>1 DEF Lost, Return, Saves, TypeOK
<1> QED
  BY <1>1, <1>2, ConfigAssumption DEF ConfigAssumption, LockShape, Critical, TypeOK

LEMMA LockStep ==
  ASSUME TypeOK, LockShape, [Next]_vars
  PROVE  LockShape'
<1> USE ConfigAssumption DEF ConfigAssumption, LockShape, Critical
<1>1. ASSUME NEW t \in Threads, Begin(t)
      PROVE  LockShape'
  <2>1. /\ pc' = [pc EXCEPT ![t] = "lock"] /\ UNCHANGED <<mutex, proc>>
        /\ \A u \in Threads : u # t => req'[u] = req[u]
    BY <1>1 DEF Begin, client, TypeOK
  <2> QED
    BY <1>1, <2>1 DEF Begin, TypeOK
<1>2. ASSUME NEW t \in Threads, Acquire(t) \/ Reuse(t)
      PROVE  LockShape'
  <2>1. CASE Acquire(t)
    BY <2>1 DEF Acquire, client, TypeOK
  <2>2. CASE Reuse(t)
    BY <2>2 DEF Reuse, TypeOK
  <2> QED
    BY <1>2, <2>1, <2>2
<1>3. ASSUME NEW t \in Threads, Start(t)
      PROVE  LockShape'
  BY <1>3 DEF Start, TypeOK
<1>4. ASSUME NEW t \in Threads, StartFails(t) \/ Read(t)
      PROVE  LockShape'
  <2>1. PICK r : Return(t, r)
    BY <1>4 DEF StartFails, Read
  <2>2. UNCHANGED <<proc, req>> /\ mutex' = NoOne /\ mutex = t
    BY <1>4, <2>1 DEF StartFails, Read, Return, client
  <2>3. /\ \A u \in Threads : u # t => pc'[u] = pc[u]
        /\ pc'[t] \in {"save", "idle"} /\ (pc'[t] = "save" => req[t].op # "query")
    BY <2>1 DEF Return, Saves, TypeOK
  <2> QED
    BY <2>2, <2>3
<1>5. ASSUME NEW t \in Threads, Write(t)
      PROVE  LockShape'
  BY <1>5 DEF Write, client, TypeOK
<1>6. ASSUME NEW t \in Threads, WriteFails(t) \/ ReadFails(t)
      PROVE  LockShape'
  BY <1>6, LostLock DEF WriteFails, ReadFails
<1>7. ASSUME NEW t \in Threads, Save(t)
      PROVE  LockShape'
  BY <1>7 DEF Save, client, TypeOK
<1>8. ASSUME NEW p \in Procs, Serve(p) \/ Die(p)
      PROVE  LockShape'
  BY <1>8 DEF Serve, Die, client, thread
<1>9. CASE GrowIdle \/ DestroyIdle \/ Destruct \/ WatchEnds \/ UNCHANGED vars
  BY <1>9 DEF GrowIdle, DestroyIdle, Destruct, WatchEnds, vars, client, thread
<1>10. CASE Watch \/ Shutdown
  BY <1>10 DEF Watch, Shutdown, thread
<1>11. ASSUME NEW t \in Threads, AskAgain(t)
       PROVE  LockShape'
  BY <1>11 DEF AskAgain, client, TypeOK
<1> QED
  BY <1>1, <1>2, <1>3, <1>4, <1>5, <1>6, <1>7, <1>8, <1>9, <1>10, <1>11 DEF Next, Step

-----------------------------------------------------------------------------

\* The processes and their pipes.

LEMMA InitPipes == Init => ProcShape /\ OneInFlight
BY DEF Init, ProcShape, OneInFlight

\* Two pipes that have at most one message between them.
LEMMA AtMostOneNumber ==
  ASSUME NEW m \in Nat, NEW n \in Nat, m + n <= 1
  PROVE  n <= 1 /\ (m # 0 => m = 1 /\ n = 0) /\ (n # 0 => n = 1 /\ m = 0)
OBVIOUS

LEMMA AtMostOne ==
  ASSUME NEW S, NEW T, NEW a \in Seq(S), NEW b \in Seq(T), Len(a) + Len(b) <= 1
  PROVE  /\ Len(b) <= 1
         /\ a # <<>> => Len(a) = 1 /\ b = <<>>
         /\ b # <<>> => a = <<>> /\ Tail(b) = <<>>
<1>1. Len(a) \in Nat /\ Len(b) \in Nat
  OBVIOUS
<1>2. (a # <<>> => Len(a) # 0) /\ (b # <<>> => Len(b) # 0)
  OBVIOUS
<1>3. (Len(a) = 0 => a = <<>>) /\ (Len(b) = 0 => b = <<>>)
  OBVIOUS
<1>4. ASSUME Len(b) = 1
      PROVE  Tail(b) = <<>>
  <2>1. b = <<>> => Len(b) = 0
    OBVIOUS
  <2>2. b # <<>>
    BY <1>4, <2>1
  <2>3. Tail(b) \in Seq(T) /\ Len(Tail(b)) = Len(b) - 1
    BY <2>2
  <2>4. Len(Tail(b)) = 0
    BY <1>4, <2>3
  <2> QED
    BY <2>3, <2>4
<1> QED
  BY <1>1, <1>2, <1>3, <1>4, AtMostOneNumber

\* While nobody reads, there is nothing in the pipes of the held process.
LEMMA QuietPipes ==
  ASSUME TypeOK, OneInFlight, proc # NoProc, \A t \in Threads : mutex = t => pc[t] # "read"
  PROVE  inbox[proc] = <<>> /\ outbox[proc] = <<>>
<1>1. inbox[proc] \in Seq(Request) /\ outbox[proc] \in Seq(Reply)
  BY DEF TypeOK
<1>2. ~(1 \in 1 .. Len(inbox[proc])) /\ ~(1 \in 1 .. Len(outbox[proc]))
  BY DEF OneInFlight
<1> QED
  BY <1>1, <1>2

\* What one turn of the process finds: the request of the call that reads.
LEMMA ServesReader ==
  ASSUME TypeOK, ProcShape, OneInFlight, NEW p \in Procs, Serve(p)
  PROVE  /\ p = proc
         /\ inbox[p] = <<Head(inbox[p])>> /\ outbox[p] = <<>>
         /\ \E t \in Threads : mutex = t /\ pc[t] = "read" /\ Head(inbox[p]) = req[t]
<1>1. inbox[p] \in Seq(Request) /\ outbox[p] \in Seq(Reply) /\ inbox[p] # <<>>
  BY DEF Serve, TypeOK
<1>2. p = proc
  BY <1>1 DEF ProcShape
<1>3. Len(inbox[p]) = 1 /\ outbox[p] = <<>>
  <2>1. Len(inbox[p]) + Len(outbox[p]) <= 1
    BY <1>2, ConfigAssumption DEF ConfigAssumption, OneInFlight
  <2> QED
    BY <1>1, <2>1, AtMostOne
<1>4. \E t \in Threads : mutex = t /\ pc[t] = "read" /\ inbox[p][1] = req[t]
  BY <1>2, <1>3, ConfigAssumption DEF ConfigAssumption, OneInFlight
<1> QED
  BY <1>1, <1>2, <1>3, <1>4

LEMMA ProcStep ==
  ASSUME TypeOK, LockShape, ProcShape, OneInFlight, [Next]_vars
  PROVE  ProcShape'
<1> USE ConfigAssumption DEF ConfigAssumption, ProcShape
<1>1. ASSUME NEW t \in Threads, Begin(t) \/ Acquire(t) \/ Reuse(t) \/ Save(t) \/ StartFails(t)
      PROVE  ProcShape'
  BY <1>1 DEF Begin, Acquire, Reuse, Save, StartFails, client, session
<1>2. ASSUME NEW t \in Threads, Start(t)
      PROVE  ProcShape'
  BY <1>2 DEF Start, Loaded, TypeOK
<1>3. ASSUME NEW t \in Threads, Write(t) \/ Read(t) \/ AskAgain(t)
      PROVE  ProcShape'
  <2>1. UNCHANGED <<client, state, log>>
    BY <1>3 DEF Write, Read, AskAgain
  <2>2. \A p \in Procs : p # proc => inbox'[p] = inbox[p] /\ outbox'[p] = outbox[p]
    BY <1>3 DEF Write, Read, AskAgain, TypeOK
  <2> QED
    BY <2>1, <2>2 DEF client
<1>4. ASSUME NEW t \in Threads, WriteFails(t) \/ ReadFails(t)
      PROVE  ProcShape'
  <2>1. Lost(t) /\ proc \in Procs
    BY <1>4 DEF WriteFails, ReadFails, LockShape, TypeOK
  <2> QED
    BY <2>1 DEF Lost, Destroyed, TypeOK
<1>5. ASSUME NEW p \in Procs, Serve(p)
      PROVE  ProcShape'
  <2>1. p = proc /\ state[p] = "up" /\ UNCHANGED <<client, state>>
    BY <1>5, ServesReader DEF Serve
  <2>2. \A q \in Procs : q # p => inbox'[q] = inbox[q] /\ outbox'[q] = outbox[q] /\ log'[q] = log[q]
    BY <1>5 DEF Serve, TypeOK
  <2> QED
    BY <2>1, <2>2 DEF client
<1>6. ASSUME NEW p \in Procs, Die(p)
      PROVE  ProcShape'
  BY <1>6 DEF Die, client, TypeOK
<1>7. CASE GrowIdle \/ Destruct \/ WatchEnds \/ UNCHANGED vars
  BY <1>7 DEF GrowIdle, Destruct, WatchEnds, vars, client, session
<1>8. CASE Watch \/ Shutdown
  <2>1. \A t \in Threads : mutex # t
    BY <1>8 DEF Watch, Shutdown
  <2>2. proc # NoProc => inbox[proc] = <<>> /\ outbox[proc] = <<>>
    BY <2>1, QuietPipes
  <2>3. idle' = proc /\ proc' = NoProc /\ UNCHANGED session
    BY <1>8 DEF Watch, Shutdown
  <2> QED
    BY <2>2, <2>3 DEF session, TypeOK
<1>9. CASE DestroyIdle
  BY <1>9 DEF DestroyIdle, Destroyed, TypeOK
<1> QED
  BY <1>1, <1>2, <1>3, <1>4, <1>5, <1>6, <1>7, <1>8, <1>9 DEF Next, Step

\* A step that leaves the pipes of the held process and its reader alone keeps
\* OneInFlight.
LEMMA SamePipes ==
  ASSUME OneInFlight, UNCHANGED <<mutex, proc>>,
         proc # NoProc => inbox'[proc] = inbox[proc] /\ outbox'[proc] = outbox[proc],
         \A t \in Threads : pc[t] = "read" => pc'[t] = "read" /\ req'[t] = req[t]
  PROVE  OneInFlight'
<1> SUFFICES ASSUME proc # NoProc
             PROVE  OneInFlight'
  BY DEF OneInFlight
<1>1. \A i \in 1 .. Len(inbox'[proc]) : \E t \in Threads :
         mutex = t /\ pc'[t] = "read" /\ inbox'[proc][i] = req'[t]
  BY DEF OneInFlight
<1>2. \A i \in 1 .. Len(outbox'[proc]) : \E t \in Threads :
         mutex = t /\ pc'[t] = "read" /\ outbox'[proc][i].id = req'[t].id
  BY DEF OneInFlight
<1>3. Len(inbox'[proc]) + Len(outbox'[proc]) <= 1
  BY DEF OneInFlight
<1> QED
  BY <1>1, <1>2, <1>3 DEF OneInFlight

\* In particular one that leaves all pipes alone.
LEMMA UntouchedPipes ==
  ASSUME OneInFlight, UNCHANGED <<mutex, proc, inbox, outbox>>,
         \A t \in Threads : pc[t] = "read" => pc'[t] = "read" /\ req'[t] = req[t]
  PROVE  OneInFlight'
BY SamePipes

\* Empty pipes are in order.
LEMMA EmptyPipes ==
  ASSUME proc' # NoProc => inbox'[proc'] = <<>> /\ outbox'[proc'] = <<>>
  PROVE  OneInFlight'
<1> SUFFICES ASSUME proc' # NoProc
             PROVE  OneInFlight'
  BY DEF OneInFlight
<1>1. Len(inbox'[proc']) = 0 /\ Len(outbox'[proc']) = 0
  OBVIOUS
<1> QED
  BY <1>1 DEF OneInFlight

\* One message in them is, when it is the reader's.
LEMMA OneMessage ==
  ASSUME NEW t \in Threads, mutex' = t, pc'[t] = "read",
         \/ /\ inbox'[proc'] = <<req'[t]>> /\ outbox'[proc'] = <<>>
         \/ /\ inbox'[proc'] = <<>>
            /\ \E r : outbox'[proc'] = <<r>> /\ r.id = req'[t].id
  PROVE  OneInFlight'
<1>1. CASE inbox'[proc'] = <<req'[t]>> /\ outbox'[proc'] = <<>>
  <2>1. Len(inbox'[proc']) = 1 /\ Len(outbox'[proc']) = 0 /\ inbox'[proc'][1] = req'[t]
    BY <1>1
  <2> QED
    BY <2>1 DEF OneInFlight
<1>2. ASSUME inbox'[proc'] = <<>>, NEW r, outbox'[proc'] = <<r>>, r.id = req'[t].id
      PROVE  OneInFlight'
  <2>1. Len(inbox'[proc']) = 0 /\ Len(outbox'[proc']) = 1 /\ outbox'[proc'][1] = r
    BY <1>2
  <2> QED
    BY <1>2, <2>1 DEF OneInFlight
<1> QED
  BY <1>1, <1>2

LEMMA InFlightStep ==
  ASSUME TypeOK, LockShape, ProcShape, OneInFlight, [Next]_vars
  PROVE  OneInFlight'
<1> USE ConfigAssumption DEF ConfigAssumption
<1>1. ASSUME NEW t \in Threads, Begin(t)
      PROVE  OneInFlight'
  BY <1>1, UntouchedPipes DEF Begin, client, session, TypeOK
<1>2. ASSUME NEW t \in Threads, Acquire(t)
      PROVE  OneInFlight'
  <2>1. proc # NoProc => inbox[proc] = <<>> /\ outbox[proc] = <<>>
    BY <1>2, QuietPipes DEF Acquire
  <2> QED
    BY <1>2, <2>1, EmptyPipes DEF Acquire, client, session
<1>3. ASSUME NEW t \in Threads, Reuse(t) \/ Save(t)
      PROVE  OneInFlight'
  <2>1. UNCHANGED <<mutex, proc, inbox, outbox, req>>
    BY <1>3 DEF Reuse, Save, client, session
  <2>2. \A u \in Threads : pc[u] = "read" => pc'[u] = "read"
    BY <1>3 DEF Reuse, Save, TypeOK
  <2> QED
    BY <2>1, <2>2, UntouchedPipes
<1>4. ASSUME NEW t \in Threads, Start(t)
      PROVE  OneInFlight'
  BY <1>4, EmptyPipes DEF Start, ProcShape
<1>5. ASSUME NEW t \in Threads, StartFails(t)
      PROVE  OneInFlight'
  BY <1>5, EmptyPipes DEF StartFails, client
<1>6. ASSUME NEW t \in Threads, Write(t)
      PROVE  OneInFlight'
  <2>1. proc # NoProc /\ proc \in Procs /\ mutex = t
    BY <1>6 DEF Write, LockShape, Critical, TypeOK
  <2>2. inbox[proc] = <<>> /\ outbox[proc] = <<>>
    BY <1>6, <2>1, QuietPipes DEF Write, LockShape, Critical
  <2>3. inbox'[proc] = <<req[t]>> /\ outbox'[proc] = <<>>
    BY <1>6, <2>1, <2>2 DEF Write, TypeOK
  <2>4. pc'[t] = "read" /\ UNCHANGED <<mutex, proc, req>>
    BY <1>6 DEF Write, client, TypeOK
  <2> QED
    BY <2>1, <2>3, <2>4, OneMessage
<1>7. ASSUME NEW t \in Threads, WriteFails(t) \/ ReadFails(t)
      PROVE  OneInFlight'
  BY <1>7, EmptyPipes DEF WriteFails, ReadFails, Lost
<1>8. ASSUME NEW t \in Threads, Read(t) \/ AskAgain(t)
      PROVE  OneInFlight'
  <2>1. proc # NoProc /\ proc \in Procs
    BY <1>8 DEF Read, AskAgain, LockShape, TypeOK
  <2>2. inbox[proc] \in Seq(Request) /\ outbox[proc] \in Seq(Reply) /\ outbox[proc] # <<>>
    BY <1>8, <2>1 DEF Read, AskAgain, TypeOK
  <2>3. inbox[proc] = <<>> /\ Tail(outbox[proc]) = <<>>
    <3>1. Len(inbox[proc]) + Len(outbox[proc]) <= 1
      BY <2>1 DEF OneInFlight
    <3> QED
      BY <2>2, <3>1, AtMostOne
  <2>4. UNCHANGED <<proc, inbox>> /\ outbox'[proc] = Tail(outbox[proc])
    BY <1>8, <2>1 DEF Read, AskAgain, client, TypeOK
  <2> QED
    BY <2>3, <2>4, EmptyPipes
<1>9. ASSUME NEW p \in Procs, Serve(p)
      PROVE  OneInFlight'
  <2>1. PICK t \in Threads : mutex = t /\ pc[t] = "read" /\ Head(inbox[p]) = req[t]
    BY <1>9, ServesReader
  <2>2. /\ p = proc /\ inbox[p] = <<req[t]>> /\ outbox[p] = <<>>
    BY <1>9, <2>1, ServesReader
  <2>3. PICK kind : outbox' = [outbox EXCEPT ![p] = Append(@, [id |-> Head(inbox[p]).id, kind |-> kind])]
    BY <1>9 DEF Serve
  <2> DEFINE reply == [id |-> req[t].id, kind |-> kind]
  <2>4. reply.id = req[t].id /\ outbox' = [outbox EXCEPT ![p] = Append(@, reply)]
    BY <2>1, <2>3
  <2> HIDE DEF reply
  <2>5. outbox'[p] = <<reply>> /\ inbox'[p] = <<>>
    BY <1>9, <2>2, <2>4 DEF Serve, TypeOK
  <2>6. UNCHANGED <<mutex, proc, pc, req>>
    BY <1>9 DEF Serve, client, thread
  <2> QED
    BY <2>1, <2>2, <2>4, <2>5, <2>6, OneMessage
<1>10. ASSUME NEW p \in Procs, Die(p)
      PROVE  OneInFlight'
  <2>1. UNCHANGED <<mutex, proc, pc, req, outbox>>
    BY <1>10 DEF Die, client, thread
  <2>2. CASE p = proc
    <3>1. inbox'[proc] = <<>> /\ inbox[proc] \in Seq(Request) /\ outbox[proc] \in Seq(Reply)
      BY <1>10, <2>2 DEF Die, TypeOK
    <3>2. Len(inbox'[proc]) = 0
      BY <3>1
    <3>3. Len(outbox[proc]) <= 1
      <4>1. Len(inbox[proc]) + Len(outbox[proc]) <= 1
        BY <2>2 DEF OneInFlight
      <4> QED
        BY <3>1, <4>1, AtMostOne
    <3>4. \A i \in 1 .. Len(outbox[proc]) : \E t \in Threads :
             mutex = t /\ pc[t] = "read" /\ outbox[proc][i].id = req[t].id
      BY <2>2 DEF OneInFlight
    <3>5. Len(inbox'[proc]) + Len(outbox[proc]) <= 1
      BY <3>1, <3>2, <3>3
    <3> QED
      BY <2>1, <3>2, <3>4, <3>5 DEF OneInFlight
  <2>3. CASE p # proc
    <3>1. inbox'[proc] = inbox[proc]
      BY <1>10, <2>3 DEF Die, TypeOK
    <3> QED
      BY <2>1, <3>1, SamePipes
  <2> QED
    BY <2>2, <2>3
<1>11. CASE GrowIdle \/ Destruct \/ WatchEnds \/ UNCHANGED vars
  <2>1. UNCHANGED <<mutex, proc, inbox, outbox, req, pc>>
    BY <1>11 DEF GrowIdle, Destruct, WatchEnds, vars, client, session, thread
  <2> QED
    BY <2>1, UntouchedPipes
<1>12. CASE Watch \/ Shutdown
  BY <1>12, EmptyPipes DEF Watch, Shutdown
<1>13. CASE DestroyIdle
  <2>1. UNCHANGED <<mutex, proc, req, pc>> /\ idle \in Procs
    BY <1>13 DEF DestroyIdle, thread, TypeOK
  <2>2. proc # NoProc => inbox'[proc] = inbox[proc] /\ outbox'[proc] = outbox[proc]
    BY <1>13, <2>1 DEF DestroyIdle, Destroyed, ProcShape, TypeOK
  <2>3. proc' = proc
    BY <1>13 DEF DestroyIdle
  <2> QED
    BY <2>1, <2>2, <2>3, SamePipes
<1> QED
  BY <1>1, <1>2, <1>3, <1>4, <1>5, <1>6, <1>7, <1>8, <1>9, <1>10, <1>11, <1>12, <1>13
     DEF Next, Step

\* What the properties of the processes say follows from their shape.
LEMMA QuietFromShapes == TypeOK /\ LockShape /\ ProcShape => TakenIsQuiet
BY DEF TypeOK, LockShape, ProcShape, TakenIsQuiet

-----------------------------------------------------------------------------

\* The numbers of the calls.

LEMMA InitNumbers == Init => NumberShape
BY DEF Init, NumberShape

\* What an entry adds to a log.
LEMMA LogAppend ==
  ASSUME TypeOK, NEW p \in Procs, NEW e \in [id : Numbers, value : Valid],
         log' = [log EXCEPT ![p] = Append(@, e)]
  PROVE  /\ Len(log[p]) \in Nat /\ Len(log'[p]) = Len(log[p]) + 1
         /\ log'[p][Len(log[p]) + 1] = e
         /\ \A i \in 1 .. Len(log[p]) : log'[p][i] = log[p][i]
         /\ \A q \in Procs : q # p => log'[q] = log[q]
<1>1. log[p] \in Seq([id : Numbers, value : Valid]) /\ log'[p] = Append(log[p], e)
  BY DEF TypeOK
<1>2. \A q \in Procs : q # p => log'[q] = log[q]
  BY DEF TypeOK
<1> HIDE DEF Numbers
<1>3. Len(log[p]) \in Nat /\ Len(log'[p]) = Len(log[p]) + 1
  BY <1>1
<1>4. log'[p][Len(log[p]) + 1] = e /\ \A i \in 1 .. Len(log[p]) : log'[p][i] = log[p][i]
  BY <1>1
<1> QED
  BY <1>2, <1>3, <1>4

\* A turn of the process adds at most the request of the call that reads.
LEMMA ServeLog ==
  ASSUME TypeOK, ProcShape, OneInFlight, NEW p \in Procs, Serve(p),
         NEW t \in Threads, Head(inbox[p]) = req[t]
  PROVE  \/ log' = log /\ ~(req[t].op = "set" /\ Accepts(req[t]))
         \/ /\ req[t].op = "set" /\ Accepts(req[t])
            /\ \E e \in [id : Numbers, value : Valid] :
                  e.id = req[t].id /\ log' = [log EXCEPT ![p] = Append(@, e)]
<1>1. CASE req[t].op = "set" /\ Accepts(req[t])
  <2>1. [id |-> req[t].id, value |-> req[t].arg] \in [id : Numbers, value : Valid]
    BY <1>1 DEF TypeOK, Accepts, Request
  <2>2. log' = [log EXCEPT ![p] = Append(@, [id |-> req[t].id, value |-> req[t].arg])]
    BY <1>1 DEF Serve
  <2> QED
    BY <1>1, <2>1, <2>2
<1>2. CASE ~(req[t].op = "set" /\ Accepts(req[t]))
  BY <1>2 DEF Serve
<1> QED
  BY <1>1, <1>2

\* No step but Begin gives a call a number, and a log is left alone or dropped.
LEMMA KeptNumbers ==
  ASSUME NumberShape, UNCHANGED <<calls, req>>,
         \A t \in Threads : pc'[t] # "idle" => pc[t] # "idle",
         \A p \in Procs : log'[p] = log[p] \/ log'[p] = <<>>
  PROVE  NumberShape'
<1>1. \A p \in Procs : \A i \in 1 .. Len(log'[p]) : log'[p][i].id <= calls
  <2>1. ASSUME NEW p \in Procs, log'[p] = <<>>
        PROVE  Len(log'[p]) = 0
    BY <2>1
  <2>2. ASSUME NEW p \in Procs, NEW i \in 1 .. Len(log'[p])
        PROVE  log'[p][i].id <= calls
    BY <2>1, <2>2 DEF NumberShape
  <2> QED
    BY <2>2
<1> QED
  BY <1>1 DEF NumberShape

\* The end of a process drops its log and no other.
LEMMA DestroyedLog ==
  ASSUME TypeOK, NEW p \in Procs, Destroyed(p)
  PROVE  \A q \in Procs : log'[q] = log[q] \/ log'[q] = <<>>
BY DEF TypeOK, Destroyed

LEMMA NumberStep ==
  ASSUME TypeOK, LockShape, ProcShape, OneInFlight, NumberShape, [Next]_vars
  PROVE  NumberShape'
<1>1. ASSUME NEW t \in Threads, Begin(t)
      PROVE  NumberShape'
  <2>1. PICK c \in Commands : req' = [req EXCEPT ![t] = [op |-> c[1], arg |-> c[2], id |-> calls + 1]]
    BY <1>1 DEF Begin
  <2>2. calls \in Nat /\ \A u \in Threads : req[u].id \in Nat
    BY ConfigAssumption DEF ConfigAssumption, TypeOK, Request, Numbers
  <2>3. req'[t].id = calls + 1 /\ \A u \in Threads : u # t => req'[u] = req[u] /\ pc'[u] = pc[u]
    BY <1>1, <2>1 DEF Begin, TypeOK
  <2>4. calls' = calls + 1 /\ log' = log
    BY <1>1 DEF Begin, session
  <2>5. \A u \in Threads : req[u].id <= calls
    BY DEF NumberShape
  <2>6. \A u, v \in Threads :
           u # v /\ pc'[u] # "idle" /\ pc'[v] # "idle" => req'[u].id # req'[v].id
    BY <2>2, <2>3, <2>5 DEF NumberShape
  <2>7. \A u \in Threads : req'[u].id <= calls'
    BY <2>2, <2>3, <2>4, <2>5
  <2>8. \A p \in Procs : \A i \in 1 .. Len(log[p]) : log[p][i].id <= calls + 1
    <3>1. ASSUME NEW p \in Procs, NEW i \in 1 .. Len(log[p])
          PROVE  log[p][i].id \in Nat /\ log[p][i].id <= calls
      <4> DEFINE Entry == [id : Numbers, value : Valid]
      <4>1. log[p] \in Seq(Entry)
        BY DEF TypeOK
      <4>2. log[p][i] \in Entry
        <5> HIDE DEF Entry
        <5> QED
          BY <3>1, <4>1
      <4> QED
        BY <3>1, <4>2, ConfigAssumption DEF ConfigAssumption, NumberShape, Numbers
    <3> QED
      BY <2>2, <3>1
  <2> QED
    BY <2>4, <2>6, <2>7, <2>8 DEF NumberShape
<1>2. ASSUME NEW t \in Threads,
             \/ Acquire(t) \/ Reuse(t) \/ StartFails(t)
             \/ Write(t) \/ Read(t) \/ AskAgain(t) \/ Save(t)
      PROVE  NumberShape'
  <2>1. UNCHANGED <<calls, req, log>>
    BY <1>2 DEF Acquire, Reuse, StartFails, Write, Read, AskAgain, Save, Return, session
  <2>2. pc[t] # "idle" /\ \A u \in Threads : u # t => pc'[u] = pc[u]
    BY <1>2 DEF Acquire, Reuse, StartFails, Write, Read, AskAgain, Save, Return, TypeOK
  <2> QED
    BY <2>1, <2>2, KeptNumbers
<1>3. ASSUME NEW t \in Threads, WriteFails(t) \/ ReadFails(t)
      PROVE  NumberShape'
  <2>1. Lost(t) /\ proc \in Procs /\ pc[t] # "idle"
    BY <1>3 DEF WriteFails, ReadFails, LockShape, TypeOK
  <2>2. UNCHANGED <<calls, req>> /\ \A u \in Threads : u # t => pc'[u] = pc[u]
    BY <2>1 DEF Lost, Return, TypeOK
  <2>3. \A q \in Procs : log'[q] = log[q] \/ log'[q] = <<>>
    BY <2>1, DestroyedLog DEF Lost
  <2> QED
    BY <2>1, <2>2, <2>3, KeptNumbers
<1>4. ASSUME NEW p \in Procs, Serve(p)
      PROVE  NumberShape'
  <2>1. PICK t \in Threads : mutex = t /\ pc[t] = "read" /\ Head(inbox[p]) = req[t]
    BY <1>4, ServesReader
  <2>2. UNCHANGED <<calls, req, pc>>
    BY <1>4 DEF Serve, thread
  <2>3. CASE log' = log
    BY <2>2, <2>3, KeptNumbers
  <2>4. ASSUME NEW e \in [id : Numbers, value : Valid], e.id = req[t].id,
               log' = [log EXCEPT ![p] = Append(@, e)]
        PROVE  NumberShape'
    <3>1. e.id <= calls
      BY <2>4 DEF NumberShape
    <3>2. \A i \in 1 .. Len(log'[p]) : log'[p][i].id <= calls
      BY <2>4, <3>1, LogAppend DEF NumberShape
    <3>3. \A q \in Procs : q # p => log'[q] = log[q]
      BY <2>4, LogAppend
    <3> QED
      BY <2>2, <3>2, <3>3 DEF NumberShape
  <2> QED
    BY <1>4, <2>1, <2>3, <2>4, ServeLog
<1>5. ASSUME NEW p \in Procs, Die(p)
      PROVE  NumberShape'
  BY <1>5, KeptNumbers DEF Die, thread
<1>6. CASE GrowIdle \/ Watch \/ Destruct \/ WatchEnds \/ Shutdown \/ UNCHANGED vars
  <2>1. UNCHANGED <<calls, req, pc, log>>
    BY <1>6 DEF GrowIdle, Watch, Destruct, WatchEnds, Shutdown, vars, thread, session
  <2> QED
    BY <2>1, KeptNumbers
<1>7. CASE DestroyIdle
  <2>1. UNCHANGED <<calls, req, pc>> /\ idle \in Procs /\ Destroyed(idle)
    BY <1>7 DEF DestroyIdle, thread, TypeOK
  <2> QED
    BY <2>1, DestroyedLog, KeptNumbers
<1>8. ASSUME NEW t \in Threads, Start(t)
      PROVE  NumberShape'
  <2>1. UNCHANGED <<calls, req>> /\ \A q \in Procs : log'[q] = log[q] \/ log'[q] = <<>>
    BY <1>8 DEF Start, Loaded, TypeOK
  <2>2. pc[t] # "idle" /\ \A u \in Threads : u # t => pc'[u] = pc[u]
    BY <1>8 DEF Start, TypeOK
  <2> QED
    BY <2>1, <2>2, KeptNumbers
<1> QED
  BY <1>1, <1>2, <1>3, <1>4, <1>5, <1>6, <1>7, <1>8 DEF Next, Step

-----------------------------------------------------------------------------

\* The answers and the log.

\* The conjunction that is inductive.
IInv == /\ TypeOK /\ LockShape /\ ProcShape /\ OneInFlight
        /\ NumberShape /\ AckShape /\ ReplyShape /\ AnswersMatchLog

LEMMA InitAnswers == Init => AckShape /\ ReplyShape /\ AnswersMatchLog
BY DEF Init, AckShape, ReplyShape, AnswersMatchLog

LEMMA AckStep ==
  ASSUME TypeOK, LockShape, AckShape, [Next]_vars
  PROVE  AckShape'
<1> USE ConfigAssumption DEF ConfigAssumption, AckShape
<1>1. ASSUME NEW t \in Threads,
             \/ Begin(t) \/ Acquire(t) \/ Reuse(t) \/ StartFails(t)
             \/ Write(t) \/ AskAgain(t) \/ Save(t)
      PROVE  AckShape'
  BY <1>1 DEF Begin, Acquire, Reuse, StartFails, Write, AskAgain, Save, client
<1>2. ASSUME NEW t \in Threads, Start(t)
      PROVE  AckShape'
  BY <1>2 DEF Start
<1>3. ASSUME NEW t \in Threads, Read(t)
      PROVE  AckShape'
  BY <1>3 DEF Read, LockShape, client
<1>4. ASSUME NEW t \in Threads, WriteFails(t) \/ ReadFails(t)
      PROVE  AckShape'
  BY <1>4 DEF WriteFails, ReadFails, Lost
<1>5. ASSUME NEW p \in Procs, Serve(p) \/ Die(p)
      PROVE  AckShape'
  BY <1>5 DEF Serve, Die, client
<1>6. CASE GrowIdle \/ DestroyIdle \/ Destruct \/ WatchEnds \/ Watch \/ Shutdown \/ UNCHANGED vars
  BY <1>6 DEF GrowIdle, DestroyIdle, Destruct, WatchEnds, Watch, Shutdown, vars, client
<1> QED
  BY <1>1, <1>2, <1>3, <1>4, <1>5, <1>6 DEF Next, Step

\* A step after which there is the same process with the same log, and that
\* sends and answers nothing.
LEMMA KeptAnswers ==
  ASSUME ReplyShape, AnswersMatchLog, UNCHANGED <<proc, req, acked>>,
         proc # NoProc => /\ log'[proc] = log[proc] /\ outbox'[proc] = outbox[proc]
                          /\ inbox'[proc] = inbox[proc] \/ inbox'[proc] = <<>>,
         \A t \in Threads : /\ pc'[t] \in {"lock", "ensure", "write"} => pc[t] \in {"lock", "ensure", "write"}
                            /\ pc'[t] = "read" <=> pc[t] = "read"
                            /\ mutex = t /\ pc[t] = "read" => mutex' = t
  PROVE  ReplyShape' /\ AnswersMatchLog'
<1> SUFFICES ASSUME proc # NoProc
             PROVE  ReplyShape' /\ AnswersMatchLog'
  BY DEF ReplyShape, AnswersMatchLog
<1>1. Applied(proc)' = Applied(proc)
  BY DEF Applied
<1>2. ReplyShape'
  BY <1>1 DEF ReplyShape
<1>3. AnswersMatchLog'
  BY <1>1 DEF AnswersMatchLog
<1> QED
  BY <1>2, <1>3

\* What an entry adds to the calls that are applied.
LEMMA AppliedAppend ==
  ASSUME TypeOK, NEW p \in Procs, NEW e \in [id : Numbers, value : Valid],
         log' = [log EXCEPT ![p] = Append(@, e)]
  PROVE  Applied(p)' = Applied(p) \cup {e.id}
<1> DEFINE n == Len(log[p])
<1>1. n \in Nat /\ Len(log'[p]) = n + 1 /\ log'[p][n + 1] = e
      /\ \A i \in 1 .. n : log'[p][i] = log[p][i]
  BY LogAppend
<1> HIDE DEF n
<1>2. 1 .. (n + 1) = (1 .. n) \cup {n + 1}
  BY <1>1
<1>3. Applied(p) = {log[p][i].id : i \in 1 .. n}
  BY DEF Applied, n
<1>4. Applied(p)' = {log'[p][i].id : i \in (1 .. n) \cup {n + 1}}
  BY <1>1, <1>2 DEF Applied
<1> QED
  BY <1>1, <1>3, <1>4

\* A new call has a number that is in no log.
LEMMA BeginAnswers ==
  ASSUME IInv, NEW t \in Threads, Begin(t)
  PROVE  ReplyShape' /\ AnswersMatchLog'
<1>1. PICK c \in Commands : req' = [req EXCEPT ![t] = [op |-> c[1], arg |-> c[2], id |-> calls + 1]]
  BY DEF Begin
<1>2. req'[t].id = calls + 1 /\ \A u \in Threads : u # t => req'[u] = req[u] /\ pc'[u] = pc[u]
  BY <1>1 DEF Begin, IInv, TypeOK
<1>3. pc[t] = "idle" /\ pc'[t] = "lock" /\ UNCHANGED <<mutex, proc, inbox, outbox, log, acked>>
  BY DEF Begin, client, session, IInv, TypeOK
<1> SUFFICES ASSUME proc # NoProc
             PROVE  ReplyShape' /\ AnswersMatchLog'
  BY <1>3 DEF ReplyShape, AnswersMatchLog
<1>4. Applied(proc)' = Applied(proc)
  BY <1>3 DEF Applied
<1>5. calls + 1 \notin Applied(proc)
  <2>1. \A i \in 1 .. Len(log[proc]) : log[proc][i].id <= calls
    BY DEF IInv, NumberShape, TypeOK
  <2>2. calls \in Nat
    BY ConfigAssumption DEF ConfigAssumption, IInv, TypeOK, Numbers
  <2>3. \A n : n <= calls => n # calls + 1
    BY <2>2
  <2> QED
    BY <2>1, <2>3 DEF Applied
<1>6. ReplyShape'
  BY <1>2, <1>3, <1>4, <1>5 DEF IInv, ReplyShape
<1>7. AnswersMatchLog'
  BY <1>2, <1>3, <1>4 DEF IInv, AnswersMatchLog
<1> QED
  BY <1>6, <1>7

\* A process that was just started has applied nothing.
LEMMA StartAnswers ==
  ASSUME IInv, NEW t \in Threads, Start(t)
  PROVE  ReplyShape' /\ AnswersMatchLog'
<1>1. PICK p \in Procs : state[p] = "gone" /\ proc' = p /\ Loaded(p)
  BY DEF Start
<1>2. log'[p] = <<>> /\ inbox'[p] = <<>> /\ outbox'[p] = <<>> /\ acked' = {}
  BY <1>1, ConfigAssumption DEF ConfigAssumption, Start, Loaded, IInv, TypeOK, ProcShape, AckShape
<1>3. Len(log'[p]) = 0
  BY <1>2
<1>4. Applied(p)' = {} /\ Applied(proc)' = {}
  BY <1>1, <1>3 DEF Applied
<1>5. ReplyShape'
  BY <1>1, <1>2, <1>4 DEF ReplyShape
<1>6. AnswersMatchLog'
  BY <1>1, <1>2, <1>3, <1>4 DEF AnswersMatchLog
<1> QED
  BY <1>5, <1>6

\* A request that is written is not applied yet.
LEMMA WriteAnswers ==
  ASSUME IInv, NEW t \in Threads, Write(t)
  PROVE  ReplyShape' /\ AnswersMatchLog'
<1>1. proc # NoProc /\ mutex = t /\ pc[t] = "write" /\ \A u \in Threads : pc[u] # "read"
  BY DEF Write, IInv, LockShape, Critical
<1>2. outbox[proc] = <<>>
  BY <1>1, QuietPipes DEF IInv
<1>3. UNCHANGED <<proc, req, outbox, log, acked, mutex>>
  BY DEF Write, client
<1>4. Applied(proc)' = Applied(proc)
  BY <1>3 DEF Applied
<1>5. pc'[t] = "read" /\ \A u \in Threads : u # t => pc'[u] = pc[u]
  BY DEF Write, IInv, TypeOK
<1>6. ReplyShape'
  BY <1>1, <1>2, <1>3, <1>4, <1>5 DEF IInv, ReplyShape
<1>7. AnswersMatchLog'
  BY <1>1, <1>3, <1>4, <1>5 DEF IInv, AnswersMatchLog
<1> QED
  BY <1>6, <1>7

\* The reply that is read tells what the log says of the call.
LEMMA ReadAnswers ==
  ASSUME IInv, NEW t \in Threads, Read(t)
  PROVE  ReplyShape' /\ AnswersMatchLog'
<1> DEFINE kind == Head(outbox[proc]).kind
<1>1. /\ pc[t] = "read" /\ outbox[proc] # <<>> /\ kind # "garbled" /\ Return(t, kind)
      /\ acked' = IF req[t].op = "set" /\ kind = "yes" THEN acked \cup {req[t].id} ELSE acked
      /\ UNCHANGED <<proc, log, inbox>>
  BY DEF Read, client
<1> HIDE DEF kind
<1>2. proc # NoProc /\ mutex = t /\ \A u \in Threads : pc[u] \in Critical => u = t
  BY <1>1 DEF IInv, LockShape, Critical
<1>3. req' = req /\ pc'[t] \in {"save", "idle"} /\ \A u \in Threads : u # t => pc'[u] = pc[u]
  BY <1>1 DEF Return, IInv, TypeOK
<1>4. Applied(proc)' = Applied(proc)
  BY <1>1 DEF Applied
<1>5. req[t].id \in Applied(proc) <=> req[t].op = "set" /\ kind = "yes"
  BY <1>1, <1>2 DEF IInv, ReplyShape, kind
<1>6. ReplyShape'
  BY <1>1, <1>2, <1>3, <1>4 DEF IInv, ReplyShape, Critical
<1>7. AnswersMatchLog'
  <2>1. acked' \subseteq Applied(proc)
    BY <1>1, <1>2, <1>5 DEF IInv, AnswersMatchLog
  <2>2. \A n \in Applied(proc) \ acked : n = req[t].id
    BY <1>2 DEF IInv, AnswersMatchLog
  <2>3. Applied(proc) \ acked' = {}
    BY <1>1, <1>5, <2>2
  <2>4. \A i, j \in 1 .. Len(log[proc]) : log[proc][i].id = log[proc][j].id => i = j
    BY <1>2 DEF IInv, AnswersMatchLog
  <2> QED
    BY <1>1, <1>4, <2>1, <2>3, <2>4 DEF AnswersMatchLog
<1> QED
  BY <1>6, <1>7

\* A query that asks again is in no log.
LEMMA AskAgainAnswers ==
  ASSUME IInv, NEW t \in Threads, AskAgain(t)
  PROVE  ReplyShape' /\ AnswersMatchLog'
<1>1. /\ pc[t] = "read" /\ outbox[proc] # <<>> /\ Head(outbox[proc]).kind = "no"
      /\ req[t].op = "query" /\ UNCHANGED <<mutex, proc, req, log, inbox, acked>>
  BY DEF AskAgain, client
<1>2. proc # NoProc /\ mutex = t /\ \A u \in Threads : pc[u] \in Critical => u = t
  BY <1>1 DEF IInv, LockShape, Critical
<1>3. pc'[t] = "ensure" /\ \A u \in Threads : u # t => pc'[u] = pc[u]
  BY DEF AskAgain, IInv, TypeOK
<1>4. Applied(proc)' = Applied(proc)
  BY <1>1 DEF Applied
<1>5. req[t].id \notin Applied(proc)
  BY <1>1, <1>2 DEF IInv, ReplyShape
<1>6. ReplyShape'
  BY <1>1, <1>2, <1>3, <1>4, <1>5 DEF IInv, ReplyShape, Critical
<1>7. AnswersMatchLog'
  <2>1. \A n \in Applied(proc) \ acked : n = req[t].id
    BY <1>2 DEF IInv, AnswersMatchLog
  <2>2. Applied(proc) \ acked = {}
    BY <1>5, <2>1
  <2>3. /\ acked \subseteq Applied(proc)
        /\ \A i, j \in 1 .. Len(log[proc]) : log[proc][i].id = log[proc][j].id => i = j
    BY <1>2 DEF IInv, AnswersMatchLog
  <2> QED
    BY <1>1, <1>4, <2>2, <2>3 DEF AnswersMatchLog
<1> QED
  BY <1>6, <1>7

\* The process adds the request it serves, and answers yes to a set when it has.
LEMMA ServeAnswers ==
  ASSUME IInv, NEW p \in Procs, Serve(p)
  PROVE  ReplyShape' /\ AnswersMatchLog'
<1>1. PICK t \in Threads : mutex = t /\ pc[t] = "read" /\ Head(inbox[p]) = req[t]
  BY ServesReader DEF IInv
<1>2. p = proc /\ proc # NoProc /\ inbox[p] = <<req[t]>> /\ inbox[p] # <<>> /\ outbox[p] = <<>>
  BY <1>1, ServesReader, ConfigAssumption DEF ConfigAssumption, IInv, Serve
<1>3. UNCHANGED <<mutex, proc, pc, req, acked>>
  BY DEF Serve, client, thread
<1>4. \A u \in Threads : u # t => pc[u] \notin Critical
  BY <1>1 DEF IInv, LockShape
<1>5. req[t].id \notin Applied(p)
  BY <1>1, <1>2 DEF IInv, ReplyShape
<1>6. PICK kind \in Answers(req[t]) \cup {"garbled"} :
         outbox' = [outbox EXCEPT ![p] = Append(@, [id |-> req[t].id, kind |-> kind])]
  BY <1>1 DEF Serve
<1>7. inbox'[p] = <<>> /\ Head(outbox'[p]).kind = kind
  <2> DEFINE reply == [id |-> req[t].id, kind |-> kind]
  <2>1. reply.kind = kind /\ outbox' = [outbox EXCEPT ![p] = Append(@, reply)]
    BY <1>6
  <2> HIDE DEF reply
  <2>2. outbox'[p] = <<reply>> /\ inbox'[p] = <<>>
    BY <1>2, <2>1 DEF Serve, IInv, TypeOK
  <2> QED
    BY <2>1, <2>2
<1>8. kind # "garbled" /\ req[t].op = "set" => (kind = "yes" <=> Accepts(req[t]))
  BY <1>6 DEF Answers
<1> DEFINE adds == req[t].op = "set" /\ Accepts(req[t])
<1>9. Applied(p)' = IF adds THEN Applied(p) \cup {req[t].id} ELSE Applied(p)
  <2>1. CASE log' = log /\ ~adds
    BY <2>1 DEF Applied
  <2>2. ASSUME adds, NEW e \in [id : Numbers, value : Valid], e.id = req[t].id,
               log' = [log EXCEPT ![p] = Append(@, e)]
        PROVE  Applied(p)' = Applied(p) \cup {req[t].id}
    BY <2>2, AppliedAppend DEF IInv
  <2> QED
    BY <1>1, <2>1, <2>2, ServeLog DEF IInv
<1>10. \A u \in Threads : u # t /\ pc[u] # "idle" => req[u].id # req[t].id
  BY <1>1 DEF IInv, NumberShape
<1>11. ReplyShape'
  <2>1. \A u \in Threads : pc[u] \in {"lock", "ensure", "write"} => req[u].id \notin Applied(p)'
    BY <1>1, <1>2, <1>9, <1>10 DEF IInv, ReplyShape
  <2>2. \A u \in Threads : pc[u] = "read" => u = t
    BY <1>4 DEF Critical
  <2>3. kind # "garbled" => (req[t].id \in Applied(p)' <=> req[t].op = "set" /\ kind = "yes")
    BY <1>5, <1>8, <1>9
  <2> QED
    BY <1>2, <1>3, <1>7, <2>1, <2>2, <2>3 DEF ReplyShape
<1>12. AnswersMatchLog'
  <2>1. acked' \subseteq Applied(p)'
    BY <1>2, <1>3, <1>9 DEF IInv, AnswersMatchLog
  <2>2. \A n \in Applied(p)' \ acked' : \E u \in Threads : mutex' = u /\ pc'[u] = "read" /\ req'[u].id = n
    BY <1>1, <1>2, <1>3, <1>9 DEF IInv, AnswersMatchLog
  <2>3. \A i, j \in 1 .. Len(log'[p]) : log'[p][i].id = log'[p][j].id => i = j
    <3>1. \A i, j \in 1 .. Len(log[p]) : log[p][i].id = log[p][j].id => i = j
      BY <1>2 DEF IInv, AnswersMatchLog
    <3>2. \A i \in 1 .. Len(log[p]) : log[p][i].id # req[t].id
      BY <1>5 DEF Applied
    <3>3. CASE log' = log
      BY <3>1, <3>3
    <3>4. ASSUME NEW e \in [id : Numbers, value : Valid], e.id = req[t].id,
                 log' = [log EXCEPT ![p] = Append(@, e)]
          PROVE  \A i, j \in 1 .. Len(log'[p]) : log'[p][i].id = log'[p][j].id => i = j
      <4> DEFINE n == Len(log[p])
      <4>1. n \in Nat /\ Len(log'[p]) = n + 1 /\ log'[p][n + 1].id = req[t].id
            /\ \A i \in 1 .. n : log'[p][i] = log[p][i]
        BY <3>4, LogAppend DEF IInv
      <4>2. (\A i, j \in 1 .. n : log[p][i].id = log[p][j].id => i = j)
            /\ \A i \in 1 .. n : log[p][i].id # req[t].id
        BY <3>1, <3>2
      <4> HIDE DEF n
      <4>3. \A i \in 1 .. (n + 1) : i = n + 1 \/ i \in 1 .. n
        BY <4>1
      <4> QED
        BY <4>1, <4>2, <4>3
    <3> QED
      BY <1>1, <3>3, <3>4, ServeLog DEF IInv
  <2> QED
    BY <1>2, <1>3, <2>1, <2>2, <2>3 DEF AnswersMatchLog
<1> QED
  BY <1>11, <1>12

LEMMA AnswersStep ==
  ASSUME IInv, [Next]_vars
  PROVE  ReplyShape' /\ AnswersMatchLog'
<1> USE ConfigAssumption DEF ConfigAssumption
<1>1. ASSUME NEW t \in Threads, Acquire(t) \/ Reuse(t) \/ StartFails(t) \/ Save(t)
      PROVE  ReplyShape' /\ AnswersMatchLog'
  <2>1. UNCHANGED <<proc, req, acked, log, inbox, outbox>>
    BY <1>1 DEF Acquire, Reuse, StartFails, Save, Return, client, session
  <2>2. /\ \A u \in Threads : u # t => pc'[u] = pc[u]
        /\ pc[t] # "read" /\ pc'[t] # "read"
        /\ pc'[t] \in {"lock", "ensure", "write"} => pc[t] \in {"lock", "ensure", "write"}
    BY <1>1 DEF Acquire, Reuse, StartFails, Save, Return, IInv, TypeOK
  <2>3. \A u \in Threads : mutex = u /\ pc[u] = "read" => mutex' = u
    BY <1>1 DEF Acquire, Reuse, StartFails, Save, IInv, LockShape, Critical
  <2> QED
    BY <2>1, <2>2, <2>3, KeptAnswers DEF IInv
<1>2. ASSUME NEW t \in Threads, WriteFails(t) \/ ReadFails(t)
      PROVE  ReplyShape' /\ AnswersMatchLog'
  BY <1>2 DEF WriteFails, ReadFails, Lost, ReplyShape, AnswersMatchLog
<1>3. ASSUME NEW p \in Procs, Die(p)
      PROVE  ReplyShape' /\ AnswersMatchLog'
  <2>1. UNCHANGED <<mutex, proc, pc, req, acked, log, outbox>>
    BY <1>3 DEF Die, client, thread
  <2>2. proc # NoProc => inbox'[proc] = inbox[proc] \/ inbox'[proc] = <<>>
    BY <1>3 DEF Die, IInv, TypeOK
  <2> QED
    BY <2>1, <2>2, KeptAnswers DEF IInv
<1>4. CASE GrowIdle \/ Destruct \/ WatchEnds \/ UNCHANGED vars
  <2>1. UNCHANGED <<mutex, proc, pc, req, acked, log, inbox, outbox>>
    BY <1>4 DEF GrowIdle, Destruct, WatchEnds, vars, client, thread, session
  <2> QED
    BY <2>1, KeptAnswers DEF IInv
<1>5. CASE Watch \/ Shutdown
  BY <1>5 DEF Watch, Shutdown, ReplyShape, AnswersMatchLog
<1>6. CASE DestroyIdle
  <2>1. UNCHANGED <<mutex, proc, pc, req, acked>> /\ idle # NoProc
    BY <1>6 DEF DestroyIdle, thread
  <2>2. proc # NoProc => /\ log'[proc] = log[proc] /\ outbox'[proc] = outbox[proc]
                         /\ inbox'[proc] = inbox[proc]
    BY <1>6 DEF DestroyIdle, Destroyed, IInv, ProcShape, TypeOK
  <2> QED
    BY <2>1, <2>2, KeptAnswers DEF IInv
<1> QED
  BY <1>1, <1>2, <1>3, <1>4, <1>5, <1>6, BeginAnswers, StartAnswers, WriteAnswers,
     ReadAnswers, AskAgainAnswers, ServeAnswers DEF Next, Step

-----------------------------------------------------------------------------

LEMMA InvariantHolds == Spec => []IInv
<1>1. Init => IInv
  BY InitTypes, InitLock, InitPipes, InitNumbers, InitAnswers DEF IInv
<1>2. IInv /\ [Next]_vars => IInv'
  <2> SUFFICES ASSUME IInv, [Next]_vars
               PROVE  IInv'
    OBVIOUS
  <2>1. TypeOK /\ LockShape /\ ProcShape /\ OneInFlight /\ NumberShape /\ AckShape
    BY DEF IInv
  <2> QED
    BY <2>1, TypesStep, LockStep, ProcStep, InFlightStep, NumberStep, AckStep, AnswersStep DEF IInv
<1> QED
  BY <1>1, <1>2, PTL DEF Spec

\* GameConfigClient, its callers and the sessions keep to their types: in
\* particular attempt never passes the two that each method makes, and a session
\* logs no option that SetOption refused.
THEOREM ConfigTypesCorrect == Spec => []TypeOK
<1>1. IInv => TypeOK
  BY DEF IInv
<1> QED
  BY <1>1, InvariantHolds, PTL

\* SendRecv_ never reads somebody else's answer, however many threads call the
\* client and however the process dies.
THEOREM OnlyOneInFlight == Spec => []OneInFlight
<1>1. IInv => OneInFlight
  BY DEF IInv
<1> QED
  BY <1>1, InvariantHolds, PTL

\* The watchdog and Shutdown destroy no process that a call uses, though they do
\* so outside of mutex_.
THEOREM TakenProcessIsQuiet == Spec => []TakenIsQuiet
<1>1. IInv => TakenIsQuiet
  BY QuietFromShapes DEF IInv
<1> QED
  BY <1>1, InvariantHolds, PTL

\* SetDefaultOption, made twice when a process is lost, is told true exactly
\* when the held process has applied the option, which it has once.
THEOREM AnswersTellTheLog == Spec => []AnswersMatchLog
<1>1. IInv => AnswersMatchLog
  BY DEF IInv
<1> QED
  BY <1>1, InvariantHolds, PTL

-----------------------------------------------------------------------------

\* Lost processes.

\* Process p is lost: it is dead, or the reply it gave is no frame.
Broken(p) == state[p] = "dead" \/ (outbox[p] # <<>> /\ Head(outbox[p]).kind = "garbled")

\* Thread t makes its second attempt at a change of a default; it made both in vain.
SecondAttempt(t) == req[t].op # "query" /\ pc[t] \in Critical /\ attempt[t] = 2
GaveUp(t) == req[t].op # "query" /\ result[t] = "lost"

\* Every process that is given up was lost, and each loss counts for one attempt
\* only: a second attempt has one behind it, and has its own process still to lose.
LossShape ==
    /\ proc # NoProc /\ Broken(proc) => losses >= 1
    /\ \A t \in Threads : SecondAttempt(t) =>
          losses >= 1 /\ (proc # NoProc /\ Broken(proc) => losses >= 2)
    /\ \A t \in Threads : GaveUp(t) => losses >= 2

LEMMA InitLosses == Init => LossShape
BY DEF Init, LossShape, SecondAttempt, GaveUp, Critical

\* A step that loses no process and begins no second attempt.
LEMMA KeptLosses ==
  ASSUME LossShape, UNCHANGED losses,
         proc' # NoProc /\ Broken(proc)' => proc' = proc /\ Broken(proc),
         \A t \in Threads : (SecondAttempt(t)' => SecondAttempt(t)) /\ (GaveUp(t)' => GaveUp(t))
  PROVE  LossShape'
BY DEF LossShape

\* A loss counts for the attempt under way.
LEMMA CountedLoss ==
  ASSUME TypeOK, LossShape, losses' = losses + 1, UNCHANGED thread
  PROVE  LossShape'
<1>1. losses \in Nat
  BY ConfigAssumption DEF ConfigAssumption, TypeOK
<1>2. \A t \in Threads : (SecondAttempt(t)' <=> SecondAttempt(t)) /\ (GaveUp(t)' <=> GaveUp(t))
  BY DEF thread, SecondAttempt, GaveUp
<1>3. losses' >= 1 /\ (losses >= 1 => losses' >= 2) /\ (losses >= 2 => losses' >= 2)
  BY <1>1
<1> QED
  BY <1>2, <1>3 DEF LossShape

\* An attempt that fails has lost its process; one that fails for the second time
\* has lost another.
LEMMA LostLosses ==
  ASSUME TypeOK, LockShape, LossShape, NEW t \in Threads, pc[t] \in {"write", "read"},
         Broken(proc), Lost(t), UNCHANGED losses
  PROVE  LossShape'
<1>1. proc # NoProc /\ proc' = NoProc /\ req' = req
  BY DEF LockShape, Lost, Return
<1>2. losses >= 1 /\ (SecondAttempt(t) => losses >= 2)
  BY <1>1 DEF LossShape
<1>3. \A u \in Threads : u # t => (SecondAttempt(u)' => SecondAttempt(u)) /\ (GaveUp(u)' => GaveUp(u))
  BY DEF Lost, Return, SecondAttempt, GaveUp, TypeOK
<1>4. (SecondAttempt(t)' => losses >= 1) /\ (GaveUp(t)' => losses >= 2)
  <2>1. CASE attempt[t] = 1 /\ result' = result
    BY <1>1, <1>2, <2>1 DEF LossShape, GaveUp
  <2>2. CASE attempt[t] = 2 /\ Return(t, "lost")
    <3>1. GaveUp(t)' => SecondAttempt(t)
      BY <1>1, <2>2 DEF GaveUp, SecondAttempt, Critical
    <3> QED
      BY <1>2, <3>1
  <2> QED
    BY <2>1, <2>2 DEF Lost
<1> QED
  BY <1>1, <1>3, <1>4 DEF LossShape

LEMMA LossStep ==
  ASSUME TypeOK, LockShape, ProcShape, OneInFlight, LossShape, [Next]_vars
  PROVE  LossShape'
<1>1. ASSUME NEW t \in Threads,
             Begin(t) \/ Acquire(t) \/ Reuse(t) \/ StartFails(t) \/ Save(t) \/ Write(t)
      PROVE  LossShape'
  <2>1. UNCHANGED <<losses, proc, state, outbox>>
    BY <1>1 DEF Begin, Acquire, Reuse, StartFails, Save, Write, client, session
  <2>2. \A u \in Threads : u # t => (SecondAttempt(u)' => SecondAttempt(u)) /\ (GaveUp(u)' => GaveUp(u))
    BY <1>1 DEF Begin, Acquire, Reuse, StartFails, Save, Write, Return, SecondAttempt, GaveUp, TypeOK
  <2>3. SecondAttempt(t)' => SecondAttempt(t)
    BY <1>1 DEF Begin, Acquire, Reuse, StartFails, Save, Write, Return, SecondAttempt, Critical, TypeOK
  <2>4. GaveUp(t)' => GaveUp(t)
    BY <1>1 DEF Begin, Acquire, Reuse, StartFails, Save, Write, Return, GaveUp, TypeOK
  <2> QED
    BY <2>1, <2>2, <2>3, <2>4, KeptLosses DEF Broken
<1>2. ASSUME NEW t \in Threads, Start(t)
      PROVE  LossShape'
  <2>1. PICK p \in Procs : state[p] = "gone" /\ proc' = p /\ state' = [state EXCEPT ![p] = "up"]
    BY <1>2 DEF Start
  <2>2. state'[p] = "up" /\ outbox'[p] = <<>> /\ UNCHANGED losses
    BY <1>2, <2>1, ConfigAssumption DEF ConfigAssumption, Start, ProcShape, TypeOK
  <2>3. ~Broken(proc)'
    BY <2>1, <2>2 DEF Broken
  <2>4. \A u \in Threads : (SecondAttempt(u)' => SecondAttempt(u)) /\ (GaveUp(u)' => GaveUp(u))
    BY <1>2 DEF Start, SecondAttempt, GaveUp, Critical, TypeOK
  <2> QED
    BY <2>2, <2>3, <2>4, KeptLosses
<1>3. ASSUME NEW t \in Threads, Read(t) \/ AskAgain(t)
      PROVE  LossShape'
  <2>1. proc # NoProc /\ proc \in Procs /\ UNCHANGED <<proc, state, losses>>
    BY <1>3 DEF Read, AskAgain, LockShape, TypeOK, client
  <2>2. Tail(outbox[proc]) = <<>>
    <3>1. inbox[proc] \in Seq(Request) /\ outbox[proc] \in Seq(Reply) /\ outbox[proc] # <<>>
      BY <1>3, <2>1 DEF Read, AskAgain, TypeOK
    <3>2. Len(inbox[proc]) + Len(outbox[proc]) <= 1
      BY <2>1 DEF OneInFlight
    <3> QED
      BY <3>1, <3>2, AtMostOne
  <2>3. outbox'[proc] = <<>>
    BY <1>3, <2>1, <2>2 DEF Read, AskAgain, TypeOK
  <2>4. \A u \in Threads : u # t => (SecondAttempt(u)' => SecondAttempt(u)) /\ (GaveUp(u)' => GaveUp(u))
    BY <1>3 DEF Read, AskAgain, Return, SecondAttempt, GaveUp, TypeOK
  <2>5. CASE Read(t)
    <3> DEFINE kind == Head(outbox[proc]).kind
    <3>1. kind # "lost" /\ Return(t, kind)
      <4>1. Head(outbox[proc]) \in Reply
        BY <2>1, <2>5 DEF Read, TypeOK
      <4> QED
        BY <2>5, <4>1 DEF Read, Reply
    <3> HIDE DEF kind
    <3>2. ~SecondAttempt(t)' /\ ~GaveUp(t)'
      BY <3>1 DEF Return, SecondAttempt, GaveUp, Critical, TypeOK
    <3> QED
      BY <2>1, <2>3, <2>4, <3>2, KeptLosses DEF Broken
  <2>6. CASE AskAgain(t)
    <3>1. ~SecondAttempt(t)' /\ ~GaveUp(t)'
      BY <2>6 DEF AskAgain, SecondAttempt, GaveUp
    <3> QED
      BY <2>1, <2>3, <2>4, <3>1, KeptLosses DEF Broken
  <2> QED
    BY <1>3, <2>5, <2>6
<1>4. ASSUME NEW t \in Threads, WriteFails(t) \/ ReadFails(t)
      PROVE  LossShape'
  BY <1>4, LostLosses DEF WriteFails, ReadFails, Broken, Lost
<1>5. ASSUME NEW p \in Procs, Serve(p)
      PROVE  LossShape'
  <2>1. p = proc /\ outbox[p] = <<>> /\ UNCHANGED <<client, thread, state>>
    BY <1>5, ServesReader DEF Serve
  <2>5. PICK kind :
           /\ outbox' = [outbox EXCEPT ![p] = Append(@, [id |-> Head(inbox[p]).id, kind |-> kind])]
           /\ losses' = IF kind = "garbled" THEN losses + 1 ELSE losses
    BY <1>5 DEF Serve
  <2> DEFINE r == [id |-> Head(inbox[p]).id, kind |-> kind]
  <2>2. /\ outbox' = [outbox EXCEPT ![p] = Append(@, r)] /\ r.kind = kind
        /\ losses' = IF kind = "garbled" THEN losses + 1 ELSE losses
    BY <2>5
  <2> HIDE DEF r
  <2>3. CASE kind = "garbled"
    BY <2>1, <2>2, <2>3, CountedLoss
  <2>4. CASE kind # "garbled"
    <3>1. outbox'[p] = <<r>>
      BY <2>1, <2>2 DEF TypeOK
    <3>2. Broken(p)' => Broken(p)
      BY <2>1, <2>2, <2>4, <3>1 DEF Broken
    <3>3. \A u \in Threads : (SecondAttempt(u)' <=> SecondAttempt(u)) /\ (GaveUp(u)' <=> GaveUp(u))
      BY <2>1 DEF thread, SecondAttempt, GaveUp
    <3> QED
      BY <2>1, <2>2, <2>4, <3>2, <3>3, KeptLosses DEF client
  <2> QED
    BY <2>3, <2>4
<1>6. ASSUME NEW p \in Procs, Die(p)
      PROVE  LossShape'
  BY <1>6, CountedLoss DEF Die
<1>7. CASE GrowIdle \/ Destruct \/ WatchEnds \/ Watch \/ Shutdown \/ DestroyIdle \/ UNCHANGED vars
  <2>1. UNCHANGED <<thread, losses>>
    BY <1>7 DEF GrowIdle, Destruct, WatchEnds, Watch, Shutdown, DestroyIdle, vars
  <2>2. \A u \in Threads : (SecondAttempt(u)' <=> SecondAttempt(u)) /\ (GaveUp(u)' <=> GaveUp(u))
    BY <2>1 DEF thread, SecondAttempt, GaveUp
  <2>3. proc' # NoProc /\ Broken(proc)' => proc' = proc /\ Broken(proc)
    <3>1. CASE Watch \/ Shutdown
      BY <3>1 DEF Watch, Shutdown
    <3>2. CASE DestroyIdle
      BY <3>2 DEF DestroyIdle, Destroyed, ProcShape, Broken, TypeOK
    <3>3. CASE GrowIdle \/ Destruct \/ WatchEnds \/ UNCHANGED vars
      BY <3>3 DEF GrowIdle, Destruct, WatchEnds, vars, client, session, Broken
    <3> QED
      BY <1>7, <3>1, <3>2, <3>3
  <2> QED
    BY <2>1, <2>2, <2>3, KeptLosses
<1> QED
  BY <1>1, <1>2, <1>3, <1>4, <1>5, <1>6, <1>7 DEF Next, Step

\* While only one process was lost, no change of a default was told that it is:
\* each of the two attempts of a call that fails has lost a process of its own.
THEOREM SecondAttemptHidesLoss == Spec => []OneLossHidden
<1>1. Init => LossShape
  BY InitLosses
<1>2. IInv /\ LossShape /\ [Next]_vars => LossShape'
  BY LossStep DEF IInv
<1>3. IInv /\ LossShape => OneLossHidden
  BY ConfigAssumption DEF ConfigAssumption, IInv, TypeOK, LossShape, GaveUp, OneLossHidden
<1> QED
  BY <1>1, <1>2, <1>3, InvariantHolds, PTL DEF Spec

=============================================================================
