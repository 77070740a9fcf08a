------------------------------- MODULE Records -------------------------------
(***************************************************************************)
(* What is kept of matches and players (bot_core/db_manager.cc).  Every      *)
(* method opens the database anew and runs one transaction, on the thread    *)
(* of the command or of the match that calls it: nothing in the bot keeps    *)
(* two of them apart.  What SQLite does then is modelled from its use: a     *)
(* transaction that has read holds off every commit but its own, one that    *)
(* has written holds off every other writer, and nobody waits: a statement   *)
(* that would have to fails, and the transaction with it.                    *)
(***************************************************************************)
EXTENDS Integers, FiniteSets

CONSTANTS
    Clerks,     \* threads
    Members,    \* users
    Games,
    Gains,      \* zero-sum scores
    Required,   \* k_required_match_num: wins before one's own record may be erased
    MaxMatches, \* bound on the matches that are recorded
    MaxBirths,  \* bound on birth_count
    MaxHonors   \* bound on the honors that are given

Unborn == -1    \* not in the table of users

VARIABLES
    db,         \* what is committed
    job,        \* what each thread is about: a record with its kind, or idle
    at,         \* how far: "idle", "begun", "read", "written"
    view,       \* the database as the transaction sees it
    readers,    \* the transactions that have read
    writer,     \* the one that has written, if any
    ended       \* history: births that ended because the user wanted it

recordVars == <<db, job, at, view, readers, writer, ended>>

Idle == [kind |-> "none"]
NobodyWrites == "none"

ASSUME RecordsAssumption ==
    NobodyWrites \notin Clerks /\ IsFiniteSet(Members) /\ Required \in Nat

Empty == [birth |-> [u \in Members |-> Unborn],
          rows |-> {},          \* user_with_match and match
          last |-> 0,           \* the last match_id
          honors |-> {}, lastHonor |-> 0]

RecordsInit ==
    /\ db = Empty
    /\ job = [t \in Clerks |-> Idle]
    /\ at = [t \in Clerks |-> "idle"]
    /\ view = [t \in Clerks |-> Empty]
    /\ readers = {} /\ writer = NobodyWrites
    /\ ended = {}

-----------------------------------------------------------------------------
(* The statements.                                                          *)

\* Rows of a user since his record was last erased, of one game or of all.
Since(d, u) == {r \in d.rows : r.user = u /\ r.birth = d.birth[u]}

\* GetGameHistoryOfUser
HistoryOf(d, u, g) == Cardinality({r \in Since(d, u) : r.game = g})

\* ForeachRecentMatchOfUser
Recent(d, u, limit) ==
    {r \in Since(d, u) : Cardinality({s \in Since(d, u) : s.match > r.match}) < limit}

\* InsertUserIfNotExist, for each of the users.
WithUsers(d, us) ==
    [d EXCEPT !.birth = [u \in Members |-> IF u \in us /\ @[u] = Unborn THEN 0 ELSE @[u]]]

\* RecordMatch (the function): the match, and a row for each of its users, with the
\* number of matches from which the level score was calculated.
WithMatch(d, j) ==
    LET known == WithUsers(d, DOMAIN j.gain)
        id == d.last + 1
    IN  [known EXCEPT !.last = id,
                      !.rows = @ \cup {[match |-> id, game |-> j.game, user |-> u,
                                        birth |-> known.birth[u], gain |-> j.gain[u],
                                        seen |-> j.seen[u]] : u \in DOMAIN j.gain}]

\* UpdateBirthOfUser: nothing happens to a user who is not there.
Reborn(d, u) == IF d.birth[u] = Unborn THEN d ELSE [d EXCEPT !.birth[u] = @ + 1]

\* Suicide
MaySuicide(d, j) ==
    Cardinality({r \in Recent(d, j.user, j.required) : r.gain > 0}) = j.required

WithHonor(d, u) ==
    LET known == WithUsers(d, {u})
    IN  [known EXCEPT !.lastHonor = @ + 1,
            !.honors = @ \cup {[id |-> d.lastHonor + 1, user |-> u, birth |-> known.birth[u]]}]

Written(d, j) ==
    CASE j.kind = "record" -> WithMatch(d, j)
      [] j.kind = "suicide" -> Reborn(d, j.user)
      [] j.kind = "honor" -> WithHonor(d, j.user)
      [] j.kind = "unhonor" -> [d EXCEPT !.honors = {h \in @ : h.id # j.id}]

-----------------------------------------------------------------------------
(* ExecuteTransaction.                                                      *)

\* BEGIN locks nothing yet.
Begin(t, j) ==
    /\ at[t] = "idle"
    /\ LET busy == Cardinality({c \in Clerks : job[c].kind = j.kind})
       IN  /\ j.kind = "record" => db.last + busy < MaxMatches
           /\ j.kind = "suicide" => db.birth[j.user] + busy < MaxBirths
           /\ j.kind = "honor" => db.lastHonor + busy < MaxHonors
    /\ job' = [job EXCEPT ![t] = j]
    /\ at' = [at EXCEPT ![t] = "begun"]
    /\ UNCHANGED <<db, view, readers, writer, ended>>

\* The transaction is over: COMMIT, ROLLBACK, or the connection that is closed.
CloseDb(t) ==
    /\ job' = [job EXCEPT ![t] = Idle]
    /\ at' = [at EXCEPT ![t] = "idle"]
    /\ view' = [view EXCEPT ![t] = Empty]
    /\ readers' = readers \ {t}
    /\ writer' = IF writer = t THEN NobodyWrites ELSE writer

\* Slip: the histories are read before the transaction begins.
ReadUnlocked(t) ==
    /\ at[t] = "begun"
    /\ job' = [job EXCEPT ![t] =
          IF @.kind # "record" THEN @
          ELSE [@ EXCEPT !.seen = [u \in DOMAIN job[t].gain |-> HistoryOf(db, u, job[t].game)]]]
    /\ view' = [view EXCEPT ![t] = db]
    /\ at' = [at EXCEPT ![t] = "read"]
    /\ UNCHANGED <<db, readers, writer, ended>>

\* The first query.  The scores of a match are calculated from what it answers.
Read(t) ==
    /\ at[t] = "begun"
    /\ job' = [job EXCEPT ![t] =
          IF @.kind # "record" THEN @
          ELSE [@ EXCEPT !.seen = [u \in DOMAIN job[t].gain |-> HistoryOf(db, u, job[t].game)]]]
    /\ view' = [view EXCEPT ![t] = db]
    /\ readers' = readers \cup {t}
    /\ at' = [at EXCEPT ![t] = "read"]
    /\ UNCHANGED <<db, writer, ended>>

\* The callback returns false, or there was nothing to write.
ReadOnly(t) ==
    /\ at[t] = "read"
    /\ \/ job[t].kind = "profile"
       \/ job[t].kind = "suicide" /\ ~MaySuicide(view[t], job[t])
    /\ CloseDb(t)
    /\ UNCHANGED <<db, ended>>

Write(t) ==
    /\ at[t] = "read" /\ writer = NobodyWrites
    /\ job[t].kind # "profile"
    /\ job[t].kind = "suicide" => MaySuicide(view[t], job[t])
    /\ writer' = t
    /\ view' = [view EXCEPT ![t] = Written(view[t], job[t])]
    /\ at' = [at EXCEPT ![t] = "written"]
    /\ UNCHANGED <<db, job, readers, ended>>

Commit(t) ==
    /\ at[t] = "written" /\ readers \subseteq {t}
    /\ db' = view[t]
    /\ ended' = IF job[t].kind = "suicide" /\ job[t].required > 0 /\ db.birth[job[t].user] # Unborn
                THEN ended \cup {<<job[t].user, db.birth[job[t].user]>>} ELSE ended
    /\ CloseDb(t)

\* A statement fails, because somebody is in the way or for a reason of its own: the
\* exception ends the transaction, and the caller is told that it failed.
Fail(t) ==
    /\ at[t] # "idle"
    /\ CloseDb(t)
    /\ UNCHANGED <<db, ended>>

\* The process dies, and starts again with what was committed.
DatabaseCrash ==
    /\ job' = [t \in Clerks |-> Idle]
    /\ at' = [t \in Clerks |-> "idle"]
    /\ view' = [t \in Clerks |-> Empty]
    /\ readers' = {} /\ writer' = NobodyWrites
    /\ UNCHANGED <<db, ended>>

Jobs ==
    {[kind |-> "record", game |-> g, gain |-> f, seen |-> f] :
        g \in Games, f \in UNION {[S -> Gains] : S \in {U \in SUBSET Members : Cardinality(U) > 1}}}
    \cup {[kind |-> "suicide", user |-> u, required |-> n] : u \in Members, n \in {0, Required}}
    \cup {[kind |-> "honor", user |-> u] : u \in Members}
    \cup {[kind |-> "unhonor", id |-> i] : i \in 1 .. MaxHonors}
    \cup {[kind |-> "profile"]}

RecordsNext ==
    \/ \E t \in Clerks :
          \/ \E j \in Jobs : Begin(t, j)
          \/ Read(t) \/ ReadOnly(t) \/ Write(t) \/ Commit(t) \/ Fail(t)
    \/ DatabaseCrash

RecordsSpec == RecordsInit /\ [][RecordsNext]_recordVars

-----------------------------------------------------------------------------
(* Properties.                                                              *)

RecordsTypeOK ==
    /\ DOMAIN db.birth = Members /\ db.last \in 0 .. MaxMatches
    /\ at \in [Clerks -> {"idle", "begun", "read", "written"}]
    /\ readers \subseteq Clerks /\ writer \in Clerks \cup {NobodyWrites}

\* A level score was calculated from all matches of the user in the game that were
\* recorded before, and from no others, whichever matches end at the same time.
LevelsCountAll ==
    \A r \in db.rows :
        r.seen = Cardinality({s \in db.rows : /\ s.user = r.user /\ s.game = r.game
                                              /\ s.birth = r.birth /\ s.match < r.match})

\* A match is recorded with all of its users or not at all, for users who are there.
MatchesAreWhole ==
    /\ \A r \in db.rows : r.match <= db.last /\ r.birth <= db.birth[r.user]
    /\ \A m \in 1 .. db.last : Cardinality({r \in db.rows : r.match = m}) > 1

\* Who erased his own record had won his last matches, and all matches recorded since
\* count for the new one.
ErasedByWinners ==
    \A e \in ended :
        LET old == {r \in db.rows : r.user = e[1] /\ r.birth = e[2]}
            last == {r \in old : Cardinality({s \in old : s.match > r.match}) < Required}
        IN  /\ Cardinality(last) = Required
            /\ \A r \in last : r.gain > 0
            /\ \A r \in old, s \in {x \in db.rows : x.user = e[1] /\ x.birth > e[2]} :
                  r.match < s.match

RecordsAddUp == LevelsCountAll /\ MatchesAreWhole /\ ErasedByWinners

=============================================================================
